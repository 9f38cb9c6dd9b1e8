------------------------ MODULE WebSocketRelay_proofs ------------------------
(***************************************************************************)
(* Proofs about WebSocketRelay, for any frames, limits and budget of the   *)
(* capture, and any number of frames in a session.                         *)
(***************************************************************************)
EXTENDS WebSocketRelay, FiniteSetTheorems, SequenceTheorems, TLAPS

USE RelayAssumption

-----------------------------------------------------------------------------
(* The inductive invariant.                                                *)

Errors  == {"benign", "failed"}
Returns == [dir: Directions, err: Errors]

(* Each relay that has returned has one result, and no other has.          *)
ResultsInv ==
    /\ results \in Seq(Returns)
    /\ \A i, j \in 1..Len(results) : results[i].dir = results[j].dir => i = j
    /\ \A d \in Directions :
          pc[d] = "done" <=> \E i \in 1..Len(results) : results[i].dir = d

(* A refusal is among the results, and the outcome is judged by both.      *)
ReportInv ==
    /\ \A d \in refused : \E i \in 1..Len(results) :
          results[i].dir = d /\ results[i].err = "failed"
    /\ stage = "over" =>
          /\ Len(results) = 2
          /\ outcome = "fail" <=> \E r \in Judged : r.err = "failed"

(* What a message may be when it is written.                               *)
Proper(d, m) ==
    Sensitive(m.body) => IF d = "down" THEN m.mediated /\ m.op # "binary"
                                       ELSE m.op = "text"

(* Inspection knows of everything sensitive in a message.                  *)
MediatedInv ==
    /\ \A d \in Directions :
          /\ pc[d] = "inspecting" => out[d].mediated = Sensitive(out[d].body)
          /\ pc[d] = "writing" => Proper(d, out[d])
    /\ \A d \in Directions : \A i \in 1..Len(delivered[d]) :
          Proper(d, delivered[d][i])

(* The captured message with the n-th place among those of a relay.        *)
Captures(d, m, n) ==
    \E j \in 1..Len(captured) :
        /\ captured[j].dir = d /\ CapturedFrom(d, j) = n
        /\ captured[j].op = m.op /\ captured[j].body = m.body

LastCaptured(d) == CapturedFrom(d, Len(captured))
LastSent(d)     == SentBy(d, Len(delivered[d]))
Records         == [dir: Directions, op: Data \cup Ctl, body: Seq(Parts)]

(* Until it is truncated, the capture is ahead of what a relay wrote by    *)
(* the message that the relay is about to write, and by no other.          *)
Ahead(d) ==
    /\ pc[d] \in {"reading", "inspecting"} => LastCaptured(d) = LastSent(d)
    /\ pc[d] = "writing" =>
          IF out[d].op \in Data
          THEN /\ LastCaptured(d) = LastSent(d) + 1
               /\ Captures(d, out[d], LastSent(d) + 1)
          ELSE LastCaptured(d) = LastSent(d)
    /\ \A i \in 1..Len(delivered[d]) :
          delivered[d][i].op \in Data => Captures(d, delivered[d][i], SentBy(d, i))

CaptureInv ==
    /\ captured \in Seq(Records)
    /\ ~truncated => \A d \in Directions : Ahead(d)

(* A relay has written the messages that its frames ended, but for the one *)
(* it is about to write; what its buffer holds is the unfinished message.  *)
InStep(d) ==
    LET log == received[d]
        n   == Len(log)
    IN  /\ \A i \in 1..Len(delivered[d]) : \E k \in 1..n :
              /\ log[k].fin /\ Ended(log, k) = i
              /\ IsMessage(log, k, delivered[d][i])
        /\ pc[d] = "reading" => Len(delivered[d]) = Ended(log, n)
        /\ pc[d] \in {"inspecting", "writing"} =>
              /\ n \in 1..n /\ log[n].fin
              /\ Ended(log, n) = Len(delivered[d]) + 1
              /\ IsMessage(log, n, out[d])
        /\ fragmented[d] => Unfinished(log, n, message[d])

DeliveryInv ==
    /\ received \in [Directions -> Seq(Frames)]
    /\ \A d \in Directions : InStep(d)

(* All of it, with the types.                                              *)
RelayTypes ==
    /\ stage \in {"handshake", "rejected", "relaying", "closing", "over"}
    /\ expired \in BOOLEAN /\ truncated \in BOOLEAN
    /\ closed \subseteq Conns
    /\ pc \in [Directions -> {"reading", "inspecting", "writing", "done"}]
    /\ message \in [Directions -> Messages] /\ out \in [Directions -> Messages]
    /\ fragmented \in [Directions -> BOOLEAN]
    /\ outcome \in {"none", "pass", "fail"}
    /\ remaining \in 0..CaptureLimit
    /\ delivered \in [Directions -> Seq(Messages)]
    /\ refused \subseteq Directions

RelayInv ==
    /\ RelayTypes
    /\ ResultsInv
    /\ ReportInv
    /\ MediatedInv
    /\ CaptureInv

-----------------------------------------------------------------------------
(* Results.                                                                *)

(* There are two directions, so two results at most, and with two of them  *)
(* both relays have returned.                                              *)
LEMMA TwoResults ==
    ASSUME ResultsInv
    PROVE  /\ Len(results) \in Nat /\ Len(results) <= 2
           /\ Len(results) = 2 => \A d \in Directions : pc[d] = "done"
<1>1. Len(results) \in Nat
  BY LenProperties DEF ResultsInv
<1>2. \A i \in 1..Len(results) : results[i].dir \in {"up", "down"}
  <2>1. \A i \in 1..Len(results) : results[i] \in Returns
    BY ElementOfSeq DEF ResultsInv
  <2>2. QED
    BY <2>1 DEF Returns, Directions
<1>3. Len(results) <= 2
  <2> SUFFICES ASSUME ~(Len(results) <= 2) PROVE FALSE
    OBVIOUS
  <2>1. 1 \in 1..Len(results) /\ 2 \in 1..Len(results) /\ 3 \in 1..Len(results)
    BY <1>1
  <2>2. /\ results[1].dir # results[2].dir /\ results[1].dir # results[3].dir
        /\ results[2].dir # results[3].dir
    BY <2>1 DEF ResultsInv
  <2>3. QED
    BY <1>2, <2>1, <2>2
<1>4. ASSUME Len(results) = 2, NEW d \in Directions PROVE pc[d] = "done"
  <2>1. 1 \in 1..Len(results) /\ 2 \in 1..Len(results)
    BY <1>4
  <2>2. results[1].dir # results[2].dir
    BY <2>1 DEF ResultsInv
  <2>3. results[1].dir = d \/ results[2].dir = d
    BY <1>2, <2>1, <2>2 DEF Directions
  <2>4. QED
    BY <2>1, <2>3 DEF ResultsInv
<1>5. QED
  BY <1>1, <1>3, <1>4

(* relayWebSocket returns, and its result is put behind the others.        *)
LEMMA Returned ==
    ASSUME RelayTypes, ResultsInv, NEW d \in Directions, pc[d] # "done",
           NEW err \in Errors, Return(d, err)
    PROVE  /\ ResultsInv'
           /\ Len(results) < 2
           /\ Len(results') = Len(results) + 1
           /\ results'[Len(results) + 1] = [dir |-> d, err |-> err]
           /\ \A i \in 1..Len(results) : results'[i] = results[i]
           /\ pc' = [pc EXCEPT ![d] = "done"]
<1> DEFINE n == Len(results)
           r == [dir |-> d, err |-> err]
<1>1. n \in Nat /\ n <= 2 /\ (n = 2 => pc[d] = "done")
  BY TwoResults
<1>2. results \in Seq(Returns) /\ r \in Returns
  BY DEF ResultsInv, Returns
<1>3. results' = Append(results, r) /\ pc' = [pc EXCEPT ![d] = "done"]
  BY DEF Return
<1> HIDE DEF n
<1>4. /\ results' \in Seq(Returns) /\ Len(results') = n + 1
      /\ results'[n + 1] = r
      /\ \A i \in 1..n : results'[i] = results[i]
  BY <1>2, <1>3, AppendProperties DEF n
<1>5. \A i \in 1..n : results[i].dir # d
  BY DEF ResultsInv, n
<1>6. \A i, j \in 1..n + 1 : results'[i].dir = results'[j].dir => i = j
  <2>1. \A i, j \in 1..n : results[i].dir = results[j].dir => i = j
    BY DEF ResultsInv, n
  <2>2. \A i \in 1..n + 1 : i \in 1..n \/ i = n + 1
    BY <1>1
  <2>3. r.dir = d
    OBVIOUS
  <2> HIDE DEF r
  <2>4. QED
    BY <1>4, <1>5, <2>1, <2>2, <2>3
<1>7. ASSUME NEW e \in Directions
      PROVE  pc'[e] = "done" <=> \E i \in 1..n + 1 : results'[i].dir = e
  <2>1. \A i \in 1..n : i \in 1..n + 1
    BY <1>1
  <2>2. n + 1 \in 1..n + 1
    BY <1>1
  <2>3. CASE e = d
    BY <1>3, <1>4, <2>2, <2>3 DEF RelayTypes
  <2>4. CASE e # d
    <3>1. pc'[e] = "done" <=> \E i \in 1..n : results[i].dir = e
      BY <1>3, <2>4 DEF RelayTypes, ResultsInv, n
    <3>2. \A i \in 1..n + 1 : i \in 1..n \/ i = n + 1
      BY <1>1
    <3>3. r.dir # e
      BY <2>4
    <3> HIDE DEF r
    <3>4. QED
      BY <1>4, <2>1, <3>1, <3>2, <3>3
  <2>5. QED
    BY <2>3, <2>4
<1>8. ResultsInv'
  BY <1>4, <1>6, <1>7 DEF ResultsInv
<1>9. n < 2
  BY <1>1
<1>10. results'[n + 1] = [dir |-> d, err |-> err]
  BY <1>4
<1> HIDE DEF r
<1>11. QED
  BY <1>3, <1>4, <1>8, <1>9, <1>10 DEF n

(* A return, with or without a refusal, keeps refusals reported.           *)
LEMMA ReturnReported ==
    ASSUME RelayTypes, ResultsInv, ReportInv,
           NEW d \in Directions, pc[d] # "done", NEW err \in Errors,
           Return(d, err), stage' = stage, outcome' = outcome,
           \/ refused' = refused
           \/ refused' = refused \cup {d} /\ err = "failed"
    PROVE  ReportInv'
<1>1. /\ Len(results) \in Nat /\ Len(results) < 2
      /\ Len(results') = Len(results) + 1
      /\ results'[Len(results) + 1] = [dir |-> d, err |-> err]
      /\ \A i \in 1..Len(results) : results'[i] = results[i]
  BY Returned, TwoResults
<1>2. ASSUME NEW e \in refused'
      PROVE  \E i \in 1..Len(results') :
                results'[i].dir = e /\ results'[i].err = "failed"
  <2>1. CASE e \in refused
    <3>1. PICK i \in 1..Len(results) :
             results[i].dir = e /\ results[i].err = "failed"
      BY <2>1 DEF ReportInv
    <3>2. i \in 1..Len(results') /\ results'[i] = results[i]
      BY <1>1
    <3>3. QED
      BY <3>1, <3>2
  <2>2. CASE e = d /\ err = "failed"
    <3>1. Len(results) + 1 \in 1..Len(results')
      BY <1>1
    <3>2. /\ results'[Len(results) + 1].dir = e
          /\ results'[Len(results) + 1].err = "failed"
      BY <1>1, <2>2
    <3>3. QED
      BY <3>1, <3>2
  <2>3. QED
    BY <1>2, <2>1, <2>2
<1>3. stage' # "over"
  <2>1. stage = "over" => Len(results) = 2
    BY DEF ReportInv
  <2>2. Len(results) # 2
    <3>1. Len(results) \in Nat /\ Len(results) < 2
      BY <1>1, Zenon
    <3>2. \A n \in Nat : n < 2 => n # 2
      OBVIOUS
    <3>3. QED
      BY <3>1, <3>2, Zenon
  <2>3. stage # "over"
    BY <2>1, <2>2, Zenon
  <2>4. QED
    BY <2>3, Zenon
<1>4. QED
  BY <1>2, <1>3 DEF ReportInv

-----------------------------------------------------------------------------
(* Steps of a relay.                                                       *)

LEMMA FrameIs ==
    ASSUME NEW f \in Frames
    PROVE  /\ f.op \in Data \cup Ctl \cup {"cont"} /\ f.fin \in BOOLEAN
           /\ f.payload \in Seq(Parts) /\ Len(f.payload) \in Nat
BY LenProperties

(* A frame is refused, or put behind the others: a control frame becomes   *)
(* the message to inspect, and a data frame extends the one under way.     *)
LEMMA ReadCases ==
    ASSUME RelayTypes, NEW d \in Directions, Read(d)
    PROVE  /\ pc[d] = "reading" /\ UNCHANGED <<session, capture, delivered>>
           /\ \/ /\ Return(d, "failed") /\ refused' = refused \cup {d}
                 /\ UNCHANGED <<buffer, out, received>>
              \/ /\ UNCHANGED <<results, refused>>
                 /\ \E f \in Frames, m \in Messages :
                    /\ ~OutOfOrder(d, f)
                    /\ received' = [received EXCEPT ![d] = Append(@, f)]
                    /\ m.mediated = Sensitive(m.body)
                    /\ IF f.op \in Ctl
                       THEN /\ m.op = f.op /\ m.body = f.payload
                            /\ UNCHANGED buffer
                       ELSE /\ m.op = IF f.op = "cont" THEN message[d].op
                                                       ELSE f.op
                            /\ m.body = Assembled(d, f)
                            /\ message' = [message EXCEPT ![d] = m]
                            /\ fragmented' = [fragmented EXCEPT ![d] = ~f.fin]
                    /\ IF f.op \in Ctl \/ f.fin
                       THEN /\ out' = [out EXCEPT ![d] = m]
                            /\ pc' = [pc EXCEPT ![d] = "inspecting"]
                       ELSE UNCHANGED <<out, pc>>
<1>1. pc[d] = "reading" /\ UNCHANGED <<session, capture, delivered>>
  BY DEF Read, Reading
<1>2. /\ message[d] \in Messages
      /\ message \in [Directions -> Messages]
      /\ fragmented \in [Directions -> BOOLEAN]
  BY DEF RelayTypes
<1>3. PICK f \in Frames :
        IF \/ OutOfOrder(d, f)
           \/ Len(IF f.op \in Ctl THEN f.payload ELSE Assembled(d, f)) > Limit
        THEN /\ Return(d, "failed")
             /\ refused' = refused \cup {d}
             /\ UNCHANGED <<buffer, out, received>>
        ELSE IF f.op \in Ctl
        THEN /\ received' = [received EXCEPT ![d] = Append(@, f)]
             /\ out' = [out EXCEPT ![d] =
                    [op |-> f.op, body |-> f.payload,
                     mediated |-> Sensitive(f.payload)]]
             /\ pc' = [pc EXCEPT ![d] = "inspecting"]
             /\ UNCHANGED <<buffer, results, refused>>
        ELSE LET op == IF f.op = "cont" THEN message[d].op ELSE f.op
                 m  == [op |-> op, body |-> Assembled(d, f),
                        mediated |-> Sensitive(Inspected(d, f))]
             IN  /\ received' = [received EXCEPT ![d] = Append(@, f)]
                 /\ message' = [message EXCEPT ![d] = m]
                 /\ fragmented' = [fragmented EXCEPT ![d] = ~f.fin]
                 /\ out' = IF f.fin THEN [out EXCEPT ![d] = m] ELSE out
                 /\ pc' = IF f.fin THEN [pc EXCEPT ![d] = "inspecting"]
                          ELSE pc
                 /\ UNCHANGED <<results, refused>>
  BY DEF Read
<1>4. /\ f.op \in Data \cup Ctl \cup {"cont"} /\ f.fin \in BOOLEAN
      /\ f.payload \in Seq(Parts)
  OBVIOUS
<1>5. CASE \/ OutOfOrder(d, f)
           \/ Len(IF f.op \in Ctl THEN f.payload ELSE Assembled(d, f)) > Limit
  BY <1>1, <1>3, <1>5
<1>6. CASE /\ ~OutOfOrder(d, f)
           /\ ~(Len(IF f.op \in Ctl THEN f.payload ELSE Assembled(d, f))
                  > Limit)
           /\ f.op \in Ctl
  <2> DEFINE m == [op |-> f.op, body |-> f.payload,
                   mediated |-> Sensitive(f.payload)]
  <2>1. m \in Messages /\ m.mediated = Sensitive(m.body)
    BY <1>4, <1>6 DEF Messages, Sensitive
  <2>2. /\ out' = [out EXCEPT ![d] = m]
        /\ pc' = [pc EXCEPT ![d] = "inspecting"]
        /\ received' = [received EXCEPT ![d] = Append(@, f)]
        /\ UNCHANGED <<buffer, results, refused>>
    BY <1>3, <1>6
  <2>3. m.op = f.op /\ m.body = f.payload
    OBVIOUS
  <2> HIDE DEF m
  <2>4. QED
    BY <1>1, <1>6, <2>1, <2>2, <2>3
<1>7. CASE /\ ~OutOfOrder(d, f)
           /\ ~(Len(IF f.op \in Ctl THEN f.payload ELSE Assembled(d, f))
                  > Limit)
           /\ f.op \notin Ctl
  <2> DEFINE m == [op |-> IF f.op = "cont" THEN message[d].op ELSE f.op,
                   body |-> Assembled(d, f),
                   mediated |-> Sensitive(Inspected(d, f))]
  <2>1. Assembled(d, f) \in Seq(Parts)
    BY <1>2, <1>4, ConcatProperties DEF Assembled, Messages
  <2>2. (IF f.op = "cont" THEN message[d].op ELSE f.op) \in Data \cup Ctl
    BY <1>2, <1>4, <1>7 DEF Messages
  <2>3. Sensitive(Inspected(d, f)) \in BOOLEAN
    BY DEF Sensitive
  <2>4. m \in Messages
    BY <2>1, <2>2, <2>3 DEF Messages
  <2>5. m.mediated = Sensitive(m.body)
    BY DEF Inspected
  <2>6. /\ received' = [received EXCEPT ![d] = Append(@, f)]
        /\ message' = [message EXCEPT ![d] = m]
        /\ fragmented' = [fragmented EXCEPT ![d] = ~f.fin]
        /\ out' = IF f.fin THEN [out EXCEPT ![d] = m] ELSE out
        /\ pc' = IF f.fin THEN [pc EXCEPT ![d] = "inspecting"] ELSE pc
        /\ UNCHANGED <<results, refused>>
    BY <1>3, <1>7
  <2>7. /\ m.op = IF f.op = "cont" THEN message[d].op ELSE f.op
        /\ m.body = Assembled(d, f)
    OBVIOUS
  <2> HIDE DEF m
  <2>8. QED
    BY <1>1, <1>7, <2>4, <2>5, <2>6, <2>7
<1>8. QED
  BY <1>5, <1>6, <1>7

(* So a frame ends or begins no more than the inspection of a message.     *)
LEMMA ReadIs ==
    ASSUME RelayTypes, NEW d \in Directions, Read(d)
    PROVE  /\ pc[d] = "reading"
           /\ UNCHANGED <<session, capture, delivered>>
           /\ \/ /\ Return(d, "failed") /\ refused' = refused \cup {d}
                 /\ UNCHANGED <<buffer, out>>
              \/ /\ UNCHANGED <<results, refused>>
                 /\ message' \in [Directions -> Messages]
                 /\ fragmented' \in [Directions -> BOOLEAN]
                 /\ \/ UNCHANGED <<pc, out>>
                    \/ /\ pc' = [pc EXCEPT ![d] = "inspecting"]
                       /\ \E m \in Messages :
                             /\ m.mediated = Sensitive(m.body)
                             /\ out' = [out EXCEPT ![d] = m]
<1>1. /\ pc[d] = "reading" /\ UNCHANGED <<session, capture, delivered>>
      /\ message \in [Directions -> Messages]
      /\ fragmented \in [Directions -> BOOLEAN]
  BY ReadCases DEF RelayTypes
<1>2. CASE /\ Return(d, "failed") /\ refused' = refused \cup {d}
           /\ UNCHANGED <<buffer, out>>
  BY <1>1, <1>2
<1>3. ASSUME UNCHANGED <<results, refused>>, NEW f \in Frames, NEW m \in Messages,
             m.mediated = Sensitive(m.body),
             \/ UNCHANGED buffer
             \/ /\ message' = [message EXCEPT ![d] = m]
                /\ fragmented' = [fragmented EXCEPT ![d] = ~f.fin],
             \/ UNCHANGED <<pc, out>>
             \/ /\ out' = [out EXCEPT ![d] = m]
                /\ pc' = [pc EXCEPT ![d] = "inspecting"]
      PROVE  /\ message' \in [Directions -> Messages]
             /\ fragmented' \in [Directions -> BOOLEAN]
             /\ \/ UNCHANGED <<pc, out>>
                \/ /\ pc' = [pc EXCEPT ![d] = "inspecting"]
                   /\ \E c \in Messages : /\ c.mediated = Sensitive(c.body)
                                          /\ out' = [out EXCEPT ![d] = c]
  BY <1>1, <1>3, FrameIs DEF buffer
<1>4. QED
  BY <1>1, <1>2, <1>3, ReadCases

(* A message costs what is left of the capture's budget, or truncates it.  *)
LEMMA CaptureIs ==
    ASSUME RelayTypes, NEW d \in Directions, Capture(d)
    PROVE  /\ remaining' \in 0..CaptureLimit /\ truncated' \in BOOLEAN
           /\ \/ truncated' = TRUE /\ captured' = captured
              \/ /\ truncated' = truncated
                 /\ captured' = Append(captured, [dir |-> d, op |-> out[d].op,
                                                  body |-> out[d].body])
<1>1. CASE ~Fits(d)
  BY <1>1 DEF Capture, RelayTypes, OverBudget
<1>2. CASE Fits(d)
  <2>1. Cost(d) \in Nat
    BY LenProperties DEF Cost, RelayTypes, Messages
  <2>2. Cost(d) <= remaining /\ remaining' = remaining - Cost(d)
    BY <1>2 DEF Capture, Fits
  <2>3. remaining' \in 0..CaptureLimit
    BY <2>1, <2>2 DEF RelayTypes
  <2>4. QED
    BY <1>2, <2>3 DEF Capture, RelayTypes
<1>3. QED
  BY <1>1, <1>2

(* The results of a step in which no relay returns.                        *)
LEMMA NoneReturned ==
    ASSUME ResultsInv, results' = results,
           \A d \in Directions : pc'[d] = "done" <=> pc[d] = "done"
    PROVE  ResultsInv'
BY DEF ResultsInv

LEMMA RelayStarts == Init => RelayInv
<1> SUFFICES ASSUME Init PROVE RelayInv
  OBVIOUS
<1>1. Empty \in Messages
  BY EmptySeq DEF Empty, Messages, Data
<1>2. RelayTypes
  <2>1. CaptureLimit \in 0..CaptureLimit
    OBVIOUS
  <2>2. <<>> \in Seq(Messages)
    BY EmptySeq
  <2>3. QED
    BY <1>1, <2>1, <2>2 DEF Init, RelayTypes, Conns
<1>3. results = <<>> /\ Len(results) = 0 /\ results \in Seq(Returns)
  BY EmptySeq DEF Init
<1>4. ResultsInv
  <2>1. 1..0 = {}
    OBVIOUS
  <2>2. \A d \in Directions : pc[d] # "done"
    BY DEF Init
  <2>3. QED
    BY <1>3, <2>1, <2>2 DEF ResultsInv
<1>5. ReportInv
  BY DEF Init, ReportInv
<1>6. \A d \in Directions : delivered[d] = <<>> /\ pc[d] = "reading"
  BY DEF Init
<1>7. 1..Len(<<>>) = {}
  OBVIOUS
<1>8. MediatedInv
  BY <1>6, <1>7 DEF MediatedInv
<1>9. CaptureInv
  <2>1. captured = <<>> /\ captured \in Seq(Records)
    BY EmptySeq DEF Init
  <2>2. ASSUME NEW d \in Directions PROVE Ahead(d)
    <3>1. LastCaptured(d) = Cardinality({})
      BY <2>1 DEF LastCaptured, CapturedFrom
    <3>2. LastSent(d) = Cardinality({})
      <4>1. delivered[d] = <<>> /\ Len(<<>>) = 0 /\ 1..0 = {}
        BY <1>6
      <4>2. {j \in 1..Len(delivered[d]) : delivered[d][j].op \in Data} = {}
        BY <4>1
      <4>3. QED
        BY <4>2 DEF LastSent, SentBy
    <3>3. QED
      BY <1>6, <1>7, <3>1, <3>2 DEF Ahead
  <2>3. QED
    BY <2>1, <2>2 DEF CaptureInv
<1>10. QED
  BY <1>2, <1>4, <1>5, <1>8, <1>9 DEF RelayInv

-----------------------------------------------------------------------------
(* Places in the capture.                                                  *)

(* One element more, behind a finite set of numbers.                       *)
LEMMA OneMore ==
    ASSUME NEW n \in Nat, NEW S \in SUBSET (1..n)
    PROVE  /\ Cardinality(S) \in Nat
           /\ Cardinality(S \cup {n + 1}) = Cardinality(S) + 1
<1>1. IsFiniteSet(S)
  <2>1. 1 \in Int /\ n \in Int
    OBVIOUS
  <2>2. IsFiniteSet(1..n)
    BY <2>1, FS_Interval
  <2>3. QED
    BY <2>2, FS_Subset
<1>2. n + 1 \notin S
  OBVIOUS
<1>3. QED
  BY <1>1, <1>2, FS_AddElement, FS_CardinalityType

(* Capturing another message changes no place given, and gives the next.   *)
LEMMA CapturedNext ==
    ASSUME captured \in Seq(Records), NEW r \in Records,
           captured' = Append(captured, r), NEW d
    PROVE  /\ Len(captured) \in Nat /\ Len(captured') = Len(captured) + 1
           /\ captured'[Len(captured) + 1] = r
           /\ \A j \in 1..Len(captured) :
                 /\ captured'[j] = captured[j]
                 /\ CapturedFrom(d, j)' = CapturedFrom(d, j)
           /\ r.dir # d => LastCaptured(d)' = LastCaptured(d)
           /\ r.dir = d => LastCaptured(d)' = LastCaptured(d) + 1
<1> DEFINE n == Len(captured)
           S == {j \in 1..n : captured[j].dir = d}
<1>1. /\ n \in Nat /\ Len(captured') = n + 1 /\ captured'[n + 1] = r
      /\ \A j \in 1..n : captured'[j] = captured[j]
  BY AppendProperties, LenProperties
<1>2. ASSUME NEW k \in 1..n PROVE CapturedFrom(d, k)' = CapturedFrom(d, k)
  <2>1. \A j \in 1..k : captured'[j] = captured[j]
    BY <1>1
  <2>2. {j \in 1..k : captured'[j].dir = d} = {j \in 1..k : captured[j].dir = d}
    BY <2>1
  <2>3. QED
    BY <2>2 DEF CapturedFrom
<1>3. LastCaptured(d) = Cardinality(S)
  BY DEF LastCaptured, CapturedFrom
<1>4. LastCaptured(d)' = Cardinality({j \in 1..n + 1 : captured'[j].dir = d})
  BY <1>1 DEF LastCaptured, CapturedFrom
<1> HIDE DEF n
<1>5. \A j : j \in 1..n + 1 <=> j \in 1..n \/ j = n + 1
  BY <1>1
<1>6. n + 1 \notin 1..n
  BY <1>1
<1>7. CASE r.dir # d
  <2>1. {j \in 1..n + 1 : captured'[j].dir = d} = S
    BY <1>1, <1>5, <1>7
  <2>2. QED
    BY <1>1, <1>2, <1>3, <1>4, <1>7, <2>1 DEF n
<1>8. CASE r.dir = d
  <2>1. {j \in 1..n + 1 : captured'[j].dir = d} = S \cup {n + 1}
    BY <1>1, <1>5, <1>8
  <2>2. S \in SUBSET (1..n)
    OBVIOUS
  <2>3. Cardinality(S \cup {n + 1}) = Cardinality(S) + 1
    BY <1>1, <2>2, OneMore
  <2>4. LastCaptured(d)' = LastCaptured(d) + 1
    BY <1>3, <1>4, <2>1, <2>3
  <2>5. QED
    BY <1>1, <1>2, <1>8, <2>4 DEF n
<1>9. QED
  BY <1>7, <1>8

(* Writing another message changes no place given, and gives the next.     *)
LEMMA SentNext ==
    ASSUME NEW d \in Directions, NEW m,
           delivered \in [Directions -> Seq(Messages)], m \in Messages,
           delivered' = [delivered EXCEPT ![d] = Append(@, m)]
    PROVE  /\ Len(delivered[d]) \in Nat
           /\ Len(delivered'[d]) = Len(delivered[d]) + 1
           /\ delivered'[d][Len(delivered[d]) + 1] = m
           /\ \A i \in 1..Len(delivered[d]) :
                 /\ delivered'[d][i] = delivered[d][i]
                 /\ SentBy(d, i)' = SentBy(d, i)
           /\ m.op \notin Data => LastSent(d)' = LastSent(d)
           /\ m.op \in Data => LastSent(d)' = LastSent(d) + 1
<1> DEFINE log == delivered[d]
           n == Len(delivered[d])
           S == {j \in 1..n : delivered[d][j].op \in Data}
<1>1. log \in Seq(Messages) /\ delivered'[d] = Append(log, m)
  OBVIOUS
<1>2. /\ n \in Nat /\ Len(delivered'[d]) = n + 1 /\ delivered'[d][n + 1] = m
      /\ \A j \in 1..n : delivered'[d][j] = delivered[d][j]
  BY <1>1, AppendProperties, LenProperties
<1>3. ASSUME NEW k \in 1..n PROVE SentBy(d, k)' = SentBy(d, k)
  <2>1. \A j \in 1..k : delivered'[d][j] = delivered[d][j]
    BY <1>2
  <2>2. {j \in 1..k : delivered'[d][j].op \in Data}
            = {j \in 1..k : delivered[d][j].op \in Data}
    BY <2>1
  <2>3. QED
    BY <2>2 DEF SentBy
<1>4. LastSent(d) = Cardinality(S)
  BY DEF LastSent, SentBy
<1>5. LastSent(d)' = Cardinality({j \in 1..n + 1 : delivered'[d][j].op \in Data})
  BY <1>2 DEF LastSent, SentBy
<1> HIDE DEF n, log
<1>6. \A j : j \in 1..n + 1 <=> j \in 1..n \/ j = n + 1
  BY <1>2
<1>7. n + 1 \notin 1..n
  BY <1>2
<1>8. CASE m.op \notin Data
  <2>1. {j \in 1..n + 1 : delivered'[d][j].op \in Data} = S
    BY <1>2, <1>6, <1>8
  <2>2. QED
    BY <1>2, <1>3, <1>4, <1>5, <1>8, <2>1 DEF n
<1>9. CASE m.op \in Data
  <2>1. {j \in 1..n + 1 : delivered'[d][j].op \in Data} = S \cup {n + 1}
    BY <1>2, <1>6, <1>9
  <2>2. S \in SUBSET (1..n)
    OBVIOUS
  <2>3. Cardinality(S \cup {n + 1}) = Cardinality(S) + 1
    BY <1>2, <2>2, OneMore
  <2>4. LastSent(d)' = LastSent(d) + 1
    BY <1>4, <1>5, <2>1, <2>3
  <2>5. QED
    BY <1>2, <1>3, <1>9, <2>4 DEF n
<1>10. QED
  BY <1>8, <1>9

-----------------------------------------------------------------------------
(* Steps keep the capture ahead of what is written.                        *)

(* A record of a direction is appended to the capture.                     *)
Recorded(d) ==
    captured' = Append(captured, [dir |-> d, op |-> out[d].op,
                                  body |-> out[d].body])

LEMMA RecordIs ==
    ASSUME RelayTypes, NEW d \in Directions
    PROVE  [dir |-> d, op |-> out[d].op, body |-> out[d].body] \in Records
BY DEF RelayTypes, Messages, Records

(* What is captured stays captured, at its place.                          *)
LEMMA CapturesKept ==
    ASSUME RelayTypes, CaptureInv,
           \/ captured' = captured
           \/ \E e \in Directions : Recorded(e),
           NEW d, NEW m, NEW n, Captures(d, m, n)
    PROVE  \E j \in 1..Len(captured') :
              /\ captured'[j].dir = d /\ CapturedFrom(d, j)' = n
              /\ captured'[j].op = m.op /\ captured'[j].body = m.body
<1>1. CASE captured' = captured
  BY <1>1 DEF Captures, CapturedFrom
<1>2. CASE \E e \in Directions : Recorded(e)
  <2>1. PICK e \in Directions : Recorded(e)
    BY <1>2
  <2>2. /\ Len(captured) \in Nat /\ Len(captured') = Len(captured) + 1
        /\ \A j \in 1..Len(captured) :
              /\ captured'[j] = captured[j]
              /\ CapturedFrom(d, j)' = CapturedFrom(d, j)
    BY <2>1, RecordIs, CapturedNext DEF Recorded, CaptureInv
  <2>3. PICK j \in 1..Len(captured) :
           /\ captured[j].dir = d /\ CapturedFrom(d, j) = n
           /\ captured[j].op = m.op /\ captured[j].body = m.body
    BY DEF Captures
  <2>4. j \in 1..Len(captured')
    BY <2>2
  <2>5. /\ captured'[j].dir = d /\ CapturedFrom(d, j)' = n
        /\ captured'[j].op = m.op /\ captured'[j].body = m.body
    BY <2>2, <2>3
  <2>6. QED
    BY <2>4, <2>5
<1>3. QED
  BY <1>1, <1>2

(* What a relay wrote is captured, after a step in which it wrote nothing. *)
LEMMA SentKept ==
    ASSUME RelayTypes, CaptureInv, NEW d \in Directions, Ahead(d),
           \/ captured' = captured
           \/ \E e \in Directions : Recorded(e),
           delivered'[d] = delivered[d]
    PROVE  /\ LastSent(d)' = LastSent(d)
           /\ (\A i \in 1..Len(delivered[d]) :
                 delivered[d][i].op \in Data
                    => Captures(d, delivered[d][i], SentBy(d, i)))'
<1>1. LastSent(d)' = LastSent(d)
  BY DEF LastSent, SentBy
<1>2. ASSUME NEW i \in 1..Len(delivered'[d]), delivered'[d][i].op \in Data
      PROVE  Captures(d, delivered[d][i], SentBy(d, i))'
  <2>1. Captures(d, delivered[d][i], SentBy(d, i))
    BY <1>2 DEF Ahead
  <2>2. PICK j \in 1..Len(captured') :
           /\ captured'[j].dir = d
           /\ CapturedFrom(d, j)' = SentBy(d, i)
           /\ captured'[j].op = delivered[d][i].op
           /\ captured'[j].body = delivered[d][i].body
    BY <2>1, CapturesKept
  <2>3. SentBy(d, i)' = SentBy(d, i) /\ delivered'[d][i] = delivered[d][i]
    BY DEF SentBy
  <2>4. QED
    BY <2>2, <2>3 DEF Captures
<1>3. QED
  BY <1>1, <1>2

(* The other relay captures or does nothing, or neither does a thing.      *)
LEMMA OtherAhead ==
    ASSUME RelayTypes, CaptureInv, NEW d \in Directions, Ahead(d),
           \/ captured' = captured
           \/ \E e \in Directions \ {d} : Recorded(e),
           delivered'[d] = delivered[d], pc'[d] = pc[d], out'[d] = out[d]
    PROVE  Ahead(d)'
<1>1. LastCaptured(d)' = LastCaptured(d)
  <2>1. CASE captured' = captured
    BY <2>1 DEF LastCaptured, CapturedFrom
  <2>2. CASE \E e \in Directions \ {d} : Recorded(e)
    <3>1. PICK e \in Directions \ {d} : Recorded(e)
      BY <2>2
    <3>2. QED
      BY <3>1, RecordIs, CapturedNext DEF Recorded, CaptureInv
  <2>3. QED
    BY <2>1, <2>2
<1>2. /\ LastSent(d)' = LastSent(d)
      /\ (\A i \in 1..Len(delivered[d]) :
            delivered[d][i].op \in Data
               => Captures(d, delivered[d][i], SentBy(d, i)))'
  BY SentKept
<1>3. ASSUME pc[d] = "writing", out[d].op \in Data
      PROVE  Captures(d, out[d], LastSent(d) + 1)'
  <2>1. Captures(d, out[d], LastSent(d) + 1)
    BY <1>3 DEF Ahead
  <2>2. PICK j \in 1..Len(captured') :
           /\ captured'[j].dir = d
           /\ CapturedFrom(d, j)' = LastSent(d) + 1
           /\ captured'[j].op = out[d].op
           /\ captured'[j].body = out[d].body
    BY <2>1, CapturesKept
  <2>3. QED
    BY <1>2, <2>2 DEF Captures
<1>4. QED
  BY <1>1, <1>2, <1>3 DEF Ahead

-----------------------------------------------------------------------------
(* One step of the session or of a relay.                                  *)

(* A relay returns without writing, perhaps because of a refusal, and      *)
(* perhaps after what it refused was captured.                             *)
LEMMA ReturnStep ==
    ASSUME RelayInv, NEW d \in Directions, pc[d] # "done",
           NEW err \in Errors, Return(d, err),
           UNCHANGED <<session, buffer, out, delivered>>,
           \/ refused' = refused
           \/ refused' = refused \cup {d} /\ err = "failed",
           remaining' \in 0..CaptureLimit, truncated' \in BOOLEAN,
           \/ captured' = captured /\ truncated' \in {truncated, TRUE}
           \/ Recorded(d) /\ truncated' = truncated
    PROVE  RelayInv'
<1>1. RelayTypes /\ ResultsInv /\ ReportInv /\ MediatedInv /\ CaptureInv
  BY DEF RelayInv
<1>2. ResultsInv' /\ pc' = [pc EXCEPT ![d] = "done"]
  BY <1>1, Returned
<1>3. pc'[d] = "done" /\ \A e \in Directions \ {d} : pc'[e] = pc[e]
  BY <1>1, <1>2 DEF RelayTypes
<1>4. RelayTypes'
  <2>1. pc' \in [Directions -> {"reading", "inspecting", "writing", "done"}]
    BY <1>1, <1>2 DEF RelayTypes
  <2>2. refused' \subseteq Directions
    BY <1>1 DEF RelayTypes
  <2>3. QED
    BY <1>1, <2>1, <2>2 DEF RelayTypes, session, buffer
<1>5. ReportInv'
  BY <1>1, ReturnReported DEF session
<1>6. MediatedInv'
  BY <1>1, <1>3 DEF MediatedInv
<1>7. CaptureInv'
  <2>1. captured' \in Seq(Records)
    <3>1. captured \in Seq(Records)
      BY <1>1 DEF CaptureInv
    <3>2. CASE captured' = captured
      BY <3>1, <3>2
    <3>3. CASE Recorded(d)
      BY <1>1, <3>1, <3>3, RecordIs, AppendProperties DEF Recorded
    <3>4. QED
      BY <3>2, <3>3
  <2>2. ASSUME ~truncated', NEW e \in Directions PROVE Ahead(e)'
    <3>1. Ahead(e)
      BY <1>1, <2>2 DEF CaptureInv
    <3>2. CASE e = d
      <4>1. pc'[e] = "done"
        BY <1>3, <3>2
      <4>2. (\A i \in 1..Len(delivered[e]) :
               delivered[e][i].op \in Data
                  => Captures(e, delivered[e][i], SentBy(e, i)))'
        BY <1>1, <3>1, SentKept
      <4>3. QED
        BY <4>1, <4>2 DEF Ahead
    <3>3. CASE e # d
      <4>1. captured' = captured \/ \E c \in Directions \ {e} : Recorded(c)
        BY <3>3
      <4>2. pc'[e] = pc[e]
        BY <1>3, <3>3
      <4>3. QED
        BY <1>1, <3>1, <4>1, <4>2, OtherAhead
    <3>4. QED
      BY <3>2, <3>3
  <2>3. QED
    BY <2>1, <2>2 DEF CaptureInv
<1>8. QED
  BY <1>2, <1>4, <1>5, <1>6, <1>7 DEF RelayInv

(* A relay reads a frame.                                                  *)
LEMMA ReadStep ==
    ASSUME RelayInv, NEW d \in Directions, Read(d)
    PROVE  RelayInv'
<1>1. RelayTypes /\ ResultsInv /\ ReportInv /\ MediatedInv /\ CaptureInv
  BY DEF RelayInv
<1>2. pc[d] = "reading" /\ UNCHANGED <<session, capture, delivered>>
  BY <1>1, ReadIs
<1>3. remaining' \in 0..CaptureLimit /\ truncated' \in BOOLEAN
  BY <1>1, <1>2 DEF RelayTypes, capture
<1>4. CASE /\ Return(d, "failed") /\ refused' = refused \cup {d}
           /\ UNCHANGED <<buffer, out>>
  <2>1. "failed" \in Errors
    BY DEF Errors
  <2>2. QED
    BY <1>2, <1>3, <1>4, <2>1, ReturnStep DEF capture
<1>5. CASE /\ UNCHANGED <<results, refused>>
           /\ message' \in [Directions -> Messages]
           /\ fragmented' \in [Directions -> BOOLEAN]
           /\ \/ UNCHANGED <<pc, out>>
              \/ /\ pc' = [pc EXCEPT ![d] = "inspecting"]
                 /\ \E m \in Messages :
                       /\ m.mediated = Sensitive(m.body)
                       /\ out' = [out EXCEPT ![d] = m]
  <2>1. /\ pc' \in [Directions -> {"reading", "inspecting", "writing", "done"}]
        /\ out' \in [Directions -> Messages]
        /\ \A e \in Directions \ {d} : pc'[e] = pc[e] /\ out'[e] = out[e]
        /\ \/ pc'[d] = "reading" /\ out'[d] = out[d]
           \/ /\ pc'[d] = "inspecting"
              /\ out'[d].mediated = Sensitive(out'[d].body)
    <3>1. CASE UNCHANGED <<pc, out>>
      BY <1>1, <1>2, <3>1 DEF RelayTypes
    <3>2. CASE /\ pc' = [pc EXCEPT ![d] = "inspecting"]
               /\ \E m \in Messages :
                     /\ m.mediated = Sensitive(m.body)
                     /\ out' = [out EXCEPT ![d] = m]
      BY <1>1, <3>2 DEF RelayTypes
    <3>3. QED
      BY <1>5, <3>1, <3>2
  <2>2. RelayTypes'
    BY <1>1, <1>2, <1>3, <1>5, <2>1 DEF RelayTypes, session
  <2>3. ResultsInv'
    BY <1>1, <1>2, <1>5, <2>1, NoneReturned
  <2>4. ReportInv'
    BY <1>1, <1>2, <1>5 DEF ReportInv, Judged, session
  <2>5. MediatedInv'
    BY <1>1, <1>2, <2>1 DEF MediatedInv
  <2>6. CaptureInv'
    <3>1. captured' \in Seq(Records) /\ captured' = captured
      BY <1>1, <1>2 DEF CaptureInv, capture
    <3>2. ASSUME ~truncated', NEW e \in Directions PROVE Ahead(e)'
      <4>1. Ahead(e)
        BY <1>1, <1>2, <3>2 DEF CaptureInv, capture
      <4>2. CASE e = d
        <5>1. LastCaptured(e)' = LastCaptured(e)
          BY <3>1 DEF LastCaptured, CapturedFrom
        <5>2. /\ LastSent(e)' = LastSent(e)
              /\ (\A i \in 1..Len(delivered[e]) :
                    delivered[e][i].op \in Data
                       => Captures(e, delivered[e][i], SentBy(e, i)))'
          BY <1>1, <1>2, <3>1, <4>1, SentKept
        <5>3. LastCaptured(e) = LastSent(e)
          BY <1>2, <4>1, <4>2 DEF Ahead
        <5>4. pc'[e] # "writing"
          BY <2>1, <4>2
        <5>5. QED
          BY <5>1, <5>2, <5>3, <5>4 DEF Ahead
      <4>3. CASE e # d
        BY <1>1, <1>2, <2>1, <3>1, <4>1, <4>3, OtherAhead
      <4>4. QED
        BY <4>2, <4>3
    <3>3. QED
      BY <3>1, <3>2 DEF CaptureInv
  <2>7. QED
    BY <2>2, <2>3, <2>4, <2>5, <2>6 DEF RelayInv
<1>6. QED
  BY <1>1, <1>4, <1>5, ReadIs

(* A message is refused.                                                   *)
LEMMA RefuseStep ==
    ASSUME RelayInv, NEW d \in Directions, Refuse(d)
    PROVE  RelayInv'
<1>1. RelayTypes
  BY DEF RelayInv
<1>2. /\ pc[d] # "done" /\ Return(d, "failed") /\ refused' = refused \cup {d}
      /\ UNCHANGED <<session, buffer, out, delivered>>
  BY DEF Refuse
<1>3. "failed" \in Errors
  BY DEF Errors
<1>4. UNCHANGED capture \/ Capture(d)
  BY DEF Refuse
<1>5. /\ remaining' \in 0..CaptureLimit /\ truncated' \in BOOLEAN
      /\ \/ captured' = captured /\ truncated' \in {truncated, TRUE}
         \/ Recorded(d) /\ truncated' = truncated
  <2>1. CASE UNCHANGED capture
    BY <1>1, <2>1 DEF RelayTypes, capture
  <2>2. CASE Capture(d)
    BY <1>1, <2>2, CaptureIs DEF Recorded
  <2>3. QED
    BY <1>4, <2>1, <2>2
<1>6. QED
  BY <1>2, <1>3, <1>5, ReturnStep

(* A message is let through, and captured if it is data: what it was is    *)
(* what will be written, and it is no message that had to be refused.      *)
LEMMA MediateIs ==
    ASSUME RelayTypes, NEW d \in Directions, Mediate(d)
    PROVE  /\ pc[d] = "inspecting" /\ pc' = [pc EXCEPT ![d] = "writing"]
           /\ UNCHANGED <<session, buffer, results, delivered, refused>>
           /\ out' \in [Directions -> Messages]
           /\ \A e \in Directions \ {d} : out'[e] = out[e]
           /\ out'[d].op = out[d].op /\ out'[d].body = out[d].body
           /\ d = "down" => out'[d].mediated = out[d].mediated
<1>1. /\ pc[d] = "inspecting" /\ pc' = [pc EXCEPT ![d] = "writing"]
      /\ UNCHANGED <<session, buffer, results, delivered, refused>>
  BY DEF Mediate
<1>2. \/ out' = out
      \/ d = "up" /\ out' = [out EXCEPT ![d].mediated = FALSE]
  BY DEF Mediate
<1>3. out \in [Directions -> Messages] /\ out[d] \in Messages
  BY DEF RelayTypes
<1>4. CASE out' = out
  BY <1>1, <1>3, <1>4
<1>5. CASE d = "up" /\ out' = [out EXCEPT ![d].mediated = FALSE]
  <2> DEFINE m == [out[d] EXCEPT !.mediated = FALSE]
  <2>1. m \in Messages /\ m.op = out[d].op /\ m.body = out[d].body
    BY <1>3 DEF Messages
  <2>2. out' = [out EXCEPT ![d] = m]
    BY <1>5
  <2> HIDE DEF m
  <2>3. QED
    BY <1>1, <1>3, <1>5, <2>1, <2>2
<1>6. QED
  BY <1>2, <1>4, <1>5

LEMMA MediateStep ==
    ASSUME RelayInv, NEW d \in Directions, Mediate(d)
    PROVE  RelayInv'
<1>1. RelayTypes /\ ResultsInv /\ ReportInv /\ MediatedInv /\ CaptureInv
  BY DEF RelayInv
<1>2. /\ pc[d] = "inspecting" /\ pc' = [pc EXCEPT ![d] = "writing"]
      /\ UNCHANGED <<session, buffer, results, delivered, refused>>
      /\ out' \in [Directions -> Messages]
      /\ \A e \in Directions \ {d} : out'[e] = out[e]
      /\ out'[d].op = out[d].op /\ out'[d].body = out[d].body
      /\ d = "down" => out'[d].mediated = out[d].mediated
  BY <1>1, MediateIs
<1>3. /\ pc' \in [Directions -> {"reading", "inspecting", "writing", "done"}]
      /\ pc'[d] = "writing" /\ \A e \in Directions \ {d} : pc'[e] = pc[e]
  BY <1>1, <1>2 DEF RelayTypes
<1>4. /\ remaining' \in 0..CaptureLimit /\ truncated' \in BOOLEAN
      /\ \/ truncated' = TRUE /\ captured' = captured
         \/ truncated' = truncated /\ captured' = captured /\ out[d].op \notin Data
         \/ truncated' = truncated /\ Recorded(d) /\ out[d].op \in Data
  <2>1. CASE out[d].op \in Data
    <3>1. Capture(d)
      BY <2>1 DEF Mediate
    <3>2. QED
      BY <1>1, <2>1, <3>1, CaptureIs DEF Recorded
  <2>2. CASE out[d].op \notin Data
    BY <1>1, <2>2 DEF Mediate, capture, RelayTypes
  <2>3. QED
    BY <2>1, <2>2
<1>5. RelayTypes'
  BY <1>1, <1>2, <1>3, <1>4 DEF RelayTypes, session, buffer
<1>6. ResultsInv'
  BY <1>1, <1>2, <1>3, NoneReturned
<1>7. ReportInv'
  BY <1>1, <1>2 DEF ReportInv, Judged, session
<1>8. MediatedInv'
  <2>1. Proper(d, out[d])'
    <3>1. out[d].mediated = Sensitive(out[d].body)
      BY <1>1, <1>2 DEF MediatedInv
    <3>2. ~MustRefuse(d)
      BY DEF Mediate
    <3>3. out[d].op \in Data \cup Ctl
      BY <1>1 DEF RelayTypes, Messages
    <3>4. d \in {"up", "down"}
      BY DEF Directions
    <3>5. ASSUME Sensitive(out[d].body)
          PROVE  IF d = "down" THEN out[d].mediated /\ out[d].op # "binary"
                               ELSE out[d].op = "text"
      BY <3>1, <3>2, <3>3, <3>4, <3>5 DEF MustRefuse, Data
    <3>6. QED
      BY <1>2, <3>5 DEF Proper, Sensitive
  <2>2. ASSUME NEW e \in Directions
        PROVE  /\ pc'[e] = "inspecting"
                    => out'[e].mediated = Sensitive(out[e].body)'
               /\ pc'[e] = "writing" => Proper(e, out[e])'
    <3>1. CASE e = d
      BY <1>3, <2>1, <3>1
    <3>2. CASE e # d
      <4>1. pc'[e] = pc[e] /\ out'[e] = out[e]
        BY <1>2, <1>3, <3>2
      <4>2. /\ pc[e] = "inspecting" => out[e].mediated = Sensitive(out[e].body)
            /\ pc[e] = "writing" => Proper(e, out[e])
        BY <1>1 DEF MediatedInv
      <4>3. QED
        BY <4>1, <4>2 DEF Proper, Sensitive
    <3>3. QED
      BY <3>1, <3>2
  <2>3. (\A e \in Directions : \A i \in 1..Len(delivered[e]) :
           Proper(e, delivered[e][i]))'
    BY <1>1, <1>2 DEF MediatedInv, Proper, Sensitive
  <2>4. QED
    BY <2>2, <2>3 DEF MediatedInv
<1>9. CaptureInv'
  <2>1. captured \in Seq(Records) /\ captured' \in Seq(Records)
    <3>1. captured \in Seq(Records)
      BY <1>1 DEF CaptureInv
    <3>2. CASE captured' = captured
      BY <3>1, <3>2
    <3>3. CASE Recorded(d)
      BY <1>1, <3>1, <3>3, RecordIs, AppendProperties DEF Recorded
    <3>4. QED
      BY <1>4, <3>1, <3>2, <3>3
  <2>2. ASSUME ~truncated', NEW e \in Directions PROVE Ahead(e)'
    <3>1. /\ \/ captured' = captured /\ out[d].op \notin Data
             \/ Recorded(d) /\ out[d].op \in Data
          /\ ~truncated
      BY <1>4, <2>2
    <3>2. Ahead(e)
      BY <1>1, <3>1 DEF CaptureInv
    <3>3. CASE e = d
      <4>1. /\ LastSent(e)' = LastSent(e)
            /\ (\A i \in 1..Len(delivered[e]) :
                  delivered[e][i].op \in Data
                     => Captures(e, delivered[e][i], SentBy(e, i)))'
        BY <1>1, <1>2, <3>1, <3>2, SentKept
      <4>2. LastCaptured(e) = LastSent(e)
        BY <1>2, <3>2, <3>3 DEF Ahead
      <4>3. CASE captured' = captured /\ out[d].op \notin Data
        <5>1. LastCaptured(e)' = LastCaptured(e)
          BY <4>3 DEF LastCaptured, CapturedFrom
        <5>2. QED
          BY <1>2, <1>3, <3>3, <4>1, <4>2, <4>3, <5>1 DEF Ahead
      <4>4. CASE Recorded(d) /\ out[d].op \in Data
        <5> DEFINE r == [dir |-> d, op |-> out[d].op, body |-> out[d].body]
        <5>1. r \in Records /\ captured' = Append(captured, r)
          BY <1>1, <4>4, RecordIs DEF Recorded
        <5>2. /\ r.dir = e /\ r.op = out'[e].op /\ r.body = out'[e].body
          BY <1>2, <3>3
        <5> HIDE DEF r
        <5>3. /\ Len(captured) \in Nat /\ Len(captured') = Len(captured) + 1
              /\ captured'[Len(captured) + 1] = r
              /\ LastCaptured(e)' = LastCaptured(e) + 1
          BY <2>1, <5>1, <5>2, CapturedNext
        <5>4. PICK k \in 1..Len(captured') : k = Len(captured')
          BY <5>3
        <5>5. CapturedFrom(e, k)' = LastSent(e)' + 1
          BY <4>1, <4>2, <5>3, <5>4 DEF LastCaptured
        <5>6. Captures(e, out[e], LastSent(e) + 1)'
          <6>1. /\ captured'[k].dir = e /\ captured'[k].op = out'[e].op
                /\ captured'[k].body = out'[e].body
            BY <5>2, <5>3, <5>4
          <6>2. QED
            BY <5>5, <6>1 DEF Captures
        <5>7. QED
          BY <1>2, <1>3, <3>3, <4>1, <4>2, <4>4, <5>3, <5>6 DEF Ahead
      <4>5. QED
        BY <3>1, <4>3, <4>4
    <3>4. CASE e # d
      <4>1. captured' = captured \/ \E c \in Directions \ {e} : Recorded(c)
        BY <3>1, <3>4
      <4>2. pc'[e] = pc[e] /\ out'[e] = out[e]
        BY <1>2, <1>3, <3>4
      <4>3. QED
        BY <1>1, <1>2, <3>2, <4>1, <4>2, OtherAhead
    <3>5. QED
      BY <3>3, <3>4
  <2>3. QED
    BY <2>1, <2>2 DEF CaptureInv
<1>10. QED
  BY <1>5, <1>6, <1>7, <1>8, <1>9 DEF RelayInv

(* A message is written; the relay that wrote the end of the session       *)
(* returns.                                                                *)
LEMMA WriteStep ==
    ASSUME RelayInv, NEW d \in Directions, Write(d)
    PROVE  RelayInv'
<1>1. RelayTypes /\ ResultsInv /\ ReportInv /\ MediatedInv /\ CaptureInv
  BY DEF RelayInv
<1>2. /\ pc[d] = "writing"
      /\ delivered' = [delivered EXCEPT ![d] = Append(@, out[d])]
      /\ \/ Return(d, "benign")
         \/ pc' = [pc EXCEPT ![d] = "reading"] /\ results' = results
      /\ UNCHANGED <<session, buffer, out, capture, received, refused>>
  BY DEF Write
<1>3. /\ delivered \in [Directions -> Seq(Messages)] /\ out[d] \in Messages
      /\ delivered[d] \in Seq(Messages)
  BY <1>1 DEF RelayTypes
<1>4. /\ pc' \in [Directions -> {"reading", "inspecting", "writing", "done"}]
      /\ pc'[d] \in {"reading", "done"}
      /\ \A e \in Directions \ {d} : pc'[e] = pc[e]
  BY <1>1, <1>2 DEF RelayTypes, Return
<1>5. /\ delivered' \in [Directions -> Seq(Messages)]
      /\ \A e \in Directions \ {d} : delivered'[e] = delivered[e]
  <2>1. Append(delivered[d], out[d]) \in Seq(Messages)
    BY <1>3, AppendProperties
  <2>2. QED
    BY <1>2, <1>3, <2>1
<1>6. /\ Len(delivered[d]) \in Nat
      /\ Len(delivered'[d]) = Len(delivered[d]) + 1
      /\ delivered'[d][Len(delivered[d]) + 1] = out[d]
      /\ \A i \in 1..Len(delivered[d]) :
            /\ delivered'[d][i] = delivered[d][i]
            /\ SentBy(d, i)' = SentBy(d, i)
      /\ out[d].op \notin Data => LastSent(d)' = LastSent(d)
      /\ out[d].op \in Data => LastSent(d)' = LastSent(d) + 1
  BY <1>2, <1>3, SentNext
<1>7. ASSUME NEW i \in 1..Len(delivered'[d])
      PROVE  i \in 1..Len(delivered[d]) \/ i = Len(delivered[d]) + 1
  BY <1>6
<1>8. RelayTypes'
  BY <1>1, <1>2, <1>4, <1>5 DEF RelayTypes, session, buffer, capture
<1>9. ResultsInv' /\ ReportInv'
  <2>1. "benign" \in Errors /\ pc[d] # "done"
    BY <1>2 DEF Errors
  <2>2. CASE Return(d, "benign")
    BY <1>1, <1>2, <2>1, <2>2, Returned, ReturnReported DEF session
  <2>3. CASE pc' = [pc EXCEPT ![d] = "reading"] /\ results' = results
    <3>1. \A e \in Directions : pc'[e] = "done" <=> pc[e] = "done"
      BY <1>1, <2>1, <2>3 DEF RelayTypes
    <3>2. ResultsInv'
      BY <1>1, <2>3, <3>1, NoneReturned
    <3>3. ReportInv'
      BY <1>1, <1>2, <2>3 DEF ReportInv, Judged, session
    <3>4. QED
      BY <3>2, <3>3
  <2>4. QED
    BY <1>2, <2>2, <2>3
<1>10. MediatedInv'
  <2>1. ASSUME NEW e \in Directions
        PROVE  /\ pc'[e] = "inspecting"
                    => out'[e].mediated = Sensitive(out[e].body)'
               /\ pc'[e] = "writing" => Proper(e, out[e])'
    <3>1. CASE e = d
      BY <1>4, <3>1
    <3>2. CASE e # d
      <4>1. pc'[e] = pc[e] /\ out' = out
        BY <1>2, <1>4, <3>2
      <4>2. /\ pc[e] = "inspecting" => out[e].mediated = Sensitive(out[e].body)
            /\ pc[e] = "writing" => Proper(e, out[e])
        BY <1>1 DEF MediatedInv
      <4>3. QED
        BY <4>1, <4>2 DEF Proper, Sensitive
    <3>3. QED
      BY <3>1, <3>2
  <2>2. ASSUME NEW e \in Directions, NEW i \in 1..Len(delivered'[e])
        PROVE  Proper(e, delivered'[e][i])
    <3>1. CASE e = d
      <4>1. Proper(d, out[d])
        BY <1>1, <1>2 DEF MediatedInv
      <4>2. CASE i = Len(delivered[d]) + 1
        BY <1>6, <3>1, <4>1, <4>2
      <4>3. CASE i \in 1..Len(delivered[d])
        BY <1>1, <1>6, <3>1, <4>3 DEF MediatedInv
      <4>4. QED
        BY <1>7, <3>1, <4>2, <4>3
    <3>2. CASE e # d
      BY <1>1, <1>5, <3>2 DEF MediatedInv
    <3>3. QED
      BY <3>1, <3>2
  <2>3. QED
    BY <2>1, <2>2 DEF MediatedInv, Proper
<1>11. CaptureInv'
  <2>1. captured' \in Seq(Records) /\ captured' = captured
        /\ truncated' = truncated
    BY <1>1, <1>2 DEF CaptureInv, capture
  <2>2. ASSUME ~truncated', NEW e \in Directions PROVE Ahead(e)'
    <3>1. Ahead(e)
      BY <1>1, <2>1, <2>2 DEF CaptureInv
    <3>2. CASE e = d
      <4>1. LastCaptured(d)' = LastCaptured(d)
        BY <2>1 DEF LastCaptured, CapturedFrom
      <4>2. LastCaptured(d)' = LastSent(d)'
        BY <1>2, <1>6, <3>1, <3>2, <4>1 DEF Ahead
      <4>3. ASSUME NEW i \in 1..Len(delivered'[d]),
                   delivered'[d][i].op \in Data
            PROVE  Captures(d, delivered[d][i], SentBy(d, i))'
        <5>1. CASE i \in 1..Len(delivered[d])
          <6>1. Captures(d, delivered[d][i], SentBy(d, i))
            BY <1>6, <3>1, <3>2, <4>3, <5>1 DEF Ahead
          <6>2. delivered'[d][i] = delivered[d][i] /\ SentBy(d, i)' = SentBy(d, i)
            BY <1>6, <5>1
          <6>3. QED
            BY <2>1, <6>1, <6>2 DEF Captures, CapturedFrom
        <5>2. CASE i = Len(delivered[d]) + 1
          <6>1. i = Len(delivered'[d]) /\ delivered'[d][i] = out[d]
            BY <1>6, <5>2
          <6>2. SentBy(d, i)' = LastSent(d) + 1
            BY <1>6, <4>3, <6>1 DEF LastSent
          <6>3. Captures(d, out[d], LastSent(d) + 1)
            BY <1>2, <3>1, <3>2, <4>3, <6>1 DEF Ahead
          <6>4. QED
            BY <2>1, <6>1, <6>2, <6>3 DEF Captures, CapturedFrom
        <5>3. QED
          BY <1>7, <5>1, <5>2
      <4>4. pc'[d] # "writing"
        BY <1>4
      <4>5. QED
        BY <3>2, <4>2, <4>3, <4>4 DEF Ahead
    <3>3. CASE e # d
      BY <1>1, <1>2, <1>4, <1>5, <2>1, <3>1, <3>3, OtherAhead
    <3>4. QED
      BY <3>2, <3>3
  <2>3. QED
    BY <2>1, <2>2 DEF CaptureInv
<1>12. QED
  BY <1>8, <1>9, <1>10, <1>11 DEF RelayInv

(* proxyWebSocket, closeOnContext or the clock takes a step.               *)
LEMMA SessionStep ==
    ASSUME RelayInv, Upgrade \/ First \/ Second \/ Expire \/ CloseOnContext
    PROVE  RelayInv'
<1>1. RelayTypes /\ ResultsInv /\ ReportInv /\ MediatedInv /\ CaptureInv
  BY DEF RelayInv
<1>2. UNCHANGED <<pc, buffer, out, results, capture, received, delivered,
                  refused>>
  BY DEF Upgrade, First, Second, Expire, CloseOnContext
<1>3. RelayTypes'
  <2>1. stage' \in {"handshake", "rejected", "relaying", "closing", "over"}
    BY <1>1 DEF RelayTypes, Upgrade, First, Second, Expire, CloseOnContext
  <2>2. expired' \in BOOLEAN /\ outcome' \in {"none", "pass", "fail"}
    BY <1>1 DEF RelayTypes, Upgrade, First, Second, Expire, CloseOnContext
  <2>3. closed' \subseteq Conns
    BY <1>1 DEF RelayTypes, Upgrade, First, Second, Expire, CloseOnContext,
                ClosedByFirst, Conns
  <2>4. QED
    BY <1>1, <1>2, <2>1, <2>2, <2>3 DEF RelayTypes, buffer, capture
<1>4. ResultsInv'
  BY <1>1, <1>2, NoneReturned
<1>5. ReportInv'
  <2>1. \A d \in refused' : \E i \in 1..Len(results') :
           results'[i].dir = d /\ results'[i].err = "failed"
    BY <1>1, <1>2 DEF ReportInv
  <2>2. CASE stage' = stage /\ outcome' = outcome
    BY <1>1, <1>2, <2>1, <2>2 DEF ReportInv, Judged
  <2>3. CASE Upgrade \/ First
    BY <2>1, <2>3 DEF ReportInv, Upgrade, First
  <2>4. CASE Second
    <3>1. /\ Len(results) = 2
          /\ outcome' = IF \E r \in Judged : r.err = "failed"
                        THEN "fail" ELSE "pass"
      BY <2>4 DEF Second
    <3>2. Judged' = Judged
      BY <1>2 DEF Judged
    <3>3. QED
      BY <1>2, <2>1, <3>1, <3>2 DEF ReportInv
  <2>5. QED
    BY <2>2, <2>3, <2>4 DEF Expire, CloseOnContext
<1>6. MediatedInv'
  BY <1>1, <1>2 DEF MediatedInv
<1>7. CaptureInv'
  <2>1. captured' = captured /\ truncated' = truncated
    BY <1>2 DEF capture
  <2>2. ASSUME ~truncated', NEW d \in Directions PROVE Ahead(d)'
    <3>1. Ahead(d)
      BY <1>1, <2>1, <2>2 DEF CaptureInv
    <3>2. QED
      BY <1>1, <1>2, <2>1, <3>1, OtherAhead
  <2>3. QED
    BY <1>1, <2>1, <2>2 DEF CaptureInv
<1>8. QED
  BY <1>3, <1>4, <1>5, <1>6, <1>7 DEF RelayInv

LEMMA RelayStep == RelayInv /\ [Next]_vars => RelayInv'
<1> SUFFICES ASSUME RelayInv, [Next]_vars PROVE RelayInv'
  OBVIOUS
<1>1. CASE UNCHANGED vars
  <2>1. UNCHANGED <<session, pc, buffer, out, results, capture, delivered,
                    refused>>
    BY <1>1 DEF vars
  <2>2. RelayTypes' = RelayTypes
    BY <2>1 DEF RelayTypes, session, buffer, capture
  <2>3. ResultsInv' /\ ReportInv'
    BY <2>1 DEF RelayInv, ResultsInv, ReportInv, Judged, session
  <2>4. MediatedInv'
    BY <2>1 DEF RelayInv, MediatedInv
  <2>5. CaptureInv'
    <3>1. captured' = captured /\ truncated' = truncated
      BY <2>1 DEF capture
    <3>2. ASSUME ~truncated', NEW d \in Directions PROVE Ahead(d)'
      BY <2>1, <3>1, <3>2, OtherAhead DEF RelayInv, CaptureInv
    <3>3. QED
      BY <3>1, <3>2 DEF RelayInv, CaptureInv
  <2>6. QED
    BY <2>2, <2>3, <2>4, <2>5 DEF RelayInv
<1>2. CASE Upgrade \/ First \/ Second \/ Expire \/ CloseOnContext
  BY <1>2, SessionStep
<1>3. ASSUME NEW d \in Directions, Read(d) PROVE RelayInv'
  BY <1>3, ReadStep
<1>4. ASSUME NEW d \in Directions, Refuse(d) PROVE RelayInv'
  BY <1>4, RefuseStep
<1>5. ASSUME NEW d \in Directions, Mediate(d) PROVE RelayInv'
  BY <1>5, MediateStep
<1>6. ASSUME NEW d \in Directions, Write(d) PROVE RelayInv'
  BY <1>6, WriteStep
<1>7. ASSUME NEW d \in Directions,
             ReadFails(d) \/ Expired(d) \/ WriteFails(d)
      PROVE  RelayInv'
  <2>1. PICK err \in Errors : Return(d, err)
    BY <1>7 DEF ReadFails, Expired, WriteFails, Errors
  <2>2. /\ pc[d] # "done"
        /\ UNCHANGED <<session, buffer, out, capture, delivered, refused>>
    BY <1>7 DEF ReadFails, Expired, WriteFails, Reading
  <2>3. remaining \in 0..CaptureLimit /\ truncated \in BOOLEAN
    BY DEF RelayInv, RelayTypes
  <2>4. QED
    BY <2>1, <2>2, <2>3, ReturnStep DEF capture
<1>8. QED
  BY <1>1, <1>2, <1>3, <1>4, <1>5, <1>6, <1>7 DEF Next

-----------------------------------------------------------------------------
(* Messages in a log of frames.                                            *)

LEMMA PartIn ==
    ASSUME NEW log, NEW first, NEW last, NEW p
    PROVE  p \in PartsOf(log, first, last) <=>
               \E i \in first..last : /\ log[i].op \notin Ctl
                                      /\ p \in {i} \X (1..Len(log[i].payload))
BY DEF PartsOf

LEMMA PartsFinite ==
    ASSUME NEW log \in Seq(Frames), NEW first \in Nat \ {0}, NEW last \in Nat,
           last <= Len(log)
    PROVE  IsFiniteSet(PartsOf(log, first, last))
<1> DEFINE Of(i) == {i} \X (1..Len(log[i].payload))
           S == {j \in first..last : log[j].op \notin Ctl}
           T == {Of(i) : i \in S}
           g == [i \in S |-> Of(i)]
<1>1. IsFiniteSet(S)
  <2>1. first \in Int /\ last \in Int
    OBVIOUS
  <2>2. IsFiniteSet(first..last)
    BY <2>1, FS_Interval
  <2>3. QED
    BY <2>2, FS_Subset
<1>2. g \in Surjection(S, T)
  BY DEF Surjection
<1>3. IsFiniteSet(T)
  BY <1>1, <1>2, FS_Surjection DEF ExistsSurjection
<1>4. ASSUME NEW i \in S PROVE IsFiniteSet(Of(i))
  <2>1. log[i] \in Frames
    BY ElementOfSeq, LenProperties
  <2>2. Len(log[i].payload) \in Nat
    BY <2>1, FrameIs
  <2>3. IsFiniteSet(1..Len(log[i].payload)) /\ IsFiniteSet({i})
    <3>1. 1 \in Int /\ Len(log[i].payload) \in Int
      BY <2>2
    <3>2. QED
      BY <3>1, FS_Interval, FS_Singleton
  <2>4. QED
    BY <2>3, FS_Product
<1>5. IsFiniteSet(UNION T)
  BY <1>3, <1>4, FS_UNION
<1>6. QED
  BY <1>5 DEF PartsOf

(* A frame is put behind a log.                                            *)
Grown(log, f, new) ==
    log \in Seq(Frames) /\ f \in Frames /\ new = Append(log, f)

LEMMA LogNext ==
    ASSUME NEW log, NEW f, NEW new, Grown(log, f, new)
    PROVE  /\ log \in Seq(Frames) /\ f \in Frames /\ new \in Seq(Frames)
           /\ Len(log) \in Nat /\ Len(new) = Len(log) + 1
           /\ new[Len(log) + 1] = f
           /\ \A i \in 1..Len(log) : new[i] = log[i]
BY AppendProperties, LenProperties DEF Grown

(* Another frame changes nothing before it, and adds no parts if it is a   *)
(* control frame.                                                          *)
LEMMA PartsNext ==
    ASSUME NEW log, NEW f, NEW new, Grown(log, f, new), NEW first \in Nat \ {0}
    PROVE  /\ \A k \in 0..Len(log) :
                 PartsOf(new, first, k) = PartsOf(log, first, k)
           /\ f.op \in Ctl => PartsOf(new, first, Len(new))
                                = PartsOf(log, first, Len(log))
<1> DEFINE n == Len(log)
<1>1. /\ n \in Nat /\ Len(new) = n + 1 /\ new[n + 1] = f
      /\ \A i \in 1..n : new[i] = log[i]
  BY LogNext
<1> HIDE DEF n
<1>2. ASSUME NEW k \in 0..n
      PROVE  PartsOf(new, first, k) = PartsOf(log, first, k)
  <2>1. \A i \in first..k : new[i] = log[i]
    BY <1>1
  <2>2. ASSUME NEW p
        PROVE  p \in PartsOf(new, first, k) <=> p \in PartsOf(log, first, k)
    <3>1. p \in PartsOf(new, first, k) <=>
              \E i \in first..k : /\ new[i].op \notin Ctl
                                  /\ p \in {i} \X (1..Len(new[i].payload))
      BY PartIn
    <3>2. p \in PartsOf(log, first, k) <=>
              \E i \in first..k : /\ log[i].op \notin Ctl
                                  /\ p \in {i} \X (1..Len(log[i].payload))
      BY PartIn
    <3>3. QED
      BY <2>1, <3>1, <3>2, Zenon
  <2>3. QED
    BY <2>2
<1>3. ASSUME f.op \in Ctl
      PROVE  PartsOf(new, first, n + 1) = PartsOf(log, first, n)
  <2>1. \A i \in first..n + 1 : i \in first..n \/ i = n + 1
    BY <1>1
  <2>2. \A i \in first..n : i \in first..n + 1 /\ new[i] = log[i]
    BY <1>1
  <2>3. ASSUME NEW p
        PROVE  p \in PartsOf(new, first, n + 1) <=> p \in PartsOf(log, first, n)
    <3>1. p \in PartsOf(log, first, n) <=>
              \E i \in first..n : /\ log[i].op \notin Ctl
                                  /\ p \in {i} \X (1..Len(log[i].payload))
      BY PartIn
    <3>2. p \in PartsOf(new, first, n + 1) <=>
              \E i \in first..n + 1 : /\ new[i].op \notin Ctl
                                      /\ p \in {i} \X (1..Len(new[i].payload))
      BY PartIn
    <3>3. QED
      BY <1>1, <1>3, <2>1, <2>2, <3>1, <3>2, Zenon
  <2>4. QED
    BY <2>3
<1>4. QED
  BY <1>1, <1>2, <1>3 DEF n

(* What the first frames of a log come to is not changed by another.       *)
LEMMA JoinsKept ==
    ASSUME NEW log, NEW f, NEW new, Grown(log, f, new),
           NEW k \in 1..Len(log), NEW first \in 1..k,
           NEW body, Joins(log, first, k, body)
    PROVE  Joins(new, first, k, body)
<1>1. /\ Len(log) \in Nat
      /\ \A i \in 1..Len(log) : new[i] = log[i]
      /\ \A j \in 0..Len(log) : PartsOf(new, first, j) = PartsOf(log, first, j)
  <2>1. Len(log) \in Nat /\ \A i \in 1..Len(log) : new[i] = log[i]
    BY LogNext
  <2>2. first \in Nat \ {0}
    BY <2>1
  <2>3. QED
    BY <2>1, <2>2, PartsNext
<1>2. PartsOf(new, first, k) = PartsOf(log, first, k)
  BY <1>1
<1>3. ASSUME NEW p \in PartsOf(log, first, k)
      PROVE  body[Cardinality(PartsOf(new, first, p[1] - 1)) + p[2]]
                 = new[p[1]].payload[p[2]]
  <2>1. p[1] \in first..k
    BY PartIn
  <2>2. p[1] \in 1..Len(log) /\ p[1] - 1 \in 0..Len(log)
    BY <1>1, <2>1
  <2>3. /\ new[p[1]] = log[p[1]]
        /\ PartsOf(new, first, p[1] - 1) = PartsOf(log, first, p[1] - 1)
    BY <1>1, <2>2
  <2>4. QED
    BY <2>3 DEF Joins
<1>4. QED
  BY <1>2, <1>3 DEF Joins

LEMMA MessageKept ==
    ASSUME NEW log, NEW f, NEW new, Grown(log, f, new),
           NEW k \in 1..Len(log), NEW m,
           log[k].fin, IsMessage(log, k, m)
    PROVE  /\ k \in 1..Len(new) /\ new[k].fin
           /\ Ended(new, k) = Ended(log, k) /\ IsMessage(new, k, m)
<1>1. /\ Len(log) \in Nat /\ Len(new) = Len(log) + 1
      /\ \A i \in 1..Len(log) : new[i] = log[i]
  <2>1. Len(log) \in Nat /\ Len(new) = Len(log) + 1
    BY LogNext, Zenon
  <2>2. ASSUME NEW i \in 1..Len(log) PROVE new[i] = log[i]
    BY LogNext
  <2>3. QED
    BY <2>1, <2>2
<1>2. k \in 1..Len(new) /\ new[k] = log[k] /\ \A j \in 1..k : new[j] = log[j]
  BY <1>1
<1>3. Ended(new, k) = Ended(log, k)
  <2>1. {j \in 1..k : new[j].fin} = {j \in 1..k : log[j].fin}
    BY <1>2
  <2>2. QED
    BY <2>1 DEF Ended
<1>4. ASSUME Unfinished(log, k, m) PROVE Unfinished(new, k, m)
  <2>1. PICK first \in 1..k :
           /\ log[first].op \in Data
           /\ \A j \in first + 1..k : log[j].op \notin Data
           /\ m.op = log[first].op /\ Joins(log, first, k, m.body)
    BY <1>4 DEF Unfinished
  <2>2. Joins(new, first, k, m.body)
    BY <2>1, JoinsKept
  <2>3. \A j \in first + 1..k : j \in 1..k
    OBVIOUS
  <2>4. QED
    BY <1>2, <2>1, <2>2, <2>3 DEF Unfinished
<1>5. QED
  BY <1>2, <1>3, <1>4 DEF IsMessage

(* How many messages have ended after another frame.                       *)
LEMMA EndedNext ==
    ASSUME NEW log, NEW f, NEW new, Grown(log, f, new)
    PROVE  /\ Len(log) \in Nat /\ Ended(log, Len(log)) \in Nat
           /\ f.fin => Ended(new, Len(new)) = Ended(log, Len(log)) + 1
           /\ ~f.fin => Ended(new, Len(new)) = Ended(log, Len(log))
<1> DEFINE n == Len(log)
           S == {j \in 1..n : log[j].fin}
<1>1. /\ n \in Nat /\ Len(new) = n + 1 /\ new[n + 1] = f
      /\ \A i \in 1..n : new[i] = log[i]
  BY LogNext
<1>2. Ended(log, n) = Cardinality(S)
  BY DEF Ended
<1>3. Ended(new, Len(new)) = Cardinality({j \in 1..n + 1 : new[j].fin})
  BY <1>1 DEF Ended
<1> HIDE DEF n
<1>4. \A j : j \in 1..n + 1 <=> j \in 1..n \/ j = n + 1
  BY <1>1
<1>5. S \in SUBSET (1..n)
  OBVIOUS
<1>6. Cardinality(S) \in Nat /\ Cardinality(S \cup {n + 1}) = Cardinality(S) + 1
  BY <1>1, <1>5, OneMore
<1>7. n + 1 \in 1..n + 1
  BY <1>1
<1>8. f.fin => {j \in 1..n + 1 : new[j].fin} = S \cup {n + 1}
  BY <1>1, <1>4, <1>7
<1>9. ~f.fin => {j \in 1..n + 1 : new[j].fin} = S
  BY <1>1, <1>4, <1>7
<1>10. Ended(log, n) \in Nat
  BY <1>2, <1>6
<1>11. f.fin => Ended(new, Len(new)) = Ended(log, n) + 1
  BY <1>2, <1>3, <1>6, <1>8
<1>12. ~f.fin => Ended(new, Len(new)) = Ended(log, n)
  BY <1>2, <1>3, <1>9
<1>13. QED
  BY <1>1, <1>10, <1>11, <1>12 DEF n

(* The parts up to a data frame are those before it and its own.           *)
LEMMA PartCount ==
    ASSUME NEW log \in Seq(Frames), NEW first \in Nat \ {0},
           NEW i \in first..Len(log), log[i].op \notin Ctl
    PROVE  /\ Cardinality(PartsOf(log, first, i - 1)) \in Nat
           /\ Cardinality(PartsOf(log, first, i)) =
                  Cardinality(PartsOf(log, first, i - 1)) + Len(log[i].payload)
<1> DEFINE P == PartsOf(log, first, i - 1)
           Q == {i} \X (1..Len(log[i].payload))
<1>1. Len(log) \in Nat /\ i \in Nat /\ i - 1 \in Nat /\ i - 1 <= Len(log)
  BY LenProperties
<1>2. log[i] \in Frames
  BY <1>1, ElementOfSeq
<1>3. Len(log[i].payload) \in Nat
  BY <1>2, FrameIs
<1>4. IsFiniteSet(P) /\ Cardinality(P) \in Nat
  BY <1>1, PartsFinite, FS_CardinalityType
<1>5. IsFiniteSet(Q) /\ Cardinality(Q) = Len(log[i].payload)
  <2>1. /\ IsFiniteSet(1..Len(log[i].payload))
        /\ Cardinality(1..Len(log[i].payload)) = Len(log[i].payload)
    <3>1. ASSUME NEW L \in Nat
          PROVE  IsFiniteSet(1..L) /\ Cardinality(1..L) = L
      <4>1. 1 \in Int /\ L \in Int
        OBVIOUS
      <4>2. /\ IsFiniteSet(1..L)
            /\ Cardinality(1..L) = IF 1 > L THEN 0 ELSE L - 1 + 1
        BY <4>1, FS_Interval
      <4>3. (IF 1 > L THEN 0 ELSE L - 1 + 1) = L
        OBVIOUS
      <4>4. QED
        BY <4>2, <4>3
    <3>2. QED
      BY <1>3, <3>1
  <2>2. IsFiniteSet({i}) /\ Cardinality({i}) = 1
    BY FS_Singleton
  <2>3. /\ IsFiniteSet(Q)
        /\ Cardinality(Q) =
               Cardinality({i}) * Cardinality(1..Len(log[i].payload))
    BY <2>1, <2>2, FS_Product, Zenon
  <2>4. Cardinality(Q) = 1 * Len(log[i].payload)
    BY <2>1, <2>2, <2>3, Zenon
  <2>5. 1 * Len(log[i].payload) = Len(log[i].payload)
    BY <1>3
  <2>6. QED
    BY <2>3, <2>4, <2>5, Zenon
<1>6. P \cap Q = {}
  <2> SUFFICES ASSUME NEW p \in P, p \in Q PROVE FALSE
    OBVIOUS
  <2>1. PICK j \in first..i - 1 : p \in {j} \X (1..Len(log[j].payload))
    BY PartIn
  <2>2. p[1] = j /\ p[1] = i
    BY <2>1
  <2>3. QED
    BY <1>1, <2>1, <2>2
<1>7. PartsOf(log, first, i) = P \cup Q
  <2>1. \A j : j \in first..i <=> j \in first..i - 1 \/ j = i
    BY <1>1
  <2>2. ASSUME NEW p
        PROVE  p \in PartsOf(log, first, i) <=> p \in P \/ p \in Q
    <3>1. p \in P <=> \E j \in first..i - 1 :
              /\ log[j].op \notin Ctl /\ p \in {j} \X (1..Len(log[j].payload))
      BY PartIn
    <3>2. p \in PartsOf(log, first, i) <=> \E j \in first..i :
              /\ log[j].op \notin Ctl /\ p \in {j} \X (1..Len(log[j].payload))
      BY PartIn
    <3> HIDE DEF P
    <3>3. QED
      BY <2>1, <3>1, <3>2, Zenon
  <2> HIDE DEF P, Q
  <2>3. QED
    BY <2>2
<1> HIDE DEF P, Q
<1>8. Cardinality(P \cup Q)
          = Cardinality(P) + Cardinality(Q) - Cardinality(P \cap Q)
  BY <1>4, <1>5, FS_Union
<1>9. Cardinality(P \cap Q) = 0
  BY <1>6, FS_EmptySet
<1>10. Cardinality(P \cup Q) = Cardinality(P) + Len(log[i].payload)
  BY <1>3, <1>4, <1>5, <1>8, <1>9
<1>11. QED
  BY <1>4, <1>7, <1>10 DEF P

(* So every part has a place in the text.                                  *)
LEMMA PartPlace ==
    ASSUME NEW log \in Seq(Frames), NEW first \in Nat \ {0},
           NEW k \in first..Len(log), NEW p \in PartsOf(log, first, k)
    PROVE  /\ p[1] \in first..k
           /\ Cardinality(PartsOf(log, first, p[1] - 1)) \in Nat
           /\ p[2] \in Nat \ {0}
           /\ Cardinality(PartsOf(log, first, p[1] - 1)) + p[2]
                  <= Cardinality(PartsOf(log, first, k))
<1>1. PICK i \in first..k :
         log[i].op \notin Ctl /\ p \in {i} \X (1..Len(log[i].payload))
  BY PartIn
<1>2. p[1] = i /\ p[2] \in 1..Len(log[i].payload)
  BY <1>1
<1>3. Len(log) \in Nat /\ i \in first..Len(log) /\ k \in Nat /\ k <= Len(log)
  BY LenProperties
<1>4. log[i] \in Frames
  BY <1>3, ElementOfSeq
<1>5. Len(log[i].payload) \in Nat
  BY <1>4, FrameIs
<1>6. /\ Cardinality(PartsOf(log, first, i - 1)) \in Nat
      /\ Cardinality(PartsOf(log, first, i)) =
             Cardinality(PartsOf(log, first, i - 1)) + Len(log[i].payload)
  BY <1>1, <1>3, PartCount
<1>7. PartsOf(log, first, i) \subseteq PartsOf(log, first, k)
  <2>1. \A j \in first..i : j \in first..k
    BY <1>3
  <2>2. ASSUME NEW q \in PartsOf(log, first, i)
        PROVE  q \in PartsOf(log, first, k)
    <3>1. \E j \in first..i :
             log[j].op \notin Ctl /\ q \in {j} \X (1..Len(log[j].payload))
      BY PartIn
    <3>2. \E j \in first..k :
             log[j].op \notin Ctl /\ q \in {j} \X (1..Len(log[j].payload))
      BY <2>1, <3>1
    <3>3. QED
      BY <3>2, PartIn
  <2>3. QED
    BY <2>2
<1>8. IsFiniteSet(PartsOf(log, first, k))
  BY <1>3, PartsFinite
<1>9. /\ Cardinality(PartsOf(log, first, i))
             <= Cardinality(PartsOf(log, first, k))
      /\ Cardinality(PartsOf(log, first, k)) \in Nat
  BY <1>7, <1>8, FS_Subset, FS_CardinalityType
<1>10. Cardinality(PartsOf(log, first, i - 1)) + Len(log[i].payload)
           <= Cardinality(PartsOf(log, first, k))
  BY <1>6, <1>9, Zenon
<1>11. p[2] \in Nat \ {0} /\ Cardinality(PartsOf(log, first, i - 1)) + p[2]
                                  <= Cardinality(PartsOf(log, first, k))
  <2>1. PICK c \in Nat : c = Cardinality(PartsOf(log, first, i - 1))
    BY <1>6
  <2>2. PICK l \in Nat : l = Len(log[i].payload)
    BY <1>5
  <2>3. PICK t \in Nat : t = Cardinality(PartsOf(log, first, k))
    BY <1>9
  <2>4. c + l <= t /\ p[2] \in 1..l
    BY <1>2, <1>10, <2>1, <2>2, <2>3, Zenon
  <2>5. p[2] \in Nat \ {0} /\ c + p[2] <= t
    BY <2>4
  <2>6. QED
    BY <2>1, <2>3, <2>5, Zenon
<1>12. QED
  BY <1>2, <1>6, <1>11, Zenon

(* A control frame between its fragments leaves a message as it is.        *)
LEMMA Interrupted ==
    ASSUME NEW log, NEW f, NEW new, Grown(log, f, new), f.op \in Ctl,
           NEW m, Unfinished(log, Len(log), m)
    PROVE  Unfinished(new, Len(new), m)
<1> DEFINE n == Len(log)
<1>1. /\ n \in Nat /\ Len(new) = n + 1 /\ new[n + 1] = f
      /\ \A i \in 1..n : new[i] = log[i]
  BY LogNext
<1>2. PICK first \in 1..n :
         /\ log[first].op \in Data
         /\ \A j \in first + 1..n : log[j].op \notin Data
         /\ m.op = log[first].op /\ Joins(log, first, n, m.body)
  BY DEF Unfinished
<1>3. n \in 1..n /\ first \in Nat \ {0} /\ first <= n + 1 /\ n \in 0..n
  BY <1>1
<1>4. Joins(new, first, n, m.body)
  BY <1>2, <1>3, JoinsKept
<1>5. PartsOf(new, first, n + 1) = PartsOf(new, first, n)
  <2>1. PartsOf(new, first, n + 1) = PartsOf(log, first, n)
    BY <1>1, <1>3, PartsNext
  <2>2. PartsOf(new, first, n) = PartsOf(log, first, n)
    BY <1>3, PartsNext
  <2>3. QED
    BY <2>1, <2>2
<1>6. Joins(new, first, n + 1, m.body)
  BY <1>4, <1>5 DEF Joins
<1>7. \A j \in first + 1..n + 1 : new[j].op \notin Data
  <2>1. f.op \notin Data
    BY DEF Data, Ctl
  <2>2. \A j \in first + 1..n + 1 : j \in first + 1..n \/ j = n + 1
    BY <1>1
  <2>3. \A j \in first + 1..n : j \in 1..n
    BY <1>1
  <2>4. QED
    BY <1>1, <1>2, <2>1, <2>2, <2>3
<1>8. first \in 1..n + 1 /\ new[first] = log[first]
  BY <1>1
<1>9. QED
  BY <1>1, <1>2, <1>6, <1>7, <1>8 DEF Unfinished

(* A text is another with more behind it.                                  *)
Longer(body, old, more) ==
    /\ Len(body) = Len(old) + Len(more)
    /\ \A i \in 1..Len(old) + Len(more) :
          body[i] = IF i <= Len(old) THEN old[i] ELSE more[i - Len(old)]

LEMMA Concatenated ==
    ASSUME NEW s \in Seq(Parts), NEW t \in Seq(Parts)
    PROVE  Longer(s \o t, s, t)
BY ConcatProperties DEF Longer

(* A continuation is put behind what there is of its message.              *)
LEMMA Continued ==
    ASSUME NEW log, NEW f, NEW new, Grown(log, f, new), f.op \notin Ctl \cup Data,
           NEW m, m.body \in Seq(Parts), Unfinished(log, Len(log), m),
           NEW c, c.op = m.op, Longer(c.body, m.body, f.payload)
    PROVE  Unfinished(new, Len(new), c)
<1> DEFINE n == Len(log)
<1>1. /\ n \in Nat /\ Len(new) = n + 1 /\ new[n + 1] = f
      /\ new \in Seq(Frames) /\ f \in Frames
      /\ \A i \in 1..n : new[i] = log[i]
  BY LogNext
<1>2. PICK first \in 1..n :
         /\ log[first].op \in Data
         /\ \A j \in first + 1..n : log[j].op \notin Data
         /\ m.op = log[first].op /\ Joins(log, first, n, m.body)
  BY DEF Unfinished
<1>3. /\ n \in 1..n /\ first \in Nat \ {0} /\ first <= n + 1 /\ n \in 0..n
      /\ n + 1 \in first..Len(new) /\ n \in first..Len(new)
  BY <1>1
<1>4. Joins(new, first, n, m.body)
  BY <1>2, <1>3, JoinsKept
<1>5. f.payload \in Seq(Parts) /\ Len(f.payload) \in Nat
  BY <1>1, FrameIs
<1>6. Len(m.body) \in Nat /\ Len(m.body) = Cardinality(PartsOf(new, first, n))
  BY <1>4, LenProperties DEF Joins
<1>7. /\ Len(c.body) = Len(m.body) + Len(f.payload)
      /\ \A i \in 1..Len(m.body) + Len(f.payload) :
            c.body[i] = IF i <= Len(m.body) THEN m.body[i]
                        ELSE f.payload[i - Len(m.body)]
  BY DEF Longer
<1>8. (n + 1) - 1 = n
  BY <1>1
<1>9. Cardinality(PartsOf(new, first, n + 1)) =
          Cardinality(PartsOf(new, first, n)) + Len(f.payload)
  BY <1>1, <1>3, <1>8, PartCount
<1>10. ASSUME NEW p \in PartsOf(new, first, n + 1)
       PROVE  c.body[Cardinality(PartsOf(new, first, p[1] - 1)) + p[2]]
                  = new[p[1]].payload[p[2]]
  <2>1. PICK i \in first..n + 1 :
           new[i].op \notin Ctl /\ p \in {i} \X (1..Len(new[i].payload))
    BY PartIn
  <2>2. p[1] = i /\ p[2] \in 1..Len(new[i].payload)
    BY <2>1
  <2>3. CASE i = n + 1
    <3>1. p[2] \in 1..Len(f.payload) /\ PartsOf(new, first, p[1] - 1)
                                          = PartsOf(new, first, n)
      BY <1>1, <1>8, <2>2, <2>3
    <3>2. /\ Len(m.body) + p[2] \in 1..Len(m.body) + Len(f.payload)
          /\ ~(Len(m.body) + p[2] <= Len(m.body))
          /\ (Len(m.body) + p[2]) - Len(m.body) = p[2]
      <4>1. \A a, b \in Nat : \A q \in 1..b :
               /\ a + q \in 1..a + b /\ ~(a + q <= a) /\ (a + q) - a = q
        OBVIOUS
      <4>2. QED
        BY <1>5, <1>6, <3>1, <4>1, Zenon
    <3>3. c.body[Len(m.body) + p[2]] = f.payload[p[2]]
      BY <1>7, <3>2
    <3>4. QED
      BY <1>1, <1>6, <2>2, <2>3, <3>1, <3>3
  <2>4. CASE i # n + 1
    <3>1. i \in first..n
      BY <1>1, <1>3, <2>4
    <3>2. p \in PartsOf(new, first, n)
      BY <2>1, <3>1, PartIn
    <3> DEFINE x == Cardinality(PartsOf(new, first, p[1] - 1))
    <3>3. x \in Nat /\ p[2] \in Nat \ {0} /\ x + p[2] <= Len(m.body)
      BY <1>1, <1>3, <1>6, <3>2, PartPlace
    <3>4. m.body[x + p[2]] = new[p[1]].payload[p[2]]
      BY <1>4, <3>2 DEF Joins
    <3> HIDE DEF x
    <3>5. x + p[2] \in 1..Len(m.body) + Len(f.payload)
      <4>1. \A a, b, y \in Nat : \A q \in Nat \ {0} :
               y + q <= a => y + q \in 1..a + b
        OBVIOUS
      <4>2. QED
        BY <1>5, <1>6, <3>3, <4>1, Zenon
    <3>6. c.body[x + p[2]] = m.body[x + p[2]]
      BY <1>7, <3>3, <3>5
    <3>7. QED
      BY <3>4, <3>6 DEF x
  <2>5. QED
    BY <2>3, <2>4
<1>11. Joins(new, first, n + 1, c.body)
  BY <1>6, <1>7, <1>9, <1>10 DEF Joins
<1>12. \A j \in first + 1..n + 1 : new[j].op \notin Data
  <2>1. \A j \in first + 1..n + 1 : j \in first + 1..n \/ j = n + 1
    BY <1>1
  <2>2. \A j \in first + 1..n : j \in 1..n
    BY <1>1
  <2>3. QED
    BY <1>1, <1>2, <2>1, <2>2
<1>13. first \in 1..n + 1 /\ new[first] = log[first]
  BY <1>1
<1>14. QED
  BY <1>1, <1>2, <1>11, <1>12, <1>13 DEF Unfinished

(* A data frame that is no continuation begins a message.                  *)
LEMMA Started ==
    ASSUME NEW log, NEW f, NEW new, Grown(log, f, new), f.op \in Data,
           NEW m, m.op = f.op, m.body = f.payload
    PROVE  Unfinished(new, Len(new), m)
<1> DEFINE n == Len(log)
<1>1. /\ n \in Nat /\ Len(new) = n + 1 /\ new[n + 1] = f
      /\ new \in Seq(Frames) /\ f \in Frames
  BY LogNext
<1>2. n + 1 \in Nat \ {0} /\ n + 1 \in n + 1..Len(new) /\ (n + 1) - 1 = n
  BY <1>1
<1>3. f.op \notin Ctl
  BY DEF Data, Ctl
<1>4. PartsOf(new, n + 1, n) = {}
  <2>1. n + 1..n = {}
    BY <1>1
  <2>2. \A p : p \notin PartsOf(new, n + 1, n)
    BY <2>1, PartIn
  <2>3. QED
    BY <2>2
<1>5. Cardinality(PartsOf(new, n + 1, n)) = 0
  BY <1>4, FS_EmptySet
<1>6. Len(f.payload) \in Nat
  BY <1>1, FrameIs
<1>7. Cardinality(PartsOf(new, n + 1, n + 1)) = 0 + Len(f.payload)
  BY <1>1, <1>2, <1>3, <1>5, PartCount
<1>8. ASSUME NEW p \in PartsOf(new, n + 1, n + 1)
      PROVE  m.body[Cardinality(PartsOf(new, n + 1, p[1] - 1)) + p[2]]
                 = new[p[1]].payload[p[2]]
  <2>1. PICK i \in n + 1..n + 1 : p \in {i} \X (1..Len(new[i].payload))
    BY PartIn
  <2>2. i = n + 1
    BY <1>1
  <2>3. p[1] = n + 1 /\ p[2] \in 1..Len(f.payload)
    BY <1>1, <2>1, <2>2
  <2>4. Cardinality(PartsOf(new, n + 1, p[1] - 1)) = 0
    BY <1>2, <1>5, <2>3
  <2>5. 0 + p[2] = p[2]
    BY <2>3
  <2>6. QED
    BY <1>1, <2>3, <2>4, <2>5
<1>9. Joins(new, n + 1, n + 1, m.body)
  BY <1>6, <1>7, <1>8 DEF Joins
<1>10. n + 1 \in 1..n + 1 /\ \A j \in (n + 1) + 1..n + 1 : FALSE
  BY <1>1
<1>11. QED
  BY <1>1, <1>9, <1>10 DEF Unfinished

-----------------------------------------------------------------------------
(* Steps keep what is written in step with what is read.                   *)

(* A message is judged by its kind and its text.                           *)
LEMMA SameMessage ==
    ASSUME NEW log, NEW k, NEW m, NEW c, c.op = m.op, c.body = m.body
    PROVE  /\ IsMessage(log, k, m) => IsMessage(log, k, c)
           /\ Unfinished(log, k, m) => Unfinished(log, k, c)
BY DEF IsMessage, Unfinished

(* A relay reads and writes nothing, but it may return, or have inspected  *)
(* a message whose kind and text stay the same.                            *)
LEMMA StillInStep ==
    ASSUME NEW d \in Directions, InStep(d),
           received'[d] = received[d], delivered'[d] = delivered[d],
           message'[d] = message[d], fragmented'[d] = fragmented[d],
           \/ pc'[d] = "done"
           \/ /\ pc'[d] = pc[d] \/ (pc[d] = "inspecting" /\ pc'[d] = "writing")
              /\ out'[d].op = out[d].op /\ out'[d].body = out[d].body
    PROVE  InStep(d)'
<1>1. (\A i \in 1..Len(delivered[d]) : \E k \in 1..Len(received[d]) :
         /\ received[d][k].fin /\ Ended(received[d], k) = i
         /\ IsMessage(received[d], k, delivered[d][i]))'
  BY DEF InStep
<1>2. pc'[d] = "reading" =>
          Len(delivered'[d]) = Ended(received'[d], Len(received'[d]))
  BY DEF InStep
<1>3. ASSUME pc'[d] \in {"inspecting", "writing"}
      PROVE  /\ Len(received'[d]) \in 1..Len(received'[d])
             /\ received'[d][Len(received'[d])].fin
             /\ Ended(received'[d], Len(received'[d])) = Len(delivered'[d]) + 1
             /\ IsMessage(received'[d], Len(received'[d]), out'[d])
  <2>1. /\ pc[d] \in {"inspecting", "writing"}
        /\ out'[d].op = out[d].op /\ out'[d].body = out[d].body
    BY <1>3
  <2>2. /\ Len(received[d]) \in 1..Len(received[d])
        /\ received[d][Len(received[d])].fin
        /\ Ended(received[d], Len(received[d])) = Len(delivered[d]) + 1
        /\ IsMessage(received[d], Len(received[d]), out[d])
    BY <2>1 DEF InStep
  <2>3. IsMessage(received[d], Len(received[d]), out'[d])
    BY <2>1, <2>2, SameMessage
  <2>4. QED
    BY <2>2, <2>3
<1>4. fragmented'[d] =>
          Unfinished(received'[d], Len(received'[d]), message'[d])
  BY DEF InStep
<1>5. QED
  BY <1>1, <1>2, <1>3, <1>4 DEF InStep

LEMMA ReadInStep ==
    ASSUME RelayTypes, DeliveryInv, NEW d \in Directions, Read(d)
    PROVE  DeliveryInv'
<1>1. /\ pc \in [Directions -> {"reading", "inspecting", "writing", "done"}]
      /\ received \in [Directions -> Seq(Frames)]
      /\ out \in [Directions -> Messages] /\ message \in [Directions -> Messages]
      /\ fragmented \in [Directions -> BOOLEAN]
      /\ \A e \in Directions : InStep(e)
  BY DEF RelayTypes, DeliveryInv
<1>2. pc[d] = "reading" /\ delivered' = delivered
  BY ReadCases
<1>3. CASE Return(d, "failed") /\ UNCHANGED <<buffer, out, received>>
  <2>1. ASSUME NEW e \in Directions
        PROVE  pc'[e] = "done" \/ pc'[e] = pc[e]
    BY <1>1, <1>3 DEF Return
  <2>2. ASSUME NEW e \in Directions PROVE InStep(e)'
    BY <1>1, <1>2, <1>3, <2>1, StillInStep DEF buffer
  <2>3. QED
    BY <1>1, <1>3, <2>2 DEF DeliveryInv
<1>4. ASSUME NEW f \in Frames, NEW m,
             ~OutOfOrder(d, f),
             received' = [received EXCEPT ![d] = Append(@, f)],
             IF f.op \in Ctl
             THEN /\ m.op = f.op /\ m.body = f.payload
                  /\ UNCHANGED buffer
             ELSE /\ m.op = IF f.op = "cont" THEN message[d].op ELSE f.op
                  /\ m.body = Assembled(d, f)
                  /\ message' = [message EXCEPT ![d] = m]
                  /\ fragmented' = [fragmented EXCEPT ![d] = ~f.fin],
             IF f.op \in Ctl \/ f.fin
             THEN /\ out' = [out EXCEPT ![d] = m]
                  /\ pc' = [pc EXCEPT ![d] = "inspecting"]
             ELSE UNCHANGED <<out, pc>>
      PROVE  DeliveryInv'
  <2> DEFINE log == received[d]
             new == received'[d]
  <2>1. new = Append(log, f) /\ log \in Seq(Frames) /\ Grown(log, f, new)
    BY <1>1, <1>4 DEF Grown
  <2>2. /\ new \in Seq(Frames) /\ Len(log) \in Nat /\ Len(new) = Len(log) + 1
        /\ new[Len(new)] = f
    BY <2>1, LogNext
  <2>3. Len(new) \in 1..Len(new)
    BY <2>2
  <2>4. /\ Ended(log, Len(log)) = Len(delivered[d])
        /\ f.fin => Ended(new, Len(new)) = Ended(log, Len(log)) + 1
        /\ ~f.fin => Ended(new, Len(new)) = Ended(log, Len(log))
    BY <1>1, <1>2, <2>1, EndedNext DEF InStep
  <2>5. ASSUME NEW i \in 1..Len(delivered[d])
        PROVE  \E k \in 1..Len(new) :
                  /\ new[k].fin /\ Ended(new, k) = i
                  /\ IsMessage(new, k, delivered[d][i])
    <3>1. PICK k \in 1..Len(log) :
             /\ log[k].fin /\ Ended(log, k) = i
             /\ IsMessage(log, k, delivered[d][i])
      BY <1>1 DEF InStep
    <3>2. QED
      BY <2>1, <3>1, MessageKept
  <2>6. fragmented[d] => Unfinished(log, Len(log), message[d])
    BY <1>1 DEF InStep
  <2>7. received' \in [Directions -> Seq(Frames)]
    BY <1>1, <1>4, <2>2
  <2>8. ASSUME NEW e \in Directions \ {d} PROVE InStep(e)'
    <3>1. received'[e] = received[e] /\ message'[e] = message[e]
          /\ fragmented'[e] = fragmented[e]
      BY <1>1, <1>4 DEF buffer
    <3>2. pc'[e] = pc[e] /\ out'[e] = out[e]
      BY <1>1, <1>4
    <3>3. InStep(e) /\ delivered'[e] = delivered[e]
      BY <1>1, <1>2
    <3>4. QED
      BY <3>1, <3>2, <3>3, StillInStep
  <2>9. f.op \in Ctl => f.fin
    OBVIOUS
  <2> HIDE DEF log, new
  <2>10. /\ f.fin => /\ IsMessage(new, Len(new), m)
                     /\ out'[d] = m /\ pc'[d] = "inspecting"
         /\ ~f.fin => pc'[d] = "reading"
         /\ fragmented'[d] => Unfinished(new, Len(new), message'[d])
    <3>1. /\ f.fin => out'[d] = m /\ pc'[d] = "inspecting"
          /\ ~f.fin => pc'[d] = "reading"
      BY <1>1, <1>2, <1>4, <2>9
    <3>2. CASE f.op \in Ctl
      <4>1. IsMessage(new, Len(new), m)
        BY <1>4, <2>2, <3>2 DEF IsMessage
      <4>2. fragmented' = fragmented /\ message' = message
        BY <1>4, <3>2 DEF buffer
      <4>3. fragmented[d] => Unfinished(new, Len(new), message[d])
        BY <2>1, <2>6, <3>2, Interrupted
      <4>4. QED
        BY <3>1, <4>1, <4>2, <4>3
    <3>3. CASE f.op \notin Ctl
      <4>1. /\ m.op = IF f.op = "cont" THEN message[d].op ELSE f.op
            /\ m.body = Assembled(d, f)
            /\ message'[d] = m /\ (fragmented'[d] => ~f.fin)
        BY <1>1, <1>4, <3>3
      <4>2. f.op \in Data \cup {"cont"} /\ f.payload \in Seq(Parts)
        BY <3>3, FrameIs
      <4>3. Unfinished(new, Len(new), m)
        <5>1. CASE f.op \in Data
          <6>1. f.op # "cont"
            BY <5>1 DEF Data
          <6>2. m.op = f.op /\ m.body = f.payload
            BY <4>1, <6>1 DEF Assembled
          <6>3. QED
            BY <2>1, <5>1, <6>2, Started
        <5>2. CASE f.op = "cont"
          <6>1. fragmented[d]
            BY <1>4, <5>2 DEF OutOfOrder
          <6>2. f.op \notin Ctl \cup Data
            BY <5>2 DEF Ctl, Data
          <6>3. message[d].body \in Seq(Parts)
            BY <1>1 DEF Messages
          <6>4. m.op = message[d].op /\ m.body = message[d].body \o f.payload
            BY <4>1, <5>2 DEF Assembled
          <6>5. Longer(m.body, message[d].body, f.payload)
            BY <4>2, <6>3, <6>4, Concatenated
          <6>6. Unfinished(log, Len(log), message[d])
            BY <2>6, <6>1
          <6>7. QED
            BY <2>1, <6>2, <6>3, <6>4, <6>5, <6>6, Continued
        <5>3. QED
          BY <4>2, <5>1, <5>2
      <4>4. IsMessage(new, Len(new), m)
        BY <2>2, <3>3, <4>3 DEF IsMessage
      <4>5. QED
        BY <3>1, <4>1, <4>3, <4>4
    <3>4. QED
      BY <3>2, <3>3
  <2>11. Len(delivered'[d]) = Len(delivered[d])
         /\ \A i \in 1..Len(delivered[d]) : delivered'[d][i] = delivered[d][i]
    BY <1>2
  <2>12. InStep(d)'
    <3>1. (\A i \in 1..Len(delivered[d]) : \E k \in 1..Len(received[d]) :
             /\ received[d][k].fin /\ Ended(received[d], k) = i
             /\ IsMessage(received[d], k, delivered[d][i]))'
      BY <1>2, <2>5 DEF new
    <3>2. pc'[d] = "reading" => Len(delivered'[d]) = Ended(new, Len(new))
      BY <1>2, <2>4, <2>10
    <3>3. pc'[d] \in {"inspecting", "writing"} =>
              /\ Len(new) \in 1..Len(new) /\ new[Len(new)].fin
              /\ Ended(new, Len(new)) = Len(delivered'[d]) + 1
              /\ IsMessage(new, Len(new), out'[d])
      BY <1>2, <2>2, <2>3, <2>4, <2>10
    <3>4. fragmented'[d] => Unfinished(new, Len(new), message'[d])
      BY <2>10
    <3>5. QED
      BY <3>1, <3>2, <3>3, <3>4 DEF InStep, new
  <2>13. QED
    BY <2>7, <2>8, <2>12 DEF DeliveryInv
<1>5. QED
  BY <1>3, <1>4, ReadCases

LEMMA WriteInStep ==
    ASSUME RelayTypes, DeliveryInv, NEW d \in Directions, Write(d)
    PROVE  DeliveryInv'
<1>1. /\ pc[d] = "writing"
      /\ delivered' = [delivered EXCEPT ![d] = Append(@, out[d])]
      /\ pc' \in {[pc EXCEPT ![d] = "done"], [pc EXCEPT ![d] = "reading"]}
      /\ UNCHANGED <<message, fragmented, out, received>>
  BY DEF Write, Return, buffer
<1>2. /\ pc \in [Directions -> {"reading", "inspecting", "writing", "done"}]
      /\ delivered \in [Directions -> Seq(Messages)] /\ out[d] \in Messages
      /\ received \in [Directions -> Seq(Frames)]
      /\ \A e \in Directions : InStep(e)
  BY DEF RelayTypes, DeliveryInv
<1>3. pc'[d] \in {"done", "reading"}
      /\ \A e \in Directions \ {d} : pc'[e] = pc[e]
                                       /\ delivered'[e] = delivered[e]
  BY <1>1, <1>2
<1>4. /\ Len(delivered[d]) \in Nat
      /\ Len(delivered'[d]) = Len(delivered[d]) + 1
      /\ delivered'[d][Len(delivered[d]) + 1] = out[d]
      /\ \A i \in 1..Len(delivered[d]) : delivered'[d][i] = delivered[d][i]
  BY <1>1, <1>2, SentNext
<1>5. /\ Len(received[d]) \in 1..Len(received[d])
      /\ received[d][Len(received[d])].fin
      /\ Ended(received[d], Len(received[d])) = Len(delivered[d]) + 1
      /\ IsMessage(received[d], Len(received[d]), out[d])
      /\ fragmented[d] => Unfinished(received[d], Len(received[d]), message[d])
  BY <1>1, <1>2 DEF InStep
<1>6. ASSUME NEW i \in 1..Len(delivered'[d])
      PROVE  \E k \in 1..Len(received[d]) :
                /\ received[d][k].fin /\ Ended(received[d], k) = i
                /\ IsMessage(received[d], k, delivered'[d][i])
  <2>1. i \in 1..Len(delivered[d]) \/ i = Len(delivered[d]) + 1
    BY <1>4
  <2>2. CASE i \in 1..Len(delivered[d])
    BY <1>2, <1>4, <2>2 DEF InStep
  <2>3. CASE i = Len(delivered[d]) + 1
    BY <1>4, <1>5, <2>3
  <2>4. QED
    BY <2>1, <2>2, <2>3
<1>7. InStep(d)'
  <2>1. pc'[d] \notin {"inspecting", "writing"}
    BY <1>3
  <2>2. Len(delivered'[d]) = Ended(received'[d], Len(received'[d]))
    BY <1>1, <1>4, <1>5
  <2>3. fragmented'[d] =>
            Unfinished(received'[d], Len(received'[d]), message'[d])
    BY <1>1, <1>5
  <2>4. QED
    BY <1>1, <1>6, <2>1, <2>2, <2>3 DEF InStep
<1>8. ASSUME NEW e \in Directions \ {d} PROVE InStep(e)'
  BY <1>1, <1>2, <1>3, StillInStep
<1>9. QED
  BY <1>1, <1>2, <1>7, <1>8 DEF DeliveryInv

LEMMA DeliveryStarts == Init => DeliveryInv
<1> SUFFICES ASSUME Init PROVE DeliveryInv
  OBVIOUS
<1>1. received \in [Directions -> Seq(Frames)]
  BY EmptySeq DEF Init
<1>2. ASSUME NEW d \in Directions PROVE InStep(d)
  <2>1. /\ received[d] = <<>> /\ delivered[d] = <<>> /\ pc[d] = "reading"
        /\ ~fragmented[d]
    BY <1>2 DEF Init
  <2>2. Len(<<>>) = 0 /\ 1..0 = {}
    OBVIOUS
  <2>3. {j \in 1..0 : received[d][j].fin} = {}
    BY <2>2
  <2>4. Ended(received[d], Len(received[d])) = 0
    BY <2>1, <2>2, <2>3, FS_EmptySet DEF Ended
  <2>5. QED
    BY <2>1, <2>2, <2>4 DEF InStep
<1>3. QED
  BY <1>1, <1>2 DEF DeliveryInv

LEMMA DeliveryStep == RelayTypes /\ DeliveryInv /\ [Next]_vars => DeliveryInv'
<1> SUFFICES ASSUME RelayTypes, DeliveryInv, [Next]_vars PROVE DeliveryInv'
  OBVIOUS
<1>1. received \in [Directions -> Seq(Frames)] /\ \A e \in Directions : InStep(e)
  BY DEF DeliveryInv
<1>2. CASE UNCHANGED <<pc, message, fragmented, out, received, delivered>>
  <2>1. \A e \in Directions : InStep(e)'
    BY <1>1, <1>2, StillInStep
  <2>2. QED
    BY <1>1, <1>2, <2>1 DEF DeliveryInv
<1>3. CASE Upgrade \/ First \/ Second \/ Expire \/ CloseOnContext
           \/ UNCHANGED vars
  BY <1>2, <1>3 DEF Upgrade, First, Second, Expire, CloseOnContext, vars, buffer
<1>4. ASSUME NEW d \in Directions, Read(d) PROVE DeliveryInv'
  BY <1>4, ReadInStep
<1>5. ASSUME NEW d \in Directions, Write(d) PROVE DeliveryInv'
  BY <1>5, WriteInStep
<1>6. ASSUME NEW d \in Directions, NEW err, Return(d, err),
             UNCHANGED <<message, fragmented, out, received, delivered>>
      PROVE  DeliveryInv'
  <2>1. ASSUME NEW e \in Directions PROVE pc'[e] = "done" \/ pc'[e] = pc[e]
    BY <1>6 DEF Return, RelayTypes
  <2>2. \A e \in Directions : InStep(e)'
    BY <1>1, <1>6, <2>1, StillInStep
  <2>3. QED
    BY <1>1, <1>6, <2>2 DEF DeliveryInv
<1>7. ASSUME NEW d \in Directions, Mediate(d) PROVE DeliveryInv'
  <2>1. /\ pc[d] = "inspecting" /\ pc' = [pc EXCEPT ![d] = "writing"]
        /\ delivered' = delivered /\ message' = message
        /\ fragmented' = fragmented
        /\ \A e \in Directions \ {d} : out'[e] = out[e]
        /\ out'[d].op = out[d].op /\ out'[d].body = out[d].body
    BY <1>7, MediateIs DEF buffer
  <2>2. received' = received
    BY <1>7 DEF Mediate
  <2>3. ASSUME NEW e \in Directions PROVE InStep(e)'
    <3>1. \/ pc'[e] = pc[e]
          \/ pc[e] = "inspecting" /\ pc'[e] = "writing"
      BY <2>1 DEF RelayTypes
    <3>2. out'[e].op = out[e].op /\ out'[e].body = out[e].body
      BY <2>1
    <3>3. QED
      BY <1>1, <2>1, <2>2, <3>1, <3>2, StillInStep
  <2>4. QED
    BY <1>1, <2>2, <2>3 DEF DeliveryInv
<1>8. ASSUME NEW d \in Directions,
             ReadFails(d) \/ Expired(d) \/ Refuse(d) \/ WriteFails(d)
      PROVE  DeliveryInv'
  <2>1. PICK err : Return(d, err)
    BY <1>8 DEF ReadFails, Expired, Refuse, WriteFails
  <2>2. UNCHANGED <<message, fragmented, out, received, delivered>>
    BY <1>8 DEF ReadFails, Expired, Refuse, WriteFails, buffer
  <2>3. QED
    BY <1>6, <2>1, <2>2
<1>9. QED
  BY <1>3, <1>4, <1>5, <1>7, <1>8 DEF Next

-----------------------------------------------------------------------------
(* The theorems.                                                           *)

(* Inspection knows what it lets through, a capture that is not truncated  *)
(* is ahead of what is written, and every return is among the results: in  *)
(* every reachable state of the relays.                                    *)
THEOREM RelayInvariant == Spec => []RelayInv
BY RelayStarts, RelayStep, PTL DEF Spec

(* However a secret or a placeholder is split over the frames of any       *)
(* session, none is delivered without mediation (inspectWSMessage).        *)
THEOREM NothingLeaksOut == Spec => []NothingUnmediated
<1>1. RelayInv => NothingUnmediated
  BY DEF RelayInv, MediatedInv, Proper, NothingUnmediated
<1>2. QED
  BY <1>1, RelayInvariant, PTL

(* Whichever of the two relays returns first, the session's outcome tells  *)
(* of a refused message (proxyWebSocket).                                  *)
THEOREM RefusalsReported == Spec => []RefusalReported
<1>1. RelayInv => RefusalReported
  <2> SUFFICES ASSUME RelayInv, stage = "over", refused # {}
               PROVE  outcome = "fail"
    BY DEF RefusalReported
  <2>1. /\ ResultsInv /\ ReportInv /\ Len(results) = 2
        /\ outcome = "fail" <=> \E r \in Judged : r.err = "failed"
    BY DEF RelayInv, ReportInv
  <2>2. PICK d \in refused : TRUE
    OBVIOUS
  <2>3. PICK i \in 1..Len(results) :
           results[i].dir = d /\ results[i].err = "failed"
    BY <2>1 DEF ReportInv
  <2>4. results[i] \in Judged
    BY <2>1, <2>3 DEF Judged
  <2>5. QED
    BY <2>1, <2>3, <2>4
<1>2. QED
  BY <1>1, RelayInvariant, PTL

(* The capture of a session has every message that reached the other side, *)
(* from its first moment there and in the order of its relay, unless it    *)
(* says that it is truncated (wsCapture); all variables have their types.  *)
THEOREM CapturesComplete == Spec => []CaptureComplete
<1>1. RelayInv => CaptureComplete
  <2> SUFFICES ASSUME RelayInv PROVE CaptureComplete
    OBVIOUS
  <2>1. TypeOK
    <3>1. Len(results) <= 2
      BY TwoResults DEF RelayInv
    <3>2. QED
      BY <3>1 DEF RelayInv, RelayTypes, TypeOK
  <2>2. ASSUME ~truncated, NEW d \in Directions,
               NEW i \in 1..Len(delivered[d]), delivered[d][i].op \in Data
        PROVE  Captures(d, delivered[d][i], SentBy(d, i))
    BY <2>2 DEF RelayInv, CaptureInv, Ahead
  <2>3. QED
    BY <2>1, <2>2 DEF CaptureComplete, Captures
<1>2. QED
  BY <1>1, RelayInvariant, PTL

(* Every relay writes the messages of the frames it has read, whole and in *)
(* order, with control frames between fragments (relayWebSocket), for any  *)
(* frames and any number of them.                                          *)
THEOREM DeliversFaithfully == Spec => []DeliveredFaithful
<1>1. RelayInv => RelayTypes
  BY DEF RelayInv
<1>2. Spec => []DeliveryInv
  BY <1>1, RelayInvariant, DeliveryStarts, DeliveryStep, PTL DEF Spec
<1>3. DeliveryInv => DeliveredFaithful
  BY DEF DeliveryInv, InStep, DeliveredFaithful
<1>4. QED
  BY <1>2, <1>3, PTL
=============================================================================
