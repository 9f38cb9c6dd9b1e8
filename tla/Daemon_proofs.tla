---------------------------- MODULE Daemon_proofs ----------------------------
(***************************************************************************)
(* Proofs about FlowRecorder, for any flows, workers, callers of Close and *)
(* capacity of the queue, and about Daemon, in which the recorder runs.    *)
(***************************************************************************)
EXTENDS Daemon, SequenceTheorems, FiniteSetTheorems, TLAPS

USE RecorderAssumption

-----------------------------------------------------------------------------
(* Sequences without repetition, of which the queues are two.              *)

(* Appending a new element keeps a sequence free of repetitions.           *)
LEMMA AppendFresh ==
    ASSUME NEW S, NEW s \in Seq(S), IsInjective(s), NEW e \in S, e \notin ToSet(s)
    PROVE  /\ Append(s, e) \in Seq(S)
           /\ IsInjective(Append(s, e))
           /\ ToSet(Append(s, e)) = ToSet(s) \cup {e}
<1> DEFINE t == Append(s, e)
           n == Len(s)
<1>1. /\ n \in Nat /\ DOMAIN s = 1..n
      /\ t \in Seq(S) /\ Len(t) = n + 1 /\ DOMAIN t = 1..n + 1
      /\ \A i \in 1..n : t[i] = s[i]
      /\ t[n + 1] = e
  BY AppendProperties, LenProperties
<1> HIDE DEF t, n
<1>2. \A i \in 1..n : s[i] \in ToSet(s)
  BY <1>1 DEF ToSet
<1>3. IsInjective(t)
  BY <1>1, <1>2 DEF IsInjective
<1>4. ToSet(t) = ToSet(s) \cup {e}
  <2>1. \A i \in 1..n + 1 : t[i] \in ToSet(s) \cup {e}
    BY <1>1, <1>2
  <2>2. \A x \in ToSet(s) \cup {e} : \E i \in 1..n + 1 : t[i] = x
    BY <1>1 DEF ToSet
  <2>3. QED
    BY <1>1, <2>1, <2>2 DEF ToSet
<1>5. QED
  BY <1>1, <1>3, <1>4 DEF t

(* Taking out one element leaves the others, each once.                    *)
LEMMA RemoveOne ==
    ASSUME NEW n \in Nat, NEW k \in 1..n, NEW s, DOMAIN s = 1..n, IsInjective(s),
           NEW t, DOMAIN t = 1..n - 1,
           \A i \in 1..k - 1 : t[i] = s[i],
           \A i \in k..n - 1 : t[i] = s[i + 1]
    PROVE  /\ IsInjective(t)
           /\ ToSet(t) = ToSet(s) \ {s[k]}
<1>1. \A i \in 1..n - 1 : \E j \in 1..n :
         /\ j # k /\ t[i] = s[j]
         /\ j = IF i < k THEN i ELSE i + 1
  <2> TAKE i \in 1..n - 1
  <2>1. CASE i < k
    BY <2>1
  <2>2. CASE i >= k
    <3>1. i + 1 \in 1..n /\ i + 1 # k /\ t[i] = s[i + 1] /\ ~(i < k)
      BY <2>2
    <3>2. QED
      BY <3>1
  <2>3. QED
    BY <2>1, <2>2
<1>2. IsInjective(t)
  BY <1>1 DEF IsInjective
<1>3. \A i \in 1..n - 1 : t[i] \in ToSet(s) \ {s[k]}
  <2> TAKE i \in 1..n - 1
  <2>1. PICK j \in 1..n : j # k /\ t[i] = s[j]
    BY <1>1
  <2>2. s[j] # s[k]
    BY <2>1 DEF IsInjective
  <2>3. s[j] \in ToSet(s)
    BY DEF ToSet
  <2>4. QED
    BY <2>1, <2>2, <2>3
<1>4. \A x \in ToSet(s) \ {s[k]} : \E i \in 1..n - 1 : t[i] = x
  <2> SUFFICES ASSUME NEW j \in 1..n, j # k
               PROVE  \E i \in 1..n - 1 : t[i] = s[j]
    BY DEF ToSet
  <2>1. CASE j < k
    BY <2>1
  <2>2. CASE j > k
    <3>1. t[j - 1] = s[j] /\ j - 1 \in 1..n - 1
      BY <2>2
    <3>2. QED
      BY <3>1
  <2>3. QED
    BY <2>1, <2>2
<1>5. ToSet(t) = ToSet(s) \ {s[k]}
  <2>1. ToSet(t) = {t[i] : i \in 1..n - 1}
    BY DEF ToSet
  <2>2. QED
    BY <1>3, <1>4, <2>1
<1>6. QED
  BY <1>2, <1>5

(* The oldest element is taken from a queue.                               *)
LEMMA TakeOldest ==
    ASSUME NEW S, NEW s \in Seq(S), IsInjective(s), s # <<>>
    PROVE  /\ Head(s) \in S /\ Tail(s) \in Seq(S)
           /\ Len(Tail(s)) = Len(s) - 1 /\ Len(s) > 0
           /\ Head(s) \in ToSet(s)
           /\ IsInjective(Tail(s))
           /\ ToSet(Tail(s)) = ToSet(s) \ {Head(s)}
<1>1. /\ Head(s) \in S /\ Tail(s) \in Seq(S)
      /\ Len(Tail(s)) = Len(s) - 1
      /\ \A i \in 1..Len(Tail(s)) : Tail(s)[i] = s[i + 1]
  BY HeadTailProperties
<1>2. Len(s) > 0 /\ 1 \in DOMAIN s
  BY EmptySeq, LenProperties
<1>3. Head(s) = s[1]
  OBVIOUS
<1>4. /\ IsInjective(Tail(s))
      /\ ToSet(Tail(s)) = ToSet(s) \ {s[1]}
  <2> DEFINE t == Tail(s)
             n == Len(s)
  <2>1. /\ n \in Nat /\ 1 \in 1..n
        /\ DOMAIN s = 1..n
        /\ DOMAIN t = 1..n - 1
        /\ \A i \in 1..1 - 1 : t[i] = s[i]
        /\ \A i \in 1..n - 1 : t[i] = s[i + 1]
    BY <1>1, <1>2, LenProperties
  <2> HIDE DEF t, n
  <2>2. /\ IsInjective(t)
        /\ ToSet(t) = ToSet(s) \ {s[1]}
    BY <2>1, RemoveOne
  <2>3. QED
    BY <2>2 DEF t
<1>5. QED
  BY <1>1, <1>2, <1>3, <1>4 DEF ToSet

(* A waiting sender withdraws.                                             *)
LEMMA RemoveWaiting ==
    ASSUME NEW S, NEW s \in Seq(S), IsInjective(s), NEW k \in 1..Len(s)
    PROVE  /\ RemoveAt(s, k) \in Seq(S)
           /\ IsInjective(RemoveAt(s, k))
           /\ ToSet(RemoveAt(s, k)) = ToSet(s) \ {s[k]}
<1> DEFINE n == Len(s)
           a == SubSeq(s, 1, k - 1)
           b == SubSeq(s, k + 1, n)
<1>1. n \in Nat /\ DOMAIN s = 1..n /\ k \in 1..n /\ \A i \in 1..n : s[i] \in S
  BY LenProperties, ElementOfSeq
<1>2. /\ a \in Seq(S) /\ Len(a) = k - 1
      /\ \A i \in 1..k - 1 : a[i] = s[i]
  BY <1>1, SubSeqProperties
<1>3. /\ b \in Seq(S) /\ Len(b) = n - k
      /\ \A i \in 1..n - k : b[i] = s[k + i]
  <2>1. /\ k + 1 \in Int /\ Len(s) \in Int
        /\ \A i \in k + 1..Len(s) : s[i] \in S
    BY <1>1
  <2>2. /\ b \in Seq(S)
        /\ Len(b) = IF k + 1 <= n THEN n - (k + 1) + 1 ELSE 0
        /\ \A i \in 1..n - (k + 1) + 1 : b[i] = s[k + 1 + i - 1]
    BY <2>1, SubSeqProperties
  <2> HIDE DEF b, n
  <2>3. /\ n - (k + 1) + 1 = n - k
        /\ \A i \in 1..n - k : k + 1 + i - 1 = k + i
    BY <1>1
  <2>4. Len(b) = n - k
    BY <1>1, <2>2, <2>3
  <2>5. \A i \in 1..n - k : b[i] = s[k + i]
    BY <2>2, <2>3
  <2>6. QED
    BY <2>2, <2>4, <2>5
<1>4. RemoveAt(s, k) = a \o b
  BY DEF RemoveAt
<1> HIDE DEF n, a, b
<1>5. /\ a \o b \in Seq(S) /\ Len(a \o b) = Len(a) + Len(b)
      /\ \A i \in 1..Len(a) + Len(b) :
            (a \o b)[i] = IF i <= Len(a) THEN a[i] ELSE b[i - Len(a)]
  BY <1>2, <1>3, ConcatProperties
<1>6. /\ Len(a \o b) = n - 1
      /\ \A i \in 1..k - 1 : (a \o b)[i] = s[i]
      /\ \A i \in k..n - 1 : (a \o b)[i] = s[i + 1]
  <2>1. Len(a) + Len(b) = n - 1
    BY <1>1, <1>2, <1>3
  <2>2. ASSUME NEW i \in 1..k - 1 PROVE (a \o b)[i] = s[i]
    BY <1>1, <1>2, <1>5, <2>1
  <2>3. ASSUME NEW i \in k..n - 1 PROVE (a \o b)[i] = s[i + 1]
    <3>1. i - Len(a) \in 1..n - k /\ k + (i - Len(a)) = i + 1
      BY <1>1, <1>2
    <3>2. (a \o b)[i] = b[i - Len(a)]
      BY <1>1, <1>2, <1>5, <2>1
    <3>3. b[i - Len(a)] = s[k + (i - Len(a))]
      BY <1>3, <3>1
    <3>4. QED
      BY <3>1, <3>2, <3>3
  <2>4. QED
    BY <1>5, <2>1, <2>2, <2>3
<1>7. /\ IsInjective(a \o b)
      /\ ToSet(a \o b) = ToSet(s) \ {s[k]}
  <2> DEFINE t == a \o b
  <2>1. /\ n \in Nat /\ k \in 1..n /\ DOMAIN s = 1..n
        /\ DOMAIN t = 1..n - 1
        /\ \A i \in 1..k - 1 : t[i] = s[i]
        /\ \A i \in k..n - 1 : t[i] = s[i + 1]
    BY <1>1, <1>5, <1>6, LenProperties
  <2> HIDE DEF t
  <2>2. /\ IsInjective(t)
        /\ ToSet(t) = ToSet(s) \ {s[k]}
    BY <2>1, RemoveOne
  <2>3. QED
    BY <2>2 DEF t
<1>8. QED
  BY <1>4, <1>5, <1>7
-----------------------------------------------------------------------------
(* The inductive invariant of the recorder.                                *)

Queued(f) == f \in ToSet(queue)
Waits(f)  == f \in ToSet(sendq)
InHand(f) == \E w \in Workers : job[w] = f

(* No flow is twice in the channel, in its line of senders or with the     *)
(* workers.                                                                *)
NoRepetition ==
    /\ IsInjective(queue)
    /\ IsInjective(sendq)
    /\ \A v, w \in Workers : job[v] = job[w] /\ job[v] # NoFlow => v = w

(* Where a flow is determines where its submitter is, and the converse.    *)
Place(f) ==
    /\ pc[f] \in {"serving", "sending"} => fate[f] = "none"
    /\ Waits(f) <=> pc[f] = "blocked"
    /\ pc[f] = "blocked" => fate[f] = "none"
    /\ pc[f] = "full" => fate[f] = "dropped"
    /\ pc[f] \in {"full", "sent", "done"} =>
          fate[f] # "none" \/ Queued(f) \/ InHand(f)
    /\ Queued(f) \/ InHand(f) => pc[f] \in {"sent", "done"} /\ fate[f] = "none"
    /\ ~(Queued(f) /\ InHand(f))

(* What the channel and the workers are, by the life of the recorder: the  *)
(* first submission starts them, the first closer closes the channel after *)
(* the last submitter left, and a worker exits when it has drained it.     *)
Before ==
    channel = "none" =>
        /\ queue = <<>>
        /\ \A f \in Flows : pc[f] \in {"serving", "done"}
        /\ \A f \in Flows : fate[f] \in {"none", "refused"}
        /\ \A w \in Workers : worker[w] = "none" /\ job[w] = NoFlow
During ==
    /\ channel # "none" => \A w \in Workers : worker[w] # "none"
    /\ \A w \in Workers : job[w] # NoFlow => worker[w] = "running"
    /\ \A w \in Workers : worker[w] = "exited" => channel = "closed" /\ queue = <<>>
SubmittersLeft == closed /\ closer[first] \in {"waitWorkers", "done"}
After ==
    /\ channel = "closed" => SubmittersLeft
    /\ SubmittersLeft => /\ channel # "open"
                         /\ Submitters = {}
                         /\ reported = dropped

(* The closers.                                                            *)
Closing ==
    /\ closed <=> first \in Closers
    /\ closed => closer[first] # "idle"
    /\ \A c \in Closers :
          /\ closer[c] = "waitSubmitters" => c = first
          /\ closer[c] # "idle" => closed
          /\ closer[c] = "done" <=> result[c] # "none"
          /\ result[c] = "nil" => closed /\ WorkersGone
    /\ \A f \in Flows : fate[f] = "refused" => closed

(* The drops already counted.                                              *)
Counted == {f \in Flows : fate[f] = "dropped" /\ pc[f] # "full"}
Count   == IsFiniteSet(Counted) /\ dropped = Cardinality(Counted)

RecorderInv ==
    /\ TypeOK
    /\ NoRepetition
    /\ \A f \in Flows : Place(f)
    /\ Before /\ During /\ After
    /\ Closing
    /\ Count

(* It holds before the first flow.                                         *)
LEMMA RecorderInit == Init => RecorderInv
<1> SUFFICES ASSUME Init PROVE RecorderInv
  OBVIOUS
<1> USE DEF Init
<1>1. queue \in Seq(Flows) /\ Len(queue) = 0 /\ DOMAIN queue = {} /\ ToSet(queue) = {}
  BY DEF ToSet
<1>2. sendq \in Seq(Flows) /\ DOMAIN sendq = {} /\ ToSet(sendq) = {}
  BY DEF ToSet
<1>3. TypeOK
  <2>1. Len(queue) <= Capacity
    BY <1>1
  <2>2. QED
    BY <1>1, <1>2, <2>1 DEF TypeOK
<1>4. NoRepetition
  BY <1>1, <1>2 DEF NoRepetition, IsInjective
<1>5. \A f \in Flows : Place(f)
  BY <1>1, <1>2 DEF Place, Queued, Waits, InHand
<1>6. Before /\ During /\ After /\ Closing
  BY DEF Before, During, After, Closing, SubmittersLeft
<1>7. Count
  <2>1. Counted = {}
    BY DEF Counted
  <2>2. QED
    BY <2>1, FS_EmptySet DEF Count
<1>8. QED
  BY <1>3, <1>4, <1>5, <1>6, <1>7 DEF RecorderInv

(* A step that neither counts a drop nor changes the set of those counted. *)
LEMMA CountStands ==
    ASSUME Count, dropped' = dropped, Counted' = Counted
    PROVE  Count'
BY DEF Count

(* The steps of recordFlow keep it: a flow moves from its goroutine to the *)
(* channel or to the drops, and while it is on the way the channel stays   *)
(* open.                                                                   *)
LEMMA SubmitterStep ==
    ASSUME RecorderInv, NEW f \in Flows, SubmitStep(f)
    PROVE  RecorderInv'
<1> USE DEF RecorderInv, closing, submission
<1>1. CASE Refuse(f)
  <2> USE <1>1 DEF Refuse
  <2>1. TypeOK'
    BY DEF TypeOK
  <2>2. NoRepetition'
    BY DEF NoRepetition
  <2>3. \A g \in Flows : Place(g)'
    BY DEF Place, TypeOK, Queued, Waits, InHand
  <2>4. Before' /\ During' /\ After' /\ Closing'
    BY DEF Before, During, After, Closing, SubmittersLeft, Submitters, TypeOK, WorkersGone
  <2>5. Counted' = Counted
    BY DEF Counted, Place, TypeOK
  <2>6. QED
    BY <2>1, <2>2, <2>3, <2>4, <2>5, CountStands
<1>2. CASE Submit(f)
  <2> USE <1>2 DEF Submit
  <2>1. TypeOK'
    BY DEF TypeOK
  <2>2. NoRepetition'
    BY DEF NoRepetition
  <2>3. \A g \in Flows : Place(g)'
    BY DEF Place, TypeOK, Queued, Waits, InHand
  <2>4. Before' /\ During' /\ After' /\ Closing'
    BY DEF Before, During, After, Closing, SubmittersLeft, Submitters, TypeOK, WorkersGone
  <2>5. Counted' = Counted
    BY DEF Counted, Place, TypeOK
  <2>6. QED
    BY <2>1, <2>2, <2>3, <2>4, <2>5, CountStands
<1>3. CASE Send(f)
  <2> USE <1>3 DEF Send
  <2>1. f \notin ToSet(queue) /\ ~InHand(f)
    BY DEF Place, Queued
  <2>2. /\ queue' \in Seq(Flows) /\ IsInjective(queue')
        /\ ToSet(queue') = ToSet(queue) \cup {f}
    BY <2>1, AppendFresh DEF NoRepetition, TypeOK
  <2>3. Len(queue') <= Capacity
    BY AppendProperties, LenProperties DEF Full, TypeOK
  <2>4. TypeOK'
    BY <2>2, <2>3 DEF TypeOK
  <2>5. NoRepetition'
    BY <2>2 DEF NoRepetition
  <2>6. \A g \in Flows : Place(g)'
    BY <2>1, <2>2 DEF Place, TypeOK, Queued, Waits, InHand
  <2>7. Before' /\ During' /\ After' /\ Closing'
    BY DEF Before, During, After, Closing, SubmittersLeft, Submitters, TypeOK, WorkersGone
  <2>8. Counted' = Counted
    BY DEF Counted, Place, TypeOK
  <2>9. QED
    BY <2>4, <2>5, <2>6, <2>7, <2>8, CountStands
<1>4. CASE Block(f)
  <2> USE <1>4 DEF Block
  <2>1. f \notin ToSet(sendq)
    BY DEF Place, Waits
  <2>2. /\ sendq' \in Seq(Flows) /\ IsInjective(sendq')
        /\ ToSet(sendq') = ToSet(sendq) \cup {f}
    BY <2>1, AppendFresh DEF NoRepetition, TypeOK
  <2>3. TypeOK'
    BY <2>2 DEF TypeOK
  <2>4. NoRepetition'
    BY <2>2 DEF NoRepetition
  <2>5. \A g \in Flows : Place(g)'
    BY <2>1, <2>2 DEF Place, TypeOK, Queued, Waits, InHand
  <2>6. Before' /\ During' /\ After' /\ Closing'
    BY DEF Before, During, After, Closing, SubmittersLeft, Submitters, TypeOK, WorkersGone
  <2>7. Counted' = Counted
    BY DEF Counted, Place, TypeOK
  <2>8. QED
    BY <2>3, <2>4, <2>5, <2>6, <2>7, CountStands
<1>5. CASE Drop(f)
  <2> USE <1>5 DEF Drop
  <2>1. TypeOK'
    BY DEF TypeOK
  <2>2. NoRepetition'
    BY DEF NoRepetition
  <2>3. \A g \in Flows : Place(g)'
    BY DEF Place, TypeOK, Queued, Waits, InHand
  <2>4. Before' /\ During' /\ After' /\ Closing'
    BY DEF Before, During, After, Closing, SubmittersLeft, Submitters, TypeOK, WorkersGone
  <2>5. Counted' = Counted
    BY DEF Counted, Place, TypeOK
  <2>6. QED
    BY <2>1, <2>2, <2>3, <2>4, <2>5, CountStands
<1>6. CASE DeniedTimeout(f)
  <2> USE <1>6 DEF DeniedTimeout
  <2>1. /\ sendq' \in Seq(Flows) /\ IsInjective(sendq')
        /\ ToSet(sendq') = ToSet(sendq) \ {f}
    <3>1. PICK i \in DOMAIN sendq : sendq[i] = f /\ sendq' = RemoveAt(sendq, i)
      BY DEF Withdraw
    <3>2. i \in 1..Len(sendq)
      BY LenProperties DEF TypeOK
    <3>3. QED
      BY <3>1, <3>2, RemoveWaiting DEF NoRepetition, TypeOK
  <2>2. TypeOK'
    BY <2>1 DEF TypeOK
  <2>3. NoRepetition'
    BY <2>1 DEF NoRepetition
  <2>4. \A g \in Flows : Place(g)'
    BY <2>1 DEF Place, TypeOK, Queued, Waits, InHand
  <2>5. Before' /\ During' /\ After' /\ Closing'
    BY DEF Before, During, After, Closing, SubmittersLeft, Submitters, TypeOK, WorkersGone
  <2>6. Counted' = Counted
    BY DEF Counted, Place, TypeOK
  <2>7. QED
    BY <2>2, <2>3, <2>4, <2>5, <2>6, CountStands
<1>7. CASE CountDrop(f)
  <2> USE <1>7 DEF CountDrop
  <2>1. TypeOK'
    BY DEF TypeOK
  <2>2. NoRepetition'
    BY DEF NoRepetition
  <2>3. \A g \in Flows : Place(g)'
    BY DEF Place, TypeOK, Queued, Waits, InHand
  <2>4. Before' /\ During' /\ After' /\ Closing'
    BY DEF Before, During, After, Closing, SubmittersLeft, Submitters, TypeOK, WorkersGone
  <2>5. Counted' = Counted \cup {f} /\ f \notin Counted
    BY DEF Counted, Place, TypeOK
  <2>6. Count'
    BY <2>5, FS_AddElement, FS_CardinalityType DEF Count
  <2>7. QED
    BY <2>1, <2>2, <2>3, <2>4, <2>6
<1>8. CASE Leave(f)
  <2> USE <1>8 DEF Leave
  <2>1. TypeOK'
    BY DEF TypeOK
  <2>2. NoRepetition'
    BY DEF NoRepetition
  <2>3. \A g \in Flows : Place(g)'
    BY DEF Place, TypeOK, Queued, Waits, InHand
  <2>4. Before' /\ During' /\ After' /\ Closing'
    BY DEF Before, During, After, Closing, SubmittersLeft, Submitters, TypeOK, WorkersGone
  <2>5. Counted' = Counted
    BY DEF Counted, Place, TypeOK
  <2>6. QED
    BY <2>1, <2>2, <2>3, <2>4, <2>5, CountStands
<1>9. QED
  BY <1>1, <1>2, <1>3, <1>4, <1>5, <1>6, <1>7, <1>8 DEF SubmitStep

(* The steps of a worker keep it: a job is in one hand, and a worker is    *)
(* gone only when the closed channel is empty.                             *)
LEMMA WorkersStep ==
    ASSUME RecorderInv, NEW w \in Workers, WorkerStep(w)
    PROVE  RecorderInv'
<1> USE DEF RecorderInv, closing, submission
<1>1. CASE Take(w) /\ sendq = <<>>
  <2> USE <1>1 DEF Take
  <2> DEFINE h == Head(queue)
  <2>1. /\ h \in Flows /\ h \in ToSet(queue)
        /\ queue' \in Seq(Flows) /\ Len(queue') <= Capacity
        /\ IsInjective(queue')
        /\ ToSet(queue') = ToSet(queue) \ {h}
    <3>1. queue \in Seq(Flows) /\ IsInjective(queue) /\ queue # <<>>
      BY DEF NoRepetition, TypeOK
    <3>2. /\ Len(Tail(queue)) = Len(queue) - 1 /\ Len(queue) \in Nat
          /\ Len(queue) <= Capacity
      BY <3>1, TakeOldest, LenProperties DEF TypeOK
    <3>3. Len(queue') <= Capacity
      BY <3>2
    <3>4. /\ h \in Flows /\ h \in ToSet(queue)
          /\ Tail(queue) \in Seq(Flows) /\ IsInjective(Tail(queue))
          /\ ToSet(Tail(queue)) = ToSet(queue) \ {h}
      <4> HIDE <1>1
      <4> QED
        BY <3>1, TakeOldest
    <3>5. QED
      BY <3>3, <3>4
  <2>2. /\ job' = [job EXCEPT ![w] = h]
        /\ \A v \in Workers : job[v] # h
        /\ sendq' = sendq /\ pc' = pc
    BY <2>1 DEF Place, Queued, InHand
  <2> HIDE DEF h
  <2>3. TypeOK'
    BY <2>1, <2>2 DEF TypeOK
  <2>4. NoRepetition'
    BY <2>1, <2>2 DEF NoRepetition, TypeOK
  <2>5. \A g \in Flows : Place(g)'
    <3> TAKE g \in Flows
    <3>1. CASE g = h
      <4>1. InHand(g)'
        BY <2>2, <3>1 DEF InHand, TypeOK
      <4>2. QED
        BY <2>1, <2>2, <3>1, <4>1 DEF Place, Queued, Waits
    <3>2. CASE g # h
      <4>1. InHand(g)' = InHand(g)
        BY <2>2, <3>2 DEF InHand, TypeOK
      <4>2. QED
        BY <2>1, <2>2, <3>2, <4>1 DEF Place, Queued, Waits
    <3>3. QED
      BY <3>1, <3>2
  <2>6. Before' /\ During' /\ After' /\ Closing'
    BY <2>2 DEF Before, During, After, Closing, SubmittersLeft, Submitters, TypeOK,
                WorkersGone
  <2>7. Counted' = Counted
    BY <2>2 DEF Counted
  <2>8. QED
    BY <2>3, <2>4, <2>5, <2>6, <2>7, CountStands
<1>2. CASE Take(w) /\ sendq # <<>>
  <2> USE <1>2 DEF Take
  <2> DEFINE h == Head(queue)
             s == Head(sendq)
             q == Tail(queue)
  <2>1. /\ h \in Flows /\ h \in ToSet(queue)
        /\ q \in Seq(Flows) /\ Len(q) = Len(queue) - 1
        /\ IsInjective(q)
        /\ ToSet(q) = ToSet(queue) \ {h}
    BY TakeOldest DEF NoRepetition, TypeOK
  <2>2. /\ s \in Flows /\ s \in ToSet(sendq)
        /\ sendq' \in Seq(Flows)
        /\ IsInjective(sendq')
        /\ ToSet(sendq') = ToSet(sendq) \ {s}
    <3>1. sendq \in Seq(Flows) /\ IsInjective(sendq) /\ sendq # <<>>
      BY DEF NoRepetition, TypeOK
    <3>2. /\ s \in Flows /\ s \in ToSet(sendq)
          /\ Tail(sendq) \in Seq(Flows) /\ IsInjective(Tail(sendq))
          /\ ToSet(Tail(sendq)) = ToSet(sendq) \ {s}
      <4> HIDE <1>2
      <4> QED
        BY <3>1, TakeOldest
    <3>3. QED
      BY <3>2
  <2>3. /\ queue' = Append(q, s)
        /\ job' = [job EXCEPT ![w] = h]
        /\ pc' = [pc EXCEPT ![s] = "sent"]
        /\ \A v \in Workers : job[v] # h
        /\ pc[s] = "blocked" /\ fate[s] = "none" /\ s # h
        /\ s \notin ToSet(queue) /\ \A v \in Workers : job[v] # s
    BY <2>1, <2>2 DEF Place, Queued, InHand, Waits
  <2> HIDE DEF h, s, q
  <2>4. /\ queue' \in Seq(Flows)
        /\ Len(queue') = Len(queue)
        /\ IsInjective(queue')
        /\ ToSet(queue') = (ToSet(queue) \ {h}) \cup {s}
    <3>1. s \notin ToSet(q)
      BY <2>1, <2>3
    <3>2. Len(queue') = Len(q) + 1
      BY <2>1, <2>2, <2>3, AppendProperties
    <3>3. Len(queue') = Len(queue)
      BY <2>1, <3>2, LenProperties DEF TypeOK
    <3>4. QED
      BY <2>1, <2>2, <2>3, <3>1, <3>3, AppendFresh
  <2>5. TypeOK'
    BY <2>1, <2>2, <2>3, <2>4 DEF TypeOK
  <2>6. NoRepetition'
    BY <2>2, <2>3, <2>4 DEF NoRepetition, TypeOK
  <2>7. \A g \in Flows : Place(g)'
    <3> TAKE g \in Flows
    <3>1. CASE g = h
      <4>1. InHand(g)'
        BY <2>3, <3>1 DEF InHand, TypeOK
      <4>2. QED
        BY <2>1, <2>2, <2>3, <2>4, <3>1, <4>1 DEF Place, Queued, Waits, TypeOK
    <3>2. CASE g # h
      <4>1. InHand(g)' = InHand(g)
        BY <2>3, <3>2 DEF InHand, TypeOK
      <4>2. QED
        BY <2>1, <2>2, <2>3, <2>4, <3>2, <4>1 DEF Place, Queued, Waits, TypeOK
    <3>3. QED
      BY <3>1, <3>2
  <2>8. Before' /\ During' /\ After' /\ Closing'
    BY <2>2, <2>3 DEF Before, During, After, Closing, SubmittersLeft, Submitters, TypeOK,
                      WorkersGone
  <2>9. Counted' = Counted
    BY <2>2, <2>3 DEF Counted, TypeOK
  <2>10. QED
    BY <2>5, <2>6, <2>7, <2>8, <2>9, CountStands
<1>3. CASE Process(w)
  <2> USE <1>3 DEF Process
  <2> DEFINE j == job[w]
  <2>1. PICK outcome \in {"recorded", "failed"} : fate' = [fate EXCEPT ![j] = outcome]
    OBVIOUS
  <2>2. /\ j \in Flows /\ job' = [job EXCEPT ![w] = NoFlow]
        /\ fate[j] = "none" /\ pc[j] \in {"sent", "done"} /\ ~Queued(j)
        /\ \A v \in Workers \ {w} : job[v] # j
    BY DEF TypeOK, Place, InHand, NoRepetition
  <2> HIDE DEF j
  <2>3. TypeOK'
    BY <2>1, <2>2 DEF TypeOK
  <2>4. NoRepetition'
    BY <2>2 DEF NoRepetition, TypeOK
  <2>5. \A g \in Flows : Place(g)'
    <3> TAKE g \in Flows
    <3>1. CASE g = j
      <4>1. ~InHand(g)'
        BY <2>2, <3>1 DEF InHand, TypeOK
      <4>2. QED
        BY <2>1, <2>2, <3>1, <4>1 DEF Place, Queued, Waits, TypeOK
    <3>2. CASE g # j
      <4>1. InHand(g)' = InHand(g)
        BY <2>2, <3>2 DEF InHand, TypeOK, j
      <4>2. QED
        BY <2>1, <2>2, <3>2, <4>1 DEF Place, Queued, Waits, TypeOK
    <3>3. QED
      BY <3>1, <3>2
  <2>6. Before' /\ During' /\ After' /\ Closing'
    BY <2>1, <2>2 DEF Before, During, After, Closing, SubmittersLeft, Submitters, TypeOK,
                      WorkersGone
  <2>7. Counted' = Counted
    BY <2>1, <2>2 DEF Counted, TypeOK
  <2>8. QED
    BY <2>3, <2>4, <2>5, <2>6, <2>7, CountStands
<1>4. CASE Exit(w)
  <2> USE <1>4 DEF Exit
  <2>1. TypeOK'
    BY DEF TypeOK
  <2>2. NoRepetition'
    BY DEF NoRepetition
  <2>3. \A g \in Flows : Place(g)'
    BY DEF Place, Queued, Waits, InHand
  <2>4. Before' /\ During' /\ After' /\ Closing'
    BY DEF Before, During, After, Closing, SubmittersLeft, Submitters, TypeOK, WorkersGone
  <2>5. Counted' = Counted
    BY DEF Counted
  <2>6. QED
    BY <2>1, <2>2, <2>3, <2>4, <2>5, CountStands
<1>5. QED
  BY <1>1, <1>2, <1>3, <1>4 DEF WorkerStep, Take

(* The steps of Close keep it.                                             *)
LEMMA ClosersStep ==
    ASSUME RecorderInv, NEW c \in Closers, CloseStep(c)
    PROVE  RecorderInv'
<1> USE DEF RecorderInv, submission
<1>1. TypeOK'
  BY DEF TypeOK, CloseStep, BeginClose, CloseQueue, CloseDrained, CloseTimeout
<1>2. /\ UNCHANGED <<queue, sendq, pc, fate, dropped, worker, job>>
      /\ channel' = "none" <=> channel = "none"
  <2>1. CASE BeginClose(c)
    BY <2>1 DEF BeginClose
  <2>2. CASE CloseQueue(c)
    BY <2>2 DEF CloseQueue
  <2>3. CASE CloseDrained(c)
    BY <2>3 DEF CloseDrained
  <2>4. CASE CloseTimeout(c)
    BY <2>4 DEF CloseTimeout
  <2>5. QED
    BY <2>1, <2>2, <2>3, <2>4 DEF CloseStep
<1>3. NoRepetition' /\ \A f \in Flows : Place(f)'
  BY <1>2 DEF NoRepetition, Place, Queued, Waits, InHand
<1>4. Before'
  BY <1>2 DEF Before
<1>5. Count'
  BY <1>2, CountStands DEF Counted
<1>6. During' /\ After' /\ Closing'
  <2> USE <1>2
  <2>1. CASE BeginClose(c)
    BY <2>1 DEF BeginClose, During, After, Closing, SubmittersLeft, Submitters, TypeOK,
                WorkersGone
  <2>2. CASE CloseQueue(c)
    BY <2>2 DEF CloseQueue, SubmittersGone, During, After, Closing, SubmittersLeft,
                Submitters, TypeOK, WorkersGone
  <2>3. CASE CloseDrained(c)
    BY <2>3 DEF CloseDrained, During, After, Closing, SubmittersLeft, Submitters, TypeOK,
                WorkersGone
  <2>4. CASE CloseTimeout(c)
    BY <2>4 DEF CloseTimeout, During, After, Closing, SubmittersLeft, Submitters, TypeOK,
                WorkersGone
  <2>5. QED
    BY <2>1, <2>2, <2>3, <2>4 DEF CloseStep
<1>7. QED
  BY <1>1, <1>3, <1>4, <1>5, <1>6

(* The invariant is inductive.                                             *)
LEMMA RecorderStep == RecorderInv /\ [Next]_vars => RecorderInv'
<1> SUFFICES ASSUME RecorderInv, [Next]_vars
             PROVE  RecorderInv'
  OBVIOUS
<1>1. CASE UNCHANGED vars
  BY <1>1 DEF vars, RecorderInv, TypeOK, NoRepetition, Place, Queued, Waits, InHand,
              Before,
              During, After, SubmittersLeft, Submitters, Closing, WorkersGone, Count, Counted
<1>2. QED
  BY <1>1, SubmitterStep, WorkersStep, ClosersStep DEF Next

(* The invariant holds in every reachable state of the recorder.           *)
THEOREM RecorderInvariant == Spec => []RecorderInv
BY RecorderInit, RecorderStep, PTL DEF Spec

-----------------------------------------------------------------------------
(* No submitter sends on a closed channel.                                 *)
LEMMA RecorderInvNoSend == RecorderInv => NoSendOnClosed
BY DEF RecorderInv, After, Submitters, NoSendOnClosed

(* Close never closes the queue under a goroutine that is about to send to *)
(* it or waits for capacity (transport.go:217-222).                        *)
THEOREM SendersSafe == Spec => []NoSendOnClosed
BY RecorderInvariant, RecorderInvNoSend, PTL

(* The number of positions of a function without repetition at which it    *)
(* has some value.                                                         *)
LEMMA OccursOnce ==
    ASSUME NEW D, NEW F, NEW x, \A a, b \in D : F[a] = x /\ F[b] = x => a = b
    PROVE  Cardinality({a \in D : F[a] = x}) = IF \E a \in D : F[a] = x THEN 1 ELSE 0
<1>1. CASE \E a \in D : F[a] = x
  <2>1. PICK a \in D : F[a] = x
    BY <1>1
  <2>2. {b \in D : F[b] = x} = {a}
    BY <2>1
  <2>3. QED
    BY <1>1, <2>2, FS_Singleton
<1>2. CASE ~\E a \in D : F[a] = x
  <2>1. {a \in D : F[a] = x} = {}
    BY <1>2
  <2>2. QED
    BY <1>2, <2>1, FS_EmptySet
<1>3. QED
  BY <1>1, <1>2

(* Every flow is accounted for exactly once.                               *)
LEMMA RecorderInvAccounted == RecorderInv => AccountedOnce
<1> SUFFICES ASSUME RecorderInv, NEW f \in Flows PROVE Places(f) = 1
  BY DEF RecorderInv, AccountedOnce
<1>1. Cardinality({i \in DOMAIN queue : queue[i] = f}) = IF Queued(f) THEN 1 ELSE 0
  <2> DEFINE D == DOMAIN queue
  <2>1. \A i, j \in D : queue[i] = f /\ queue[j] = f => i = j
    BY DEF RecorderInv, NoRepetition, IsInjective
  <2>2. Queued(f) <=> \E i \in D : queue[i] = f
    BY DEF Queued, ToSet
  <2> HIDE DEF D
  <2>3. Cardinality({i \in D : queue[i] = f})
           = IF \E i \in D : queue[i] = f THEN 1 ELSE 0
    BY <2>1, OccursOnce
  <2>4. QED
    BY <2>2, <2>3 DEF D
<1>2. Cardinality({i \in DOMAIN sendq : sendq[i] = f}) = IF Waits(f) THEN 1 ELSE 0
  <2> DEFINE D == DOMAIN sendq
  <2>1. \A i, j \in D : sendq[i] = f /\ sendq[j] = f => i = j
    BY DEF RecorderInv, NoRepetition, IsInjective
  <2>2. Waits(f) <=> \E i \in D : sendq[i] = f
    BY DEF Waits, ToSet
  <2> HIDE DEF D
  <2>3. Cardinality({i \in D : sendq[i] = f})
           = IF \E i \in D : sendq[i] = f THEN 1 ELSE 0
    BY <2>1, OccursOnce
  <2>4. QED
    BY <2>2, <2>3 DEF D
<1>3. Cardinality({w \in Workers : job[w] = f}) = IF InHand(f) THEN 1 ELSE 0
  <2>1. \A v, w \in Workers : job[v] = f /\ job[w] = f => v = w
    BY DEF RecorderInv, NoRepetition
  <2>2. QED
    BY <2>1, OccursOnce DEF InHand
<1>4. /\ Place(f)
      /\ pc[f] \in {"serving", "sending", "blocked", "full", "sent", "done"}
  BY DEF RecorderInv, TypeOK
<1>5. QED
  BY <1>1, <1>2, <1>3, <1>4 DEF Place, Places

(* No flow is lost uncounted or delivered twice, also when the timer of a  *)
(* denied record fires (proxy.go:458-465); the state keeps its types.      *)
THEOREM Accounted == Spec => []AccountedOnce
BY RecorderInvariant, RecorderInvAccounted, PTL

(* The count of drops that Close reports is final.                         *)
LEMMA RecorderInvDrops == RecorderInv => DropsReported
<1> SUFFICES ASSUME RecorderInv, first # NoCloser, closer[first] \in {"waitWorkers", "done"}
             PROVE  reported = Cardinality({f \in Flows : fate[f] = "dropped"})
  BY DEF DropsReported
<1>1. SubmittersLeft
  BY DEF RecorderInv, TypeOK, Closing, SubmittersLeft
<1>2. {f \in Flows : fate[f] = "dropped"} = Counted
  BY <1>1 DEF RecorderInv, After, Submitters, Counted
<1>3. QED
  BY <1>1, <1>2 DEF RecorderInv, After, Count

(* The drops that the first closer logs are all there will ever be         *)
(* (transport.go:223-230).                                                 *)
THEOREM DropsFinal == Spec => []DropsReported
BY RecorderInvariant, RecorderInvDrops, PTL

-----------------------------------------------------------------------------
(* The recorder implements FlowSink.                                       *)

(* What the abstract variables are.                                        *)
SinkFate == [f \in Flows |-> IF fate[f] # "none" THEN fate[f]
                             ELSE IF pc[f] = "serving" THEN "new"
                             ELSE "accepted"]
Drained  == \E c \in Closers : result[c] = "nil"

(* When Close has returned nil no flow is on its way to the store.         *)
LEMMA DrainedIsEmpty ==
    ASSUME RecorderInv, closed, WorkersGone, NEW f \in Flows, fate[f] = "none"
    PROVE  pc[f] = "serving"
<1> USE DEF RecorderInv
<1>1. CASE channel = "none"
  <2>1. ~Queued(f) /\ ~InHand(f) /\ pc[f] \in {"serving", "done"}
    BY <1>1 DEF Before, Queued, InHand, ToSet, TypeOK
  <2>2. QED
    BY <2>1 DEF Place
<1>2. CASE channel # "none"
  <2>1. PICK w \in Workers : worker[w] = "exited"
    BY <1>2 DEF During, WorkersGone, TypeOK
  <2>2. /\ channel = "closed" /\ queue = <<>>
        /\ \A v \in Workers : job[v] = NoFlow
    BY <2>1 DEF During, WorkersGone
  <2>3. ~Queued(f) /\ ~InHand(f)
    BY <2>2 DEF Queued, InHand, ToSet
  <2>4. pc[f] \in {"serving", "done"}
    BY <2>2 DEF After, Submitters, TypeOK
  <2>5. QED
    BY <2>3, <2>4 DEF Place
<1>3. QED
  BY <1>1, <1>2

(* Initial states map to initial states ...                                *)
LEMMA SinkInit == Init => Sink!Init
BY DEF Init, Sink!Init

(* ... and every step to a step of FlowSink or to a stutter.               *)
LEMMA SinkStep == RecorderInv /\ [Next]_vars => [Sink!Next]_(Sink!vars)
<1> SUFFICES ASSUME RecorderInv, [Next]_vars
             PROVE  Sink!Next \/ UNCHANGED <<SinkFate, closed, Drained>>
  BY DEF Sink!vars, SinkFate, Drained
<1> USE DEF RecorderInv
<1>1. ASSUME Drained, NEW f \in Flows, fate[f] = "none"
      PROVE  pc[f] = "serving"
  BY <1>1, DrainedIsEmpty DEF Drained, Closing
<1>2. ASSUME NEW f \in Flows, NEW to \in {"dropped", "recorded", "failed"},
             fate[f] = "none", pc[f] # "serving",
             fate' = [fate EXCEPT ![f] = to], pc'[f] # "serving",
             \A g \in Flows \ {f} : pc'[g] = pc[g],
             UNCHANGED <<closed, result>>
      PROVE  Sink!Settle(f)
  <2>1. ~Drained
    BY <1>1, <1>2
  <2>2. SinkFate[f] = "accepted" /\ SinkFate' = [SinkFate EXCEPT ![f] = to]
    BY <1>2 DEF SinkFate, TypeOK
  <2>3. QED
    BY <1>2, <2>1, <2>2 DEF Sink!Settle, Sink!Become, SinkFate, Drained
<1>3. ASSUME NEW f \in Flows, SubmitStep(f)
      PROVE  Sink!Next \/ UNCHANGED <<SinkFate, closed, Drained>>
  <2>1. Place(f) /\ Drained' = Drained /\ closed' = closed /\ result' = result
    BY <1>3 DEF SubmitStep, Refuse, Submit, Send, Block, Drop, DeniedTimeout, CountDrop,
                Leave,
                closing, Drained
  <2>2. CASE Refuse(f)
    <3>1. SinkFate[f] = "new" /\ SinkFate' = [SinkFate EXCEPT ![f] = "refused"]
      BY <2>1, <2>2 DEF Refuse, SinkFate, Place, TypeOK
    <3>2. Sink!Refuse(f)
      BY <2>1, <2>2, <3>1 DEF Refuse, Sink!Refuse, Sink!Become, SinkFate, Drained
    <3>3. QED
      BY <3>2 DEF Sink!Next
  <2>3. CASE Submit(f)
    <3>1. SinkFate[f] = "new" /\ SinkFate' = [SinkFate EXCEPT ![f] = "accepted"]
      BY <2>1, <2>3 DEF Submit, SinkFate, Place, TypeOK
    <3>2. Sink!Accept(f)
      BY <2>1, <2>3, <3>1 DEF Submit, Sink!Accept, Sink!Become, SinkFate, Drained
    <3>3. QED
      BY <3>2 DEF Sink!Next
  <2>4. CASE Drop(f)
    <3>1. Sink!Settle(f)
      BY <1>2, <2>1, <2>4 DEF Drop, Place, TypeOK
    <3>2. QED
      BY <3>1 DEF Sink!Next
  <2>5. CASE DeniedTimeout(f)
    <3>1. Sink!Settle(f)
      BY <1>2, <2>1, <2>5 DEF DeniedTimeout, Place, TypeOK
    <3>2. QED
      BY <3>1 DEF Sink!Next
  <2>6. CASE Send(f) \/ Block(f) \/ CountDrop(f) \/ Leave(f)
    <3>1. SinkFate' = SinkFate
      BY <2>6 DEF Send, Block, CountDrop, Leave, SinkFate, TypeOK
    <3>2. QED
      BY <2>1, <3>1
  <2>7. QED
    BY <1>3, <2>2, <2>3, <2>4, <2>5, <2>6 DEF SubmitStep
<1>4. ASSUME NEW w \in Workers, WorkerStep(w)
      PROVE  Sink!Next \/ UNCHANGED <<SinkFate, closed, Drained>>
  <2>1. Drained' = Drained /\ closed' = closed /\ result' = result
    BY <1>4 DEF WorkerStep, Take, Process, Exit, closing, Drained
  <2>2. CASE Take(w)
    <3>1. /\ fate' = fate
          /\ \/ pc' = pc
             \/ /\ Head(sendq) \in Flows /\ Waits(Head(sendq))
                /\ pc' = [pc EXCEPT ![Head(sendq)] = "sent"]
      BY <2>2, TakeOldest DEF Take, TypeOK, NoRepetition, Waits
    <3>2. SinkFate' = SinkFate
      BY <3>1 DEF SinkFate, TypeOK, Place
    <3>3. QED
      BY <2>1, <3>2
  <2>3. CASE Process(w)
    <3>1. PICK outcome \in {"recorded", "failed"} :
             fate' = [fate EXCEPT ![job[w]] = outcome]
      BY <2>3 DEF Process
    <3>2. /\ job[w] \in Flows /\ fate[job[w]] = "none" /\ pc[job[w]] \in {"sent", "done"}
          /\ pc' = pc
      BY <2>3 DEF Process, TypeOK, Place, InHand, submission
    <3>3. Sink!Settle(job[w])
      BY <1>2, <2>1, <3>1, <3>2
    <3>4. QED
      BY <3>2, <3>3 DEF Sink!Next
  <2>4. CASE Exit(w)
    BY <2>1, <2>4 DEF Exit, submission, SinkFate
  <2>5. QED
    BY <1>4, <2>2, <2>3, <2>4 DEF WorkerStep
<1>5. ASSUME NEW c \in Closers, CloseStep(c)
      PROVE  Sink!Next \/ UNCHANGED <<SinkFate, closed, Drained>>
  <2>1. SinkFate' = SinkFate
    <3>1. fate' = fate /\ pc' = pc
      BY <1>5 DEF CloseStep, BeginClose, CloseQueue, CloseDrained, CloseTimeout,
                  submission
    <3>2. QED
      BY <3>1 DEF SinkFate
  <2>2. CASE BeginClose(c)
    <3>1. Drained' = Drained
      BY <2>2 DEF BeginClose, Drained
    <3>2. CASE closed
      BY <2>1, <2>2, <3>1, <3>2 DEF BeginClose
    <3>3. CASE ~closed
      <4>1. Sink!Close
        BY <2>1, <2>2, <3>1, <3>3 DEF BeginClose, Sink!Close, SinkFate, Drained
      <4>2. QED
        BY <4>1 DEF Sink!Next
    <3>4. QED
      BY <3>2, <3>3
  <2>3. CASE CloseQueue(c)
    BY <2>1, <2>3 DEF CloseQueue, Drained
  <2>4. CASE CloseDrained(c)
    <3>1. closed /\ closed' = closed /\ Drained'
      BY <2>4 DEF CloseDrained, Closing, Drained, TypeOK
    <3>2. \A f \in Flows : SinkFate[f] # "accepted"
      BY <2>4, <3>1, DrainedIsEmpty DEF CloseDrained, SinkFate, TypeOK
    <3>3. Sink!Drain
      BY <2>1, <3>1, <3>2 DEF Sink!Drain, SinkFate, Drained
    <3>4. QED
      BY <3>3 DEF Sink!Next
  <2>5. CASE CloseTimeout(c)
    <3>1. Drained' = Drained
      BY <2>5 DEF CloseTimeout, Closing, Drained, TypeOK
    <3>2. QED
      BY <2>1, <2>5, <3>1 DEF CloseTimeout
  <2>6. QED
    BY <1>5, <2>2, <2>3, <2>4, <2>5 DEF CloseStep
<1>6. CASE UNCHANGED vars
  BY <1>6 DEF vars, SinkFate, Drained
<1>7. QED
  BY <1>3, <1>4, <1>5, <1>6 DEF Next

(* Every behaviour of the recorder is one that FlowSink promises.          *)
THEOREM ImplementsSink == Spec => ImplementsFlowSink
<1>1. Spec => []RecorderInv
  BY RecorderInvariant
<1>2. QED
  BY <1>1, SinkInit, SinkStep, PTL DEF Spec, ImplementsFlowSink, Sink!Spec

-----------------------------------------------------------------------------
(* The process around the recorder.                                        *)

Stages   == Starting \cup {"serving", "stopping", "unwinding", "exited"}
Leaving  == stage \in {"unwinding", "exited"}
AllOpen  == <<"handler", "store", "audit">>

(* What runServe has deferred, by the stage it is at.                      *)
Stack ==
    /\ stage \in {"config", "audit", "exited"} => defers = <<>>
    /\ stage \in {"brokers", "store"} => defers = <<"audit">>
    /\ stage = "handler" => defers = <<"store", "audit">>
    /\ stage \in {"console", "serving", "stopping"} => defers = AllOpen
    /\ defers \in {<<>>, <<"audit">>, <<"store", "audit">>, AllOpen}

(* The recorder is used only by a daemon that has served, and closed only  *)
(* by one that leaves; its resources are closed after its Close.           *)
Order ==
    /\ shutdown # "none" => Leaving
    /\ shutdown = "none" /\ stage \notin {"serving", "stopping"} => channel = "none"
    /\ Leaving /\ shutdown # "none" /\ defers # AllOpen => closer[Main] = "done"
    /\ closed => Leaving

(* After a graceful shutdown the plain requests have returned.             *)
Graceful ==
    /\ arrived \subseteq Flows \ Hijacked
    /\ shutdown = "graceful" => \A f \in arrived : pc[f] = "done"

DaemonInv ==
    /\ RecorderInv
    /\ stage \in Stages
    /\ Stack /\ Order /\ Graceful
    /\ PlainRecordsKept

USE DaemonAssumption

(* The invariant of the daemon holds at its start.                         *)
LEMMA DaemonInit == StartInit => DaemonInv
<1> SUFFICES ASSUME StartInit PROVE DaemonInv
  OBVIOUS
<1>1. RecorderInv
  BY RecorderInit DEF StartInit
<1>2. QED
  BY <1>1 DEF StartInit, Init, DaemonInv, Stages, Starting, Following, Stack, Order,
              Graceful,
              PlainRecordsKept, Leaving

(* Every step of the daemon is one of the recorder, or leaves it alone.    *)
(* The invariant of the daemon is inductive.                               *)
LEMMA DaemonStepsRecorder == DaemonNext => [Next]_vars
BY DEF DaemonNext, Run, Start, FailStart, Stop, Shutdown, CloseHandler, CloseNext,
       ExitProcess,
       Arrive, Submitting, Recording, Working, Next, WorkerStep

(* The daemon runs the recorder as FlowRecorder says, whatever stage it is *)
(* at.                                                                     *)
THEOREM DaemonImplementsRecorder == DaemonSpec => Spec
<1>1. StartInit => Init
  BY DEF StartInit
<1>2. [DaemonNext]_allVars => [Next]_vars
  BY DaemonStepsRecorder DEF allVars
<1>3. QED
  BY <1>1, <1>2, PTL DEF DaemonSpec, Spec

(* The stacks that deferring a Close makes, and that running one leaves.   *)
LEMMA Stacks ==
    /\ Deferred("audit") = <<"audit">> \/ defers # <<>>
    /\ Deferred("store") = <<"store", "audit">> \/ defers # <<"audit">>
    /\ Deferred("handler") = AllOpen \/ defers # <<"store", "audit">>
    /\ Tail(AllOpen) = <<"store", "audit">>
    /\ Tail(<<"store", "audit">>) = <<"audit">>
    /\ Tail(<<"audit">>) = <<>>
<1> DEFINE S == {"handler", "store", "audit"}
<1>1. <<"audit">> \o <<>> = <<"audit">>
  OBVIOUS
<1>2. <<"store">> \o <<"audit">> = <<"store", "audit">>
  <2> DEFINE s == <<"store">> \o <<"audit">>
             u == <<"store", "audit">>
  <2>1. s \in Seq(S) /\ Len(s) = 2 /\ s[1] = "store" /\ s[2] = "audit"
    BY ConcatProperties
  <2>2. u \in Seq(S) /\ Len(u) = 2 /\ u[1] = "store" /\ u[2] = "audit"
    OBVIOUS
  <2> HIDE DEF s, u, S
  <2>3. \A i \in 1..Len(s) : s[i] = u[i]
    BY <2>1, <2>2
  <2>4. QED
    BY <2>1, <2>2, <2>3, SeqEqual DEF s, u
<1>3. <<"handler">> \o <<"store", "audit">> = AllOpen
  <2> DEFINE s == <<"handler">> \o <<"store", "audit">>
             u == <<"handler", "store", "audit">>
  <2>1. s \in Seq(S) /\ Len(s) = 3 /\ s[1] = "handler" /\ s[2] = "store" /\ s[3] = "audit"
    BY ConcatProperties
  <2>2. u \in Seq(S) /\ Len(u) = 3 /\ u[1] = "handler" /\ u[2] = "store" /\ u[3] = "audit"
    OBVIOUS
  <2> HIDE DEF s, u, S
  <2>3. \A i \in 1..Len(s) : s[i] = u[i]
    BY <2>1, <2>2
  <2>4. QED
    BY <2>1, <2>2, <2>3, SeqEqual DEF s, u, AllOpen
<1>4. Tail(AllOpen) = <<"store", "audit">>
  <2> DEFINE s == <<"handler", "store", "audit">>
             t == Tail(s)
             u == <<"store", "audit">>
  <2>1. s \in Seq(S) /\ s # <<>>
    OBVIOUS
  <2>2. t \in Seq(S) /\ Len(t) = 2 /\ t[1] = "store" /\ t[2] = "audit"
    BY <2>1, HeadTailProperties
  <2>3. u \in Seq(S) /\ Len(u) = 2 /\ u[1] = "store" /\ u[2] = "audit"
    OBVIOUS
  <2> HIDE DEF t, u, S
  <2>4. \A i \in 1..Len(t) : t[i] = u[i]
    BY <2>2, <2>3
  <2>5. QED
    BY <2>2, <2>3, <2>4, SeqEqual DEF t, u, AllOpen
<1>5. Tail(<<"store", "audit">>) = <<"audit">> /\ Tail(<<"audit">>) = <<>>
  OBVIOUS
<1>6. QED
  BY <1>1, <1>2, <1>3, <1>4, <1>5 DEF Deferred

(* A step of the daemon that leaves the recorder alone.                    *)
LEMMA LifecycleKeeps ==
    ASSUME DaemonInv, RecorderInv', UNCHANGED vars,
           Start \/ FailStart \/ Stop \/ Shutdown \/ CloseNext \/ ExitProcess
    PROVE  DaemonInv'
<1> USE DEF DaemonInv
<1>1. CASE Start
  <2>1. stage' \in Stages /\ ~Leaving /\ ~Leaving'
    BY <1>1 DEF Start, Starting, Following, Stages, Leaving
  <2>2. Stack'
    <3>1. CASE stage = "config"
      BY <1>1, <3>1 DEF Start, Starting, Following, Opens, Stack
    <3>2. CASE stage = "audit"
      BY <1>1, <3>2, Stacks DEF Start, Starting, Following, Opens, Stack
    <3>3. CASE stage = "brokers"
      BY <1>1, <3>3 DEF Start, Starting, Following, Opens, Stack
    <3>4. CASE stage = "store"
      BY <1>1, <3>4, Stacks DEF Start, Starting, Following, Opens, Stack
    <3>5. CASE stage = "handler"
      BY <1>1, <3>5, Stacks DEF Start, Starting, Following, Opens, Stack
    <3>6. CASE stage = "console"
      BY <1>1, <3>6 DEF Start, Starting, Following, Opens, Stack
    <3>7. QED
      BY <1>1, <3>1, <3>2, <3>3, <3>4, <3>5, <3>6 DEF Start, Starting, Following
  <2>3. Order'
    BY <1>1, <2>1 DEF Start, Order, vars, Starting, Following
  <2>4. Graceful' /\ PlainRecordsKept'
    BY <1>1 DEF Start, Graceful, PlainRecordsKept, vars
  <2>5. QED
    BY <2>1, <2>2, <2>3, <2>4
<1>2. CASE FailStart
  <2>1. Order'
    BY <1>2 DEF FailStart, Order, Leaving, vars, Starting, Following
  <2>2. Stack'
    BY <1>2 DEF FailStart, Stack, Starting, Following
  <2>3. QED
    BY <1>2, <2>1, <2>2 DEF FailStart, Graceful, PlainRecordsKept, vars, Stages
<1>3. CASE Stop
  BY <1>3 DEF Stop, Stack, Order, Leaving, Graceful, PlainRecordsKept, vars, Stages
<1>4. CASE Shutdown
  <2>1. shutdown' \in {"expired", "graceful"} /\ (shutdown' = "graceful" => PlainIdle)
    BY <1>4 DEF Shutdown
  <2>2. Order' /\ Stack' /\ stage' \in Stages
    BY <1>4, <2>1 DEF Shutdown, Order, Stack, Leaving, vars, Stages
  <2>3. Graceful'
    BY <1>4, <2>1 DEF Shutdown, Graceful, PlainIdle, vars
  <2>4. PlainRecordsKept'
    BY <1>4 DEF Shutdown, PlainRecordsKept, RecorderInv, Closing, Order, Leaving, vars
  <2>5. QED
    BY <2>2, <2>3, <2>4
<1>5. CASE CloseNext
  <2>1. defers' \in {<<>>, <<"audit">>, <<"store", "audit">>}
    BY <1>5, Stacks DEF CloseNext, Stack
  <2>2. defers = AllOpen => closer[Main] = "done"
    BY <1>5 DEF CloseNext, Closed, AllOpen
  <2>3. Stack' /\ Order'
    BY <1>5, <2>1, <2>2 DEF CloseNext, Stack, Order, Leaving, vars, Starting, Following
  <2>4. QED
    BY <1>5, <2>3 DEF CloseNext, Graceful, PlainRecordsKept, vars
<1>6. CASE ExitProcess
  BY <1>6 DEF ExitProcess, Stack, Order, Leaving, Graceful, PlainRecordsKept, vars, Stages
<1>7. QED
  BY <1>1, <1>2, <1>3, <1>4, <1>5, <1>6

LEMMA DaemonStep == DaemonInv /\ [DaemonNext]_allVars => DaemonInv'
<1> SUFFICES ASSUME DaemonInv, [DaemonNext]_allVars
             PROVE  DaemonInv'
  OBVIOUS
<1> USE DEF DaemonInv
<1>1. RecorderInv'
  BY RecorderStep, DaemonStepsRecorder DEF allVars
<1>2. CASE UNCHANGED allVars
  BY <1>1, <1>2 DEF allVars, vars, lifecycle, Stack, Order, Leaving, Graceful,
                    PlainRecordsKept
<1>3. CASE Start \/ FailStart \/ Stop \/ Shutdown \/ CloseNext \/ ExitProcess
  <2>1. UNCHANGED vars
    BY <1>3 DEF Start, FailStart, Stop, Shutdown, CloseNext, ExitProcess
  <2>2. QED
    BY <1>1, <1>3, <2>1, LifecycleKeeps
<1>4. CASE CloseHandler
  <2>1. /\ stage = "unwinding" /\ defers = AllOpen
        /\ UNCHANGED <<stage, defers, arrived, shutdown, pc, fate>>
        /\ channel = "none" => channel' = "none"
        /\ CloseStep(Main)
    BY <1>4 DEF CloseHandler, lifecycle, Stack, AllOpen, CloseStep, BeginClose,
                CloseQueue,
                CloseDrained, CloseTimeout, submission
  <2>2. Stack' /\ Order'
    BY <2>1 DEF Stack, Order, Leaving
  <2>3. QED
    BY <1>1, <2>1, <2>2 DEF Graceful, PlainRecordsKept
<1>5. ASSUME NEW f \in Flows, Arrive(f)
      PROVE  DaemonInv'
  BY <1>1, <1>5 DEF Arrive, vars, Stack, Order, Leaving, Graceful, PlainRecordsKept
<1>6. ASSUME NEW f \in Flows, Submitting(f)
      PROVE  DaemonInv'
  <2>1. /\ UNCHANGED <<stage, defers, arrived, shutdown, closed, closer>>
        /\ stage \in {"serving", "stopping"} \/ shutdown # "none"
        /\ f \in arrived \cup Hijacked
    BY <1>6 DEF Submitting, Alive, lifecycle, SubmitStep, Refuse, Submit, Send, Block,
                Drop,
                DeniedTimeout, CountDrop, Leave, closing
  <2>2. Stack' /\ Order'
    BY <2>1 DEF Stack, Order, Leaving
  <2>3. /\ pc[f] # "done"
        /\ \A g \in Flows \ {f} : pc'[g] = pc[g] /\ fate'[g] = fate[g]
    BY <1>6 DEF Submitting, SubmitStep, Refuse, Submit, Send, Block, Drop,
                DeniedTimeout, CountDrop, Leave, RecorderInv, TypeOK
  <2>4. Graceful' /\ PlainRecordsKept'
    BY <2>1, <2>3 DEF Graceful, PlainRecordsKept
  <2>5. QED
    BY <1>1, <2>1, <2>2, <2>4
<1>7. ASSUME NEW w \in Workers, Recording(w) \/ Working(w)
      PROVE  DaemonInv'
  <2>1. /\ UNCHANGED <<stage, defers, arrived, shutdown, closed, closer, channel>>
        /\ \A f \in Flows : fate'[f] = "refused" => fate[f] = "refused"
        /\ \A f \in Flows : pc[f] = "done" => pc'[f] = "done"
    <3>1. CASE Process(w)
      <4>1. PICK outcome \in {"recorded", "failed"} :
               fate' = [fate EXCEPT ![job[w]] = outcome]
        BY <3>1 DEF Process
      <4>2. QED
        BY <1>7, <3>1, <4>1 DEF Process, Recording, Working, lifecycle, closing,
                                submission,
                                RecorderInv, TypeOK
    <3>2. CASE Take(w)
      <4>1. sendq # <<>> => Head(sendq) \in Flows /\ pc[Head(sendq)] = "blocked"
        BY TakeOldest DEF RecorderInv, TypeOK, NoRepetition, Place, Waits
      <4>2. QED
        BY <1>7, <3>2, <4>1 DEF Take, Recording, Working, lifecycle, closing, RecorderInv,
                                TypeOK
    <3>3. CASE Exit(w)
      BY <1>7, <3>3 DEF Exit, Recording, Working, lifecycle, closing, submission
    <3>4. QED
      BY <1>7, <3>1, <3>2, <3>3 DEF Recording, Working
  <2>2. Stack' /\ Order'
    BY <2>1 DEF Stack, Order, Leaving
  <2>3. Graceful' /\ PlainRecordsKept'
    BY <2>1 DEF Graceful, PlainRecordsKept
  <2>4. QED
    BY <1>1, <2>1, <2>2, <2>3
<1>8. QED
  BY <1>2, <1>3, <1>4, <1>5, <1>6, <1>7 DEF DaemonNext, Run

(* It holds from the start to the exit of the process.                     *)
THEOREM DaemonInvariant == DaemonSpec => []DaemonInv
BY DaemonInit, DaemonStep, PTL DEF DaemonSpec

(* A graceful shutdown discards the records of hijacked connections only.  *)
THEOREM PlainKept == DaemonSpec => []PlainRecordsKept
<1>1. DaemonInv => PlainRecordsKept
  BY DEF DaemonInv
<1>2. QED
  BY <1>1, DaemonInvariant, PTL

(* The store and the audit sink are open for as long as a worker has a     *)
(* flow, unless Close gave up waiting for it.                              *)
LEMMA DaemonInvSinks == DaemonInv => SinksOutlive
<1> SUFFICES ASSUME DaemonInv, NEW w \in Workers, job[w] # NoFlow, result[Main] # "timeout"
             PROVE  IsOpen("store") /\ IsOpen("audit")
  BY DEF SinksOutlive
<1> USE DEF DaemonInv, RecorderInv
<1>1. worker[w] = "running" /\ channel # "none"
  BY DEF During, Before
<1>2. result[Main] = "none"
  BY <1>1 DEF Closing, WorkersGone, TypeOK
<1>3. closer[Main] # "done"
  BY <1>2 DEF Closing
<1>4. defers = AllOpen
  BY <1>1, <1>3 DEF Order, Stack, Leaving
<1>5. DOMAIN defers = 1..3 /\ defers[2] = "store" /\ defers[3] = "audit"
  BY <1>4 DEF AllOpen
<1>6. QED
  BY <1>5 DEF IsOpen

(* No record of an accepted flow is written to a closed store or audit     *)
(* sink, in any order of failed starts, signals and sessions that outlive  *)
(* the servers (main.go:278, 338, 370).                                    *)
THEOREM SinksOpen == DaemonSpec => []SinksOutlive
BY DaemonInvariant, DaemonInvSinks, PTL

(* What is proved of the recorder holds of the daemon's.                   *)
THEOREM RecorderInDaemon ==
    DaemonSpec => /\ []NoSendOnClosed
                  /\ []AccountedOnce
                  /\ []DropsReported
                  /\ ImplementsFlowSink
BY DaemonImplementsRecorder, SendersSafe, Accounted, DropsFinal,
   ImplementsSink, PTL
=============================================================================
