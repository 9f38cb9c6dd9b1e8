--------------------------- MODULE Gateway_proofs ---------------------------
(***************************************************************************)
(* Proofs about Gateway, for any policies, clients, hosts, sessions and    *)
(* requests, and any number of reloads.                                    *)
(***************************************************************************)
EXTENDS Gateway, TLAPS

USE GatewayAssumption

-----------------------------------------------------------------------------
(* Facts about handlingFor.                                                *)

Rank(how) == CASE how = "opaque"  -> 0
               [] how = "inspect" -> 1
               [] how = "full"    -> 2

(* The same policy entry without rules for a host.                         *)
WithoutRules(p, c, host) ==
    [p EXCEPT ![c] = [p[c] EXCEPT !.ruled = @ \ {host}]]

(* inspect.go:36-37: rules guarantee interception but never reduce it.     *)
(* Giving a host rules never makes its handling shallower.                 *)
THEOREM RulesNeverReduce ==
    ASSUME NEW p \in [Clients -> Entry \cup {Removed}], NEW c \in Clients,
           NEW host \in Hosts, p[c] \in Entry
    PROVE  /\ Rank(Handling(p, c, host)) >=
                  Rank(Handling(WithoutRules(p, c, host), c, host))
           /\ host \in p[c].ruled => Handling(p, c, host) # "opaque"
<1> DEFINE e == p[c]
           q == WithoutRules(p, c, host)
<1>1. /\ q[c].opaque = e.opaque /\ q[c].intercept = e.intercept
      /\ q[c].inspect = e.inspect /\ q[c].mode = e.mode
      /\ host \notin q[c].ruled
  BY DEF WithoutRules, Entry
<1>2. host \in e.ruled => Handling(p, c, host) # "opaque"
  BY DEF Handling
<1>3. Rank(Handling(p, c, host)) >= Rank(Handling(q, c, host))
  BY <1>1 DEF Handling, Rank
<1>4. QED
  BY <1>2, <1>3

(* A brokered host that is intercepted at all is mediated in full.         *)
LEMMA ScopedDepth ==
    ASSUME NEW p, NEW c, NEW host, <<c, host>> \in Scoped
    PROVE  Depth(p, c, host) = "full"
BY DEF Depth, Handling
-----------------------------------------------------------------------------
(* Type correctness.                                                       *)
StreamRecord == StreamState \ {IdleStream}
ConnRecord   == ConnState \ {IdleConn}

(* The initial state is well typed.                                        *)
LEMMA InitTypeOK == Init => TypeOK
<1> SUFFICES ASSUME Init PROVE TypeOK
  OBVIOUS
<1>1. IdleConn \in ConnState /\ IdleStream \in StreamState
  BY DEF ConnState, StreamState
<1>2. conn \in [Conns -> ConnState] /\ stream \in [Streams -> StreamState]
  BY <1>1 DEF Init
<1>3. edits \in 0..MaxEdits
  BY DEF Init
<1>4. QED
  BY <1>2, <1>3 DEF Init, TypeOK

(* The edits, signals and the steps of the reload loop keep the types.     *)
LEMMA ReloadTypeOK ==
    ASSUME TypeOK, Edit \/ Signal \/ LoadFile \/ SetPolicy
    PROVE  TypeOK'
<1>1. CASE Edit
  BY <1>1 DEF TypeOK, Edit
<1>2. CASE Signal
  BY <1>2 DEF TypeOK, Signal, Buffered
<1>3. CASE LoadFile
  BY <1>3 DEF TypeOK, LoadFile
<1>4. CASE SetPolicy
  <2>1. policy' \in Policies
    BY <1>4 DEF TypeOK, SetPolicy, Valid
  <2>2. ASSUME NEW s \in Streams, stream[s].phase \in {"arrived", "resolving"}
        PROVE  [stream[s] EXCEPT !.during = @ \cup {policy'}] \in StreamState
    <3>1. stream[s] \in StreamState \ {IdleStream}
      BY <2>2 DEF TypeOK, IdleStream
    <3>2. QED
      BY <2>1, <3>1 DEF StreamState
  <2>3. stream' \in [Streams -> StreamState]
    BY <1>4, <2>2 DEF TypeOK, SetPolicy
  <2>4. QED
    BY <1>4, <2>1, <2>3 DEF TypeOK, SetPolicy
<1>5. QED
  BY <1>1, <1>2, <1>3, <1>4

(* CONNECT and the end of a session keep the types.                        *)
LEMMA ConnTypeOK ==
    ASSUME TypeOK, NEW c \in Conns, ConnStep(c)
    PROVE  TypeOK'
<1>1. ASSUME NEW t \in Tokens, NEW host \in Hosts, Connect(c, t, host)
      PROVE  TypeOK'
  BY <1>1 DEF TypeOK, Connect, ConnState
<1>2. CASE Route(c)
  <2>1. conn[c] \in ConnState \ {IdleConn}
    BY <1>2 DEF TypeOK, Route, IdleConn
  <2>2. conn' \in [Conns -> ConnState]
    BY <1>2, <2>1 DEF TypeOK, Route, ConnState
  <2>3. QED
    BY <1>2, <2>2 DEF TypeOK, Route
<1>3. CASE Hangup(c)
  <2>1. conn[c] \in ConnState \ {IdleConn}
    BY <1>3 DEF TypeOK, Hangup, IdleConn
  <2>2. conn' \in [Conns -> ConnState]
    BY <1>3, <2>1 DEF TypeOK, Hangup, ConnState
  <2>3. QED
    BY <1>3, <2>2 DEF TypeOK, Hangup
<1>4. QED
  BY <1>1, <1>2, <1>3 DEF ConnStep

(* The steps of a request keep the types.                                  *)
LEMMA StreamTypeOK ==
    ASSUME TypeOK, NEW s \in Streams, StreamStep(s)
    PROVE  TypeOK'
<1>1. ASSUME NEW c \in Conns, NEW class \in Classes, Arrive(s, c, class)
      PROVE  TypeOK'
  <2>1. conn[c] \in ConnState \ {IdleConn}
    BY <1>1 DEF TypeOK, Arrive, IdleConn
  <2>2. stream' \in [Streams -> StreamState]
    BY <1>1, <2>1 DEF TypeOK, Arrive, ConnState, StreamState
  <2>3. QED
    BY <1>1, <2>2 DEF TypeOK, Arrive
<1>2. ASSUME NEW t \in Tokens, NEW host \in Hosts, NEW class \in Classes,
             ArrivePlain(s, t, host, class)
      PROVE  TypeOK'
  BY <1>2 DEF TypeOK, ArrivePlain, StreamState
<1>3. CASE Recheck(s)
  <2>1. stream[s] \in StreamState \ {IdleStream}
    BY <1>3 DEF TypeOK, Recheck, IdleStream
  <2>2. stream' \in [Streams -> StreamState]
    BY <1>3, <2>1 DEF TypeOK, Recheck, Current, StreamState
  <2>3. QED
    BY <1>3, <2>2 DEF TypeOK, Recheck
<1>4. CASE Forward(s)
  <2>1. stream[s] \in StreamState \ {IdleStream}
    BY <1>4 DEF TypeOK, Forward, IdleStream
  <2>2. stream' \in [Streams -> StreamState]
    BY <1>4, <2>1 DEF TypeOK, Forward, Depth, StreamState
  <2>3. QED
    BY <1>4, <2>2 DEF TypeOK, Forward
<1>5. CASE Refuse(s)
  <2>1. stream[s] \in StreamState \ {IdleStream}
    BY <1>5 DEF TypeOK, Refuse, IdleStream
  <2>2. stream' \in [Streams -> StreamState]
    BY <1>5, <2>1 DEF TypeOK, Refuse, StreamState
  <2>3. ASSUME stream[s].conn # NoConn, conn[stream[s].conn].phase = "session"
        PROVE  [conn EXCEPT ![stream[s].conn].phase = "closed"]
                   \in [Conns -> ConnState]
    <3>1. stream[s].conn \in Conns
      BY <2>1, <2>3 DEF StreamState
    <3>2. conn[stream[s].conn] \in ConnState \ {IdleConn}
      BY <2>3, <3>1 DEF TypeOK, IdleConn
    <3>3. QED
      BY <3>1, <3>2 DEF TypeOK, ConnState
  <2>4. conn' \in [Conns -> ConnState]
    BY <1>5, <2>3 DEF TypeOK, Refuse
  <2>5. QED
    BY <1>5, <2>2, <2>4 DEF TypeOK, Refuse
<1>6. CASE Complete(s)
  BY <1>6 DEF TypeOK, Complete, StreamState
<1>7. QED
  BY <1>1, <1>2, <1>3, <1>4, <1>5, <1>6 DEF StreamStep

(* Every step keeps the types.                                             *)
LEMMA TypeOKStep == TypeOK /\ [Next]_vars => TypeOK'
<1> SUFFICES ASSUME TypeOK, [Next]_vars PROVE TypeOK'
  OBVIOUS
<1>1. CASE UNCHANGED vars
  BY <1>1 DEF vars, TypeOK
<1>2. QED
  BY <1>1, ReloadTypeOK, ConnTypeOK, StreamTypeOK DEF Next

(* TypeOK holds in every reachable state: no sequence of edits, signals    *)
(* and reloads leaves the proxy without a valid policy.                    *)
THEOREM TypeCorrect == Spec => []TypeOK
BY InitTypeOK, TypeOKStep, PTL DEF Spec
-----------------------------------------------------------------------------
(* Requests.  The inductive invariant follows one request: the policy in   *)
(* force is among those of its lifetime until it is rechecked, and the     *)
(* entry it is then held to is one of them and allows it.                  *)
Permitted(s, p) ==
    /\ Allows(p, stream[s].client, stream[s].host)
    /\ RulesPermit(p, stream[s].client, stream[s].host, stream[s].class)
    /\ stream[s].conn # NoConn =>
          stream[s].depth = Depth(p, stream[s].client, stream[s].host)

StreamInv(s) ==
    /\ stream[s].phase = "arrived" => policy \in stream[s].during
    /\ stream[s].phase = "resolving" =>
          /\ stream[s].under \in stream[s].during
          /\ Allows(stream[s].under, stream[s].client, stream[s].host)
    /\ stream[s].phase = "forwarded" =>
          \E p \in stream[s].during : Permitted(s, p)

AdmissionInv == \A s \in Streams : StreamInv(s)

(* No session and no request exists at the start.                          *)
LEMMA InitAdmissionInv == Init => AdmissionInv
BY DEF Init, IdleStream, AdmissionInv, StreamInv

(* A request that a step leaves alone keeps what is said of it.            *)
LEMMA SameStream ==
    ASSUME NEW s \in Streams, StreamInv(s), stream'[s] = stream[s],
           policy' = policy
    PROVE  StreamInv(s)'
BY DEF StreamInv, Permitted

(* SetPolicy only adds to the policies a request has seen.                 *)
LEMMA SetPolicyInv ==
    ASSUME TypeOK, AdmissionInv, SetPolicy
    PROVE  AdmissionInv'
<1> SUFFICES ASSUME NEW s \in Streams PROVE StreamInv(s)'
  BY DEF AdmissionInv
<1>1. StreamInv(s)
  BY DEF AdmissionInv
<1>2. CASE stream[s].phase \in {"arrived", "resolving"}
  <2>1. stream[s] \in StreamState \ {IdleStream}
    BY <1>2 DEF TypeOK, IdleStream
  <2>2. stream'[s] = [stream[s] EXCEPT !.during = @ \cup {policy'}]
    BY <1>2 DEF SetPolicy
  <2>3. /\ stream'[s].phase = stream[s].phase
        /\ stream'[s].under = stream[s].under
        /\ stream'[s].client = stream[s].client
        /\ stream'[s].host = stream[s].host
        /\ stream'[s].during = stream[s].during \cup {policy'}
    BY <2>1, <2>2 DEF StreamState
  <2>4. QED
    BY <1>1, <1>2, <2>3 DEF StreamInv
<1>3. CASE stream[s].phase \notin {"arrived", "resolving"}
  <2>1. stream'[s] = stream[s]
    BY <1>3 DEF SetPolicy
  <2>2. QED
    BY <1>1, <1>3, <2>1 DEF StreamInv, Permitted
<1>4. QED
  BY <1>2, <1>3

(* A step of one request leaves every other request as it is.              *)
LEMMA OtherStreams ==
    ASSUME TypeOK, NEW s \in Streams, StreamStep(s)
    PROVE  policy' = policy /\ \A r \in Streams \ {s} : stream'[r] = stream[r]
BY DEF TypeOK, StreamStep, Arrive, ArrivePlain, Recheck, Forward, Refuse,
       Complete

(* A step of one request keeps the invariant of all of them.               *)
LEMMA StreamStepInv ==
    ASSUME TypeOK, NEW s \in Streams, StreamInv(s), StreamStep(s)
    PROVE  StreamInv(s)'
<1>1. ASSUME NEW c \in Conns, NEW class \in Classes, Arrive(s, c, class)
      PROVE  StreamInv(s)'
  BY <1>1 DEF TypeOK, Arrive, StreamInv
<1>2. ASSUME NEW t \in Tokens, NEW host \in Hosts, NEW class \in Classes,
             ArrivePlain(s, t, host, class)
      PROVE  StreamInv(s)'
  BY <1>2 DEF TypeOK, ArrivePlain, StreamInv
<1>3. CASE Recheck(s)
  <2>1. stream[s] \in StreamState \ {IdleStream}
    BY <1>3 DEF TypeOK, Recheck, IdleStream
  <2>2. /\ stream'[s].phase = "resolving"
        /\ stream'[s].under = policy
        /\ stream'[s].client = stream[s].client
        /\ stream'[s].host = stream[s].host
        /\ stream'[s].during = stream[s].during
    BY <1>3, <2>1 DEF TypeOK, Recheck, Current, StreamState
  <2>3. policy \in stream[s].during
    BY <1>3 DEF Recheck, StreamInv
  <2>4. Allows(policy, stream[s].client, stream[s].host)
    BY <1>3 DEF Recheck, Current
  <2>5. QED
    BY <2>2, <2>3, <2>4 DEF StreamInv
<1>4. CASE Forward(s)
  <2> DEFINE p == stream[s].under
  <2>1. stream[s] \in StreamState \ {IdleStream}
    BY <1>4 DEF TypeOK, Forward, IdleStream
  <2>2. /\ stream'[s].phase = "forwarded"
        /\ stream'[s].client = stream[s].client
        /\ stream'[s].host = stream[s].host
        /\ stream'[s].class = stream[s].class
        /\ stream'[s].conn = stream[s].conn
        /\ stream'[s].during = stream[s].during
        /\ stream[s].conn # NoConn =>
              stream'[s].depth = Depth(p, stream[s].client, stream[s].host)
    BY <1>4, <2>1 DEF TypeOK, Forward, StreamState
  <2>3. p \in stream[s].during /\ Allows(p, stream[s].client, stream[s].host)
    BY <1>4 DEF Forward, StreamInv
  <2>4. RulesPermit(p, stream[s].client, stream[s].host, stream[s].class)
    BY <1>4 DEF Forward
  <2>5. \E q \in stream'[s].during : Permitted(s, q)'
    BY <2>2, <2>3, <2>4 DEF Permitted
  <2>6. QED
    BY <2>2, <2>5 DEF StreamInv
<1>5. CASE Refuse(s)
  <2>1. stream[s] \in StreamState \ {IdleStream}
    BY <1>5 DEF TypeOK, Refuse, IdleStream
  <2>2. stream'[s].phase = "refused"
    BY <1>5, <2>1 DEF TypeOK, Refuse, StreamState
  <2>3. QED
    BY <2>2 DEF StreamInv
<1>6. CASE Complete(s)
  BY <1>6 DEF TypeOK, Complete, IdleStream, StreamInv
<1>7. QED
  BY <1>1, <1>2, <1>3, <1>4, <1>5, <1>6 DEF StreamStep

(* Every step keeps the admission invariant.                               *)
LEMMA AdmissionInvStep ==
    ASSUME TypeOK, AdmissionInv, [Next]_vars
    PROVE  AdmissionInv'
<1>1. CASE UNCHANGED <<policy, stream>>
  BY <1>1, SameStream DEF AdmissionInv
<1>2. CASE SetPolicy
  BY <1>2, SetPolicyInv
<1>3. ASSUME NEW s \in Streams, StreamStep(s)
      PROVE  AdmissionInv'
  BY <1>3, OtherStreams, StreamStepInv, SameStream DEF AdmissionInv
<1>4. Edit \/ Signal \/ LoadFile => UNCHANGED <<policy, stream>>
  BY DEF Edit, Signal, LoadFile
<1>5. ASSUME NEW c \in Conns, ConnStep(c)
      PROVE  UNCHANGED <<policy, stream>>
  BY <1>5 DEF ConnStep, Connect, Route, Hangup
<1>6. QED
  BY <1>1, <1>2, <1>3, <1>4, <1>5 DEF Next, vars

(* No reload, wherever it falls among the checks of a request, lets one    *)
(* through that no policy of its lifetime permits.                         *)
THEOREM OnePolicy == Spec => []ForwardedUnderOnePolicy
<1>1. AdmissionInv => ForwardedUnderOnePolicy
  BY DEF AdmissionInv, StreamInv, Permitted, ForwardedUnderOnePolicy
<1>2. TypeOK /\ AdmissionInv /\ [Next]_vars => AdmissionInv'
  BY AdmissionInvStep
<1>3. QED
  BY <1>1, <1>2, InitAdmissionInv, TypeCorrect, PTL DEF Spec
-----------------------------------------------------------------------------
(* Depth of mediation.                                                     *)
LEMMA BrokeredStep ==
    ASSUME TypeOK, BrokeredMediated, [Next]_vars
    PROVE  BrokeredMediated'
<1>1. CASE UNCHANGED stream
  BY <1>1 DEF BrokeredMediated
<1>2. CASE SetPolicy
  <2>1. ASSUME NEW s \in Streams, stream'[s].phase = "forwarded"
        PROVE  stream'[s] = stream[s]
    <3>1. CASE stream[s].phase \in {"arrived", "resolving"}
      <4>1. stream[s] \in StreamState \ {IdleStream}
        BY <3>1 DEF TypeOK, IdleStream
      <4>2. stream'[s] = [stream[s] EXCEPT !.during = @ \cup {policy'}]
        BY <1>2, <3>1 DEF SetPolicy
      <4>3. stream'[s].phase = stream[s].phase
        BY <4>1, <4>2 DEF StreamState
      <4>4. QED
        BY <2>1, <3>1, <4>3
    <3>2. CASE stream[s].phase \notin {"arrived", "resolving"}
      BY <1>2, <3>2 DEF SetPolicy
    <3>3. QED
      BY <3>1, <3>2
  <2>2. QED
    BY <2>1 DEF BrokeredMediated
<1>3. ASSUME NEW s \in Streams, StreamStep(s)
      PROVE  BrokeredMediated'
  <2>1. ASSUME stream'[s].phase = "forwarded",
               <<stream'[s].client, stream'[s].host>> \in Scoped
        PROVE  stream'[s].depth = "full"
    <3>1. Forward(s)
      BY <1>3, <2>1 DEF TypeOK, StreamStep, Arrive, ArrivePlain, Recheck,
                        Refuse, Complete, StreamState, IdleStream
    <3>2. stream[s] \in StreamState \ {IdleStream}
      BY <3>1 DEF TypeOK, Forward, IdleStream
    <3>3. /\ stream'[s].client = stream[s].client
          /\ stream'[s].host = stream[s].host
          /\ stream'[s].depth = "full" \/
             stream'[s].depth =
                 Depth(stream[s].under, stream[s].client, stream[s].host)
      BY <3>1, <3>2 DEF TypeOK, Forward, StreamState
    <3>4. QED
      BY <2>1, <3>3, ScopedDepth
  <2>2. \A r \in Streams \ {s} : stream'[r] = stream[r]
    BY <1>3, OtherStreams
  <2>3. QED
    BY <2>1, <2>2 DEF BrokeredMediated
<1>4. Edit \/ Signal \/ LoadFile => UNCHANGED stream
  BY DEF Edit, Signal, LoadFile
<1>5. ASSUME NEW c \in Conns, ConnStep(c)
      PROVE  UNCHANGED stream
  BY <1>5 DEF ConnStep, Connect, Route, Hangup
<1>6. QED
  BY <1>1, <1>2, <1>3, <1>4, <1>5 DEF Next, vars

(* A request for a brokered host is mediated in full, whatever policies    *)
(* come and go.                                                            *)
THEOREM Brokered == Spec => []BrokeredMediated
<1>1. Init => BrokeredMediated
  BY DEF Init, IdleStream, BrokeredMediated
<1>2. TypeOK /\ BrokeredMediated /\ [Next]_vars => BrokeredMediated'
  BY BrokeredStep
<1>3. QED
  BY <1>1, <1>2, TypeCorrect, PTL DEF Spec

(* No step opens an opaque tunnel to a host with rules under a CA.         *)
LEMMA RuledStep ==
    ASSUME HasCA, TypeOK, RuledNeverOpaque, [Next]_vars
    PROVE  RuledNeverOpaque'
<1>1. CASE UNCHANGED conn
  BY <1>1 DEF RuledNeverOpaque
<1>2. ASSUME NEW c \in Conns, ConnStep(c)
      PROVE  RuledNeverOpaque'
  <2>1. \A d \in Conns \ {c} : conn'[d] = conn[d]
    BY <1>2 DEF TypeOK, ConnStep, Connect, Route, Hangup
  <2>2. ASSUME conn'[c].phase = "tunnel"
        PROVE  conn'[c].host \notin conn'[c].under[conn'[c].client].ruled
    <3>1. Route(c)
      BY <1>2, <2>2 DEF TypeOK, ConnStep, Connect, Hangup, ConnState, IdleConn
    <3>2. conn[c] \in ConnState \ {IdleConn}
      BY <3>1 DEF TypeOK, Route, IdleConn
    <3>3. /\ conn'[c].client = conn[c].client
          /\ conn'[c].host = conn[c].host
          /\ conn'[c].under = conn[c].under
          /\ Handling(conn[c].under, conn[c].client, conn[c].host) = "opaque"
      BY <2>2, <3>1, <3>2 DEF TypeOK, Route, ConnState
    <3>4. QED
      BY <3>3 DEF Handling
  <2>3. QED
    BY <2>1, <2>2 DEF RuledNeverOpaque
<1>3. ASSUME NEW s \in Streams, StreamStep(s)
      PROVE  RuledNeverOpaque'
  <2>1. CASE Refuse(s)
    <3>1. \A d \in Conns : \/ conn'[d] = conn[d]
                           \/ conn'[d].phase = "closed"
      <4>1. ASSUME NEW d \in Conns, conn[d].phase = "session"
            PROVE  [conn[d] EXCEPT !.phase = "closed"].phase = "closed"
        <5>1. conn[d] \in ConnState \ {IdleConn}
          BY <4>1 DEF TypeOK, IdleConn
        <5>2. QED
          BY <5>1 DEF ConnState
      <4>2. QED
        BY <2>1, <4>1 DEF TypeOK, Refuse
    <3>2. QED
      BY <3>1 DEF RuledNeverOpaque
  <2>2. CASE ~Refuse(s)
    BY <1>3, <2>2 DEF StreamStep, Arrive, ArrivePlain, Recheck, Forward,
                      Complete, RuledNeverOpaque
  <2>3. QED
    BY <2>1, <2>2
<1>4. Edit \/ Signal \/ LoadFile \/ SetPolicy => UNCHANGED conn
  BY DEF Edit, Signal, LoadFile, SetPolicy
<1>5. QED
  BY <1>1, <1>2, <1>3, <1>4 DEF Next, vars

(* With an interception CA no host that has rules is ever an opaque        *)
(* tunnel.  Without one the claim fails: see the run no_ca.                *)
THEOREM RulesIntercepted == HasCA => (Spec => []RuledNeverOpaque)
<1> SUFFICES ASSUME HasCA PROVE Spec => []RuledNeverOpaque
  OBVIOUS
<1>1. Init => RuledNeverOpaque
  BY DEF Init, IdleConn, RuledNeverOpaque
<1>2. TypeOK /\ RuledNeverOpaque /\ [Next]_vars => RuledNeverOpaque'
  BY RuledStep
<1>3. QED
  BY <1>1, <1>2, TypeCorrect, PTL DEF Spec
-----------------------------------------------------------------------------
(* The reload loop.  A valid policy that was asked for is still in the     *)
(* file; it waits behind a signal, has been read, or runs.                 *)
ReloadInv ==
    asked \in Policies =>
        /\ file = asked
        /\ hup \/ loaded = asked \/ (loaded = NotLoading /\ policy = asked)

(* Every step of the reload loop keeps the last signalled file in view.    *)
LEMMA ReloadInvStep ==
    ASSUME TypeOK, ReloadInv, [Next]_vars
    PROVE  ReloadInv'
<1> USE DEF ReloadInv
<1>1. CASE UNCHANGED <<file, hup, asked, loaded, policy>>
  BY <1>1
<1>2. CASE Edit
  BY <1>2 DEF Edit
<1>3. CASE Signal
  BY <1>3 DEF Signal, Buffered
<1>4. CASE LoadFile
  BY <1>4 DEF LoadFile
<1>5. CASE SetPolicy
  BY <1>5 DEF SetPolicy, Valid
<1>6. ASSUME NEW c \in Conns, ConnStep(c)
      PROVE  UNCHANGED <<file, hup, asked, loaded, policy>>
  BY <1>6 DEF ConnStep, Connect, Route, Hangup
<1>7. ASSUME NEW s \in Streams, StreamStep(s)
      PROVE  UNCHANGED <<file, hup, asked, loaded, policy>>
  BY <1>7 DEF StreamStep, Arrive, ArrivePlain, Recheck, Forward, Refuse,
              Complete
<1>8. QED
  BY <1>1, <1>2, <1>3, <1>4, <1>5, <1>6, <1>7 DEF Next, vars

(* A signal is never lost: a reload loop with nothing left to do runs the  *)
(* policy that was signalled last, for any edits and signals.              *)
THEOREM SignalTakesEffect == Spec => []ReloadTakesEffect
<1>1. Init => ReloadInv
  BY DEF Init, ReloadInv
<1>2. TypeOK /\ ReloadInv => ReloadTakesEffect
  BY DEF TypeOK, ReloadInv, ReloadTakesEffect
<1>3. TypeOK /\ ReloadInv /\ [Next]_vars => ReloadInv'
  BY ReloadInvStep
<1>4. QED
  BY <1>1, <1>2, <1>3, TypeCorrect, PTL DEF Spec
=============================================================================
