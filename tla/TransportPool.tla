---------------------------- MODULE TransportPool ----------------------------
(***************************************************************************)
(* The pool of upstream transports of internal/proxy/transport.go and its  *)
(* use by roundTrip (proxy.go).  A transport is pinned to one              *)
(* scheme/host/IP/port key; the pool keeps the MaxCached most recently     *)
(* used ones.  A transport evicted while responses still use it drains:    *)
(* its idle connections are closed when the last of them ends.             *)
(*                                                                         *)
(* transportMu makes acquire, release and Close critical sections; the     *)
(* calls of CloseIdleConnections that follow them are outside it.  The     *)
(* net/http Transport is external.  Of HTTP/1 connections its              *)
(* CloseIdleConnections closes what is idle and makes those that become    *)
(* idle later close too, until the next round trip.  Of HTTP/2 connections *)
(* it closes those without streams and remembers nothing: a connection     *)
(* that loses its last stream, or is established, afterwards stays until   *)
(* its idle timeout.                                                       *)
(***************************************************************************)
EXTENDS Naturals, FiniteSets, SequencesExt

CONSTANTS
    Keys,        \* upstreamTransportKey values
    Http2Keys,   \* those whose host negotiates HTTP/2
    Requests,    \* goroutines in roundTrip
    MaxCached,   \* maxCachedUpstreamTransports
    MaxTransports, \* bound: transports ever created
    MaxTime,     \* bound: ticks of the clock behind lastUsed
    None         \* no transport

Transports == 1..MaxTransports

ASSUME PoolAssumption ==
    /\ Http2Keys \subseteq Keys
    /\ MaxCached \in Nat \ {0}
    /\ MaxTransports \in Nat
    /\ MaxTime \in Nat
    /\ None \notin Transports

VARIABLES
    cache,      \* h.transports: the transport of each key, or None
    lastUsed, active, draining,   \* fields of cachedUpstreamTransport
    drainList,  \* h.drainingTransports
    closed,     \* transportClosed
    closing,    \* transports Close has still to call CloseIdleConnections on
    created,    \* transports created so far
    now,        \* the clock
    pc, holds,  \* each goroutine in roundTrip, and its transport
    idle,       \* the transport has an idle connection
    closeIdle,  \* it closes connections that become idle
    dialing,    \* a connection it dials will not be needed by its request
    multiplexed,\* it speaks HTTP/2
    ending      \* HTTP/2 streams ended for their readers, but the connection
                \* has not forgotten them

pool     == <<cache, lastUsed, active, draining, drainList, closed, created, now>>
external == <<idle, closeIdle, dialing, multiplexed, ending>>
vars == <<cache, lastUsed, active, draining, drainList, closed, closing,
          created, now, pc, holds, idle, closeIdle, dialing, multiplexed,
          ending>>
-----------------------------------------------------------------------------
Init ==
    /\ cache = [k \in Keys |-> None]
    /\ lastUsed = [t \in Transports |-> 0]
    /\ active = [t \in Transports |-> 0]
    /\ draining = [t \in Transports |-> FALSE]
    /\ drainList = <<>>
    /\ closed = FALSE
    /\ closing = {}
    /\ created = 0
    /\ now = 0
    /\ pc = [r \in Requests |-> "idle"]
    /\ holds = [r \in Requests |-> None]
    /\ idle = [t \in Transports |-> FALSE]
    /\ closeIdle = [t \in Transports |-> FALSE]
    /\ dialing = [t \in Transports |-> FALSE]
    /\ multiplexed = [t \in Transports |-> FALSE]
    /\ ending = [t \in Transports |-> FALSE]

CachedKeys == {k \in Keys : cache[k] # None}
Cached     == {cache[k] : k \in CachedKeys}

(* http.Transport.CloseIdleConnections.                                    *)
CloseIdleConnections(t) ==
    /\ idle' = [idle EXCEPT ![t] = FALSE]
    /\ closeIdle' = [closeIdle EXCEPT ![t] = ~multiplexed[t]]

(* The key evictOldestTransportLocked picks; equal times leave the choice  *)
(* to the iteration order of the map.                                      *)
Oldest(k) == \A j \in CachedKeys : lastUsed[cache[k]] <= lastUsed[cache[j]]

MutUseOf(t) == active
UseOf(t) == [active EXCEPT ![t] = @ + 1]

(* acquireUpstreamTransport of a key that is cached ...                    *)
AcquireCached(r, k) ==
    /\ cache[k] # None
    /\ lastUsed' = [lastUsed EXCEPT ![cache[k]] = now']
    /\ active' = UseOf(cache[k])
    /\ holds' = [holds EXCEPT ![r] = cache[k]]
    /\ UNCHANGED <<cache, draining, drainList, created, external>>

(* ... of a new key while there is room ...                                *)
Create(r, k, base) ==
    LET t == created + 1
    IN  /\ created < MaxTransports
        /\ created' = t
        /\ cache' = [base EXCEPT ![k] = t]
        /\ lastUsed' = [lastUsed EXCEPT ![t] = now']
        /\ active' = [active EXCEPT ![t] = 1]
        /\ holds' = [holds EXCEPT ![r] = t]
        /\ multiplexed' = [multiplexed EXCEPT ![t] = k \in Http2Keys]

MutHasRoom == Cardinality(CachedKeys) <= MaxCached
HasRoom == Cardinality(CachedKeys) < MaxCached

AcquireNew(r, k) ==
    /\ cache[k] = None
    /\ HasRoom
    /\ Create(r, k, cache)
    /\ UNCHANGED <<draining, drainList, idle, closeIdle, dialing, ending>>

(* ... and of a new key in a full pool: the oldest transport leaves it,    *)
(* and is remembered only while responses still use it.                    *)
AcquireEvicting(r, k) ==
    /\ cache[k] = None
    /\ ~HasRoom
    /\ \E victim \in CachedKeys :
          LET old == cache[victim]
          IN  /\ Oldest(victim)
              /\ Create(r, k, [cache EXCEPT ![victim] = None])
              /\ draining' = [draining EXCEPT ![old] = TRUE]
              /\ CloseIdleConnections(old)
              /\ drainList' = IF active[old] > 0 THEN Append(drainList, old)
                              ELSE drainList
    /\ UNCHANGED <<dialing, ending>>

Acquire(r, k) ==
    /\ pc[r] = "idle"
    /\ ~closed
    /\ now' \in {now, now + 1} /\ now' <= MaxTime
    /\ AcquireCached(r, k) \/ AcquireNew(r, k) \/ AcquireEvicting(r, k)
    /\ pc' = [pc EXCEPT ![r] = "acquired"]
    /\ UNCHANGED <<closed, closing>>

(* errHandlerClosed.                                                       *)
Refuse(r) ==
    /\ pc[r] = "idle"
    /\ closed
    /\ pc' = [pc EXCEPT ![r] = "done"]
    /\ UNCHANGED <<pool, closing, holds, external>>
-----------------------------------------------------------------------------
(* transport.RoundTrip takes an idle connection or dials; when another     *)
(* connection serves the request first, the dialed one becomes spare.      *)
RoundTrip(r) ==
    /\ pc[r] = "acquired"
    /\ closeIdle' = [closeIdle EXCEPT ![holds[r]] = FALSE]
    /\ idle' \in {idle, [idle EXCEPT ![holds[r]] = FALSE]}
    /\ dialing' \in {dialing, [dialing EXCEPT ![holds[r]] = TRUE]}
    /\ pc' = [pc EXCEPT ![r] = "responding"]
    /\ UNCHANGED <<pool, closing, holds, multiplexed, ending>>

(* An HTTP/2 stream that ends or is reset leaves its connection open.      *)
StreamEnds(r) ==
    /\ multiplexed[holds[r]]
    /\ ending' = [ending EXCEPT ![holds[r]] = TRUE]
    /\ UNCHANGED idle

(* The response body was read to its end: an HTTP/1 connection becomes     *)
(* idle before the reader sees EOF.                                        *)
ReadToEOF(r) ==
    /\ pc[r] = "responding"
    /\ \/ StreamEnds(r)
       \/ /\ ~multiplexed[holds[r]]
          /\ idle' = [idle EXCEPT ![holds[r]] = @ \/ ~closeIdle[holds[r]]]
          /\ UNCHANGED ending
    /\ pc' = [pc EXCEPT ![r] = "releasing"]
    /\ UNCHANGED <<pool, closing, holds, closeIdle, dialing, multiplexed>>

(* The round trip failed, or the body was closed early: an HTTP/1          *)
(* connection is closed.                                                   *)
Abort(r) ==
    /\ pc[r] = "responding"
    /\ \/ StreamEnds(r)
       \/ ~multiplexed[holds[r]] /\ UNCHANGED <<idle, ending>>
    /\ pc' = [pc EXCEPT ![r] = "releasing"]
    /\ UNCHANGED <<pool, closing, holds, closeIdle, dialing, multiplexed>>

(* Connections of t may have become idle.                                  *)
MayBecomeIdle(t) ==
    /\ idle' \in {idle, [idle EXCEPT ![t] = @ \/ ~closeIdle[t]]}
    /\ UNCHANGED <<pool, closing, pc, holds, closeIdle, multiplexed>>

(* A spare connection completes its handshake, or fails.                   *)
SpareConnects(t) ==
    /\ dialing[t]
    /\ dialing' = [dialing EXCEPT ![t] = FALSE]
    /\ MayBecomeIdle(t)
    /\ UNCHANGED ending

(* HTTP/2 connections forget streams, one or all that have ended.          *)
ForgetStream(t) ==
    /\ ending[t]
    /\ ending' \in {ending, [ending EXCEPT ![t] = FALSE]}
    /\ MayBecomeIdle(t)
    /\ UNCHANGED dialing

(* Idle connections reach upstreamIdleConnTimeout, or their host closes    *)
(* them.                                                                   *)
IdleTimeout(t) ==
    /\ idle[t]
    /\ idle' = [idle EXCEPT ![t] = FALSE]
    /\ UNCHANGED <<pool, closing, pc, holds, closeIdle, dialing, multiplexed,
                   ending>>

(* The critical section of releaseUpstreamTransport, run once per response *)
(* body.                                                                   *)
MutDrained(t) == draining[t]
Drained(t) == draining[t] /\ active[t] = 1
MutClosesIdle(t) == Drained(t)
ClosesIdle(t) == closed \/ Drained(t)

MutEndUse(r) ==
    /\ pc' = [pc EXCEPT ![r] = "idle"]
    /\ UNCHANGED holds
EndUse(r) ==
    /\ pc' = [pc EXCEPT ![r] = "idle"]
    /\ holds' = [holds EXCEPT ![r] = None]

Release(r) ==
    LET t == holds[r]
    IN  /\ pc[r] = "releasing"
        /\ active' = [active EXCEPT ![t] = IF @ > 0 THEN @ - 1 ELSE @]
        /\ drainList' = IF Drained(t) THEN RemoveFirst(drainList, t) ELSE drainList
        /\ IF ClosesIdle(t)
           THEN /\ pc' = [pc EXCEPT ![r] = "closingIdle"]
                /\ UNCHANGED holds
           ELSE EndUse(r)
        /\ UNCHANGED <<cache, lastUsed, draining, closed, created, now,
                       closing, external>>

CloseReleased(r) ==
    /\ pc[r] = "closingIdle"
    /\ CloseIdleConnections(holds[r])
    /\ EndUse(r)
    /\ UNCHANGED <<pool, closing, dialing, multiplexed, ending>>
-----------------------------------------------------------------------------
(* The transport half of Handler.Close: the pool is emptied in a critical  *)
(* section, then the idle connections of what it held are closed.          *)
Close ==
    /\ closed' = TRUE
    /\ closing' = closing \cup Cached \cup ToSet(drainList)
    /\ cache' = [k \in Keys |-> None]
    /\ drainList' = <<>>
    /\ UNCHANGED <<lastUsed, active, draining, created, now, pc, holds,
                   external>>

CloseTransport(t) ==
    /\ t \in closing
    /\ closing' = closing \ {t}
    /\ CloseIdleConnections(t)
    /\ UNCHANGED <<pool, pc, holds, dialing, multiplexed, ending>>
-----------------------------------------------------------------------------
RequestStep(r) ==
    \/ \E k \in Keys : Acquire(r, k)
    \/ Refuse(r) \/ RoundTrip(r) \/ ReadToEOF(r) \/ Abort(r)
    \/ Release(r) \/ CloseReleased(r)

Next ==
    \/ \E r \in Requests : RequestStep(r)
    \/ \E t \in Transports :
          SpareConnects(t) \/ ForgetStream(t) \/ IdleTimeout(t) \/ CloseTransport(t)
    \/ Close

Spec == Init /\ [][Next]_vars
-----------------------------------------------------------------------------
(* Goroutines between acquire and release.                                 *)
Users(t) == {r \in Requests :
                holds[r] = t /\ pc[r] \in {"acquired", "responding", "releasing"}}

(* Every variable has its type; the pool never holds more than its limit   *)
(* (transport.go:85-87).                                                   *)
TypeOK ==
    /\ cache \in [Keys -> Transports \cup {None}]
    /\ Cardinality(CachedKeys) <= MaxCached
    /\ lastUsed \in [Transports -> 0..MaxTime]
    /\ active \in [Transports -> Nat]
    /\ draining \in [Transports -> BOOLEAN]
    /\ drainList \in Seq(Transports)
    /\ closed \in BOOLEAN
    /\ closing \subseteq Transports
    /\ created \in 0..MaxTransports
    /\ now \in 0..MaxTime
    /\ pc \in [Requests -> {"idle", "acquired", "responding", "releasing",
                            "closingIdle", "done"}]
    /\ holds \in [Requests -> Transports \cup {None}]
    /\ \A r \in Requests : holds[r] = None <=> pc[r] \in {"idle", "done"}
    /\ idle \in [Transports -> BOOLEAN]
    /\ closeIdle \in [Transports -> BOOLEAN]
    /\ dialing \in [Transports -> BOOLEAN]
    /\ multiplexed \in [Transports -> BOOLEAN]
    /\ ending \in [Transports -> BOOLEAN]

(* The use count of every transport is the number of responses that use    *)
(* it, whatever was evicted, recreated or closed in between; the draining  *)
(* list holds exactly the evicted transports still in use, each once, so   *)
(* it is bounded by the responses in flight (transport.go:133-181).        *)
AccountsExact ==
    /\ TypeOK
    /\ \A t \in Transports : active[t] = Cardinality(Users(t))
    /\ IsInjective(drainList)
    /\ ~closed => ToSet(drainList) = {t \in Transports :
                                         draining[t] /\ active[t] > 0}

(* The pool or a goroutine can still reach the transport.                  *)
Reachable(t) ==
    t \in Cached \cup closing \/ \E r \in Requests : holds[r] = t

(* Neither an eviction nor Close leaves connections behind, in any order   *)
(* of responses ending, spare dials completing and critical sections: a    *)
(* transport that nobody can reach any more has no idle HTTP/1 connection  *)
(* and keeps none that becomes idle later, and has no idle HTTP/2          *)
(* connection when it gets out of reach (transport.go:146, 167, 270).  One *)
(* that becomes idle after that stays until its idle timeout.              *)
NoIdleLeak ==
    [][\A t \in 1..created' : ~Reachable(t)' =>
          IF multiplexed'[t] THEN idle'[t] => ~Reachable(t)
                             ELSE ~idle'[t] /\ closeIdle'[t]]_vars
=============================================================================
