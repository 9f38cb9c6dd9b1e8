------------------------ MODULE TransportPool_proofs ------------------------
(***************************************************************************)
(* Proofs about TransportPool, for any keys, requests, limit of the pool   *)
(* and number of transports ever created.                                  *)
(***************************************************************************)
EXTENDS TransportPool, SequenceTheorems, FiniteSetTheorems, TLAPS

USE PoolAssumption

-----------------------------------------------------------------------------
(* Sequences without repetition, of which the draining list is one.        *)

(* Appending a new element keeps a sequence free of repetitions.           *)
LEMMA AppendFresh ==
    ASSUME NEW S, NEW s \in Seq(S), IsInjective(s), NEW e \in S, e \notin ToSet(s)
    PROVE  /\ Append(s, e) \in Seq(S)
           /\ IsInjective(Append(s, e))
           /\ ToSet(Append(s, e)) = ToSet(s) \cup {e}
<1> DEFINE t == Append(s, e)
           n == Len(s)
<1>1. /\ n \in Nat /\ DOMAIN s = 1..n
      /\ t \in Seq(S) /\ Len(t) = n + 1 /\ DOMAIN t = 1..n + 1
      /\ \A i \in 1..n : t[i] = s[i]
      /\ t[n + 1] = e
  BY AppendProperties, LenProperties
<1> HIDE DEF t, n
<1>2. \A i \in 1..n : s[i] \in ToSet(s)
  BY <1>1 DEF ToSet
<1>3. IsInjective(t)
  BY <1>1, <1>2 DEF IsInjective
<1>4. ToSet(t) = ToSet(s) \cup {e}
  <2>1. \A i \in 1..n + 1 : t[i] \in ToSet(s) \cup {e}
    BY <1>1, <1>2
  <2>2. \A x \in ToSet(s) \cup {e} : \E i \in 1..n + 1 : t[i] = x
    BY <1>1 DEF ToSet
  <2>3. QED
    BY <1>1, <2>1, <2>2 DEF ToSet
<1>5. QED
  BY <1>1, <1>3, <1>4 DEF t

(* Taking out one element leaves the others, each once.                    *)
LEMMA RemoveIndex ==
    ASSUME NEW S, NEW s \in Seq(S), IsInjective(s), NEW k \in 1..Len(s)
    PROVE  /\ RemoveAt(s, k) \in Seq(S)
           /\ IsInjective(RemoveAt(s, k))
           /\ ToSet(RemoveAt(s, k)) = ToSet(s) \ {s[k]}
<1> DEFINE n == Len(s)
           a == SubSeq(s, 1, k - 1)
           b == SubSeq(s, k + 1, n)
<1>1. n \in Nat /\ DOMAIN s = 1..n /\ k \in 1..n /\ \A i \in 1..n : s[i] \in S
  BY LenProperties, ElementOfSeq
<1>2. /\ a \in Seq(S) /\ Len(a) = k - 1
      /\ \A i \in 1..k - 1 : a[i] = s[i]
  BY <1>1, SubSeqProperties
<1>3. /\ b \in Seq(S) /\ Len(b) = n - k
      /\ \A i \in 1..n - k : b[i] = s[k + i]
  <2>1. /\ k + 1 \in Int /\ Len(s) \in Int
        /\ \A i \in k + 1..Len(s) : s[i] \in S
    BY <1>1
  <2>2. /\ b \in Seq(S)
        /\ Len(b) = IF k + 1 <= n THEN n - (k + 1) + 1 ELSE 0
        /\ \A i \in 1..n - (k + 1) + 1 : b[i] = s[k + 1 + i - 1]
    BY <2>1, SubSeqProperties
  <2> HIDE DEF b, n
  <2>3. /\ n - (k + 1) + 1 = n - k
        /\ \A i \in 1..n - k : k + 1 + i - 1 = k + i
    BY <1>1
  <2>4. Len(b) = n - k
    BY <1>1, <2>2, <2>3
  <2>5. \A i \in 1..n - k : b[i] = s[k + i]
    BY <2>2, <2>3
  <2>6. QED
    BY <2>2, <2>4, <2>5
<1>4. RemoveAt(s, k) = a \o b
  BY DEF RemoveAt
<1> HIDE DEF n, a, b
<1>5. /\ a \o b \in Seq(S) /\ Len(a \o b) = Len(a) + Len(b)
      /\ \A i \in 1..Len(a) + Len(b) :
            (a \o b)[i] = IF i <= Len(a) THEN a[i] ELSE b[i - Len(a)]
  BY <1>2, <1>3, ConcatProperties
<1>6. /\ Len(a \o b) = n - 1
      /\ \A i \in 1..k - 1 : (a \o b)[i] = s[i]
      /\ \A i \in k..n - 1 : (a \o b)[i] = s[i + 1]
  <2>1. Len(a) + Len(b) = n - 1
    BY <1>1, <1>2, <1>3
  <2>2. ASSUME NEW i \in 1..k - 1 PROVE (a \o b)[i] = s[i]
    BY <1>1, <1>2, <1>5, <2>1
  <2>3. ASSUME NEW i \in k..n - 1 PROVE (a \o b)[i] = s[i + 1]
    <3>1. i - Len(a) \in 1..n - k /\ k + (i - Len(a)) = i + 1
      BY <1>1, <1>2
    <3>2. (a \o b)[i] = b[i - Len(a)]
      BY <1>1, <1>2, <1>5, <2>1
    <3>3. b[i - Len(a)] = s[k + (i - Len(a))]
      BY <1>3, <3>1
    <3>4. QED
      BY <3>1, <3>2, <3>3
  <2>4. QED
    BY <1>5, <2>1, <2>2, <2>3
<1> DEFINE t == a \o b
<1>7. /\ DOMAIN t = 1..n - 1
      /\ \A i \in 1..n - 1 : \E j \in 1..n :
            /\ j # k /\ t[i] = s[j]
            /\ j = IF i < k THEN i ELSE i + 1
  <2>1. DOMAIN t = 1..n - 1
    BY <1>5, <1>6, LenProperties
  <2> HIDE DEF t
  <2>2. ASSUME NEW i \in 1..n - 1, i < k
        PROVE  i \in 1..n /\ i # k /\ t[i] = s[i]
    BY <1>1, <1>6, <2>2 DEF t
  <2>3. ASSUME NEW i \in 1..n - 1, ~(i < k)
        PROVE  i + 1 \in 1..n /\ i + 1 # k /\ t[i] = s[i + 1]
    BY <1>1, <1>6, <2>3 DEF t
  <2>4. QED
    BY <2>1, <2>2, <2>3
<1>8. \A j \in 1..n \ {k} : \E i \in 1..n - 1 : t[i] = s[j]
  <2> TAKE j \in 1..n \ {k}
  <2>1. CASE j < k
    <3>1. j \in 1..k - 1 /\ j \in 1..n - 1
      BY <1>1, <2>1
    <3>2. t[j] = s[j]
      BY <1>6, <3>1
    <3>3. QED
      BY <3>1, <3>2
  <2>2. CASE ~(j < k)
    <3>1. j - 1 \in k..n - 1 /\ j - 1 \in 1..n - 1 /\ (j - 1) + 1 = j
      BY <1>1, <2>2
    <3>2. t[j - 1] = s[j]
      BY <1>6, <3>1
    <3>3. QED
      BY <3>1, <3>2
  <2>3. QED
    BY <2>1, <2>2
<1> HIDE DEF t
<1>9. IsInjective(t)
  BY <1>1, <1>7 DEF IsInjective
<1>10. ToSet(t) = ToSet(s) \ {s[k]}
  <2>1. /\ ToSet(t) = {t[i] : i \in 1..n - 1}
        /\ ToSet(s) = {s[i] : i \in 1..n}
    BY <1>1, <1>7 DEF ToSet
  <2>2. \A j \in 1..n : s[j] = s[k] <=> j = k
    BY <1>1 DEF IsInjective
  <2>3. ToSet(t) \subseteq ToSet(s) \ {s[k]}
    BY <1>7, <2>1, <2>2
  <2>4. ToSet(s) \ {s[k]} \subseteq ToSet(t)
    BY <1>8, <2>1, <2>2
  <2>5. QED
    BY <2>3, <2>4
<1>11. QED
  BY <1>4, <1>5, <1>9, <1>10 DEF t

(* removeDrainingTransportLocked takes out the one transport it is given.  *)
LEMMA RemoveElement ==
    ASSUME NEW S, NEW s \in Seq(S), IsInjective(s), NEW e \in ToSet(s)
    PROVE  /\ RemoveFirst(s, e) \in Seq(S)
           /\ IsInjective(RemoveFirst(s, e))
           /\ ToSet(RemoveFirst(s, e)) = ToSet(s) \ {e}
<1>1. PICK k \in 1..Len(s) : s[k] = e
  BY LenProperties DEF ToSet
<1>2. {i \in 1..Len(s) : s[i] = e} = {k}
  BY <1>1, LenProperties DEF IsInjective
<1>3. k \in Nat
  BY LenProperties
<1>4. Min({k}) = k
  <2>1. \E i \in {k} : \A j \in {k} : i =< j
    BY <1>3
  <2>2. Min({k}) \in {k}
    BY <2>1, Zenon DEF Min
  <2>3. QED
    BY <2>2
<1>5. SelectInSeq(s, LAMBDA v : v = e) = k
  BY <1>2, <1>4 DEF SelectInSeq
<1>6. RemoveFirst(s, e) = RemoveAt(s, k)
  BY <1>1, <1>5 DEF RemoveFirst
<1>7. QED
  BY <1>1, <1>6, RemoveIndex

-----------------------------------------------------------------------------
(* The inductive invariant of the pool.                                    *)

(* A cached transport belongs to one key and does not drain.               *)
CacheInv ==
    /\ IsFiniteSet(CachedKeys)
    /\ \A j, k \in CachedKeys : cache[j] = cache[k] => j = k
    /\ \A k \in CachedKeys : ~draining[cache[k]]

(* Nothing is known of a transport that was not created yet.               *)
CreatedInv ==
    \A t \in Transports :
        (\/ t \in Cached \cup closing
         \/ draining[t]
         \/ \E r \in Requests : holds[r] = t)
            => t <= created

(* The use counts.                                                         *)
CountInv ==
    \A t \in Transports :
        IsFiniteSet(Users(t)) /\ active[t] = Cardinality(Users(t))

(* The draining list.                                                      *)
DrainInv ==
    /\ IsInjective(drainList)
    /\ ~closed => ToSet(drainList) = {t \in Transports : draining[t] /\ active[t] > 0}

(* What a goroutine uses is cached or drains, until Close; then neither    *)
(* the cache nor the list holds anything.                                  *)
UseInv ==
    /\ ~closed => \A r \in Requests :
          holds[r] # None => holds[r] \in Cached \/ draining[holds[r]]
    /\ closed => CachedKeys = {} /\ drainList = <<>>

(* An HTTP/1 transport out of reach has no idle connection and keeps none. *)
ShutInv ==
    \A t \in 1..created :
        ~Reachable(t) /\ ~multiplexed[t] => ~idle[t] /\ closeIdle[t]

(* A step after which an HTTP/2 transport gets out of reach leaves it      *)
(* without idle connections.                                               *)
LeftShut ==
    \A t \in 1..created' :
        ~Reachable(t)' /\ Reachable(t) /\ multiplexed'[t] => ~idle'[t]

PoolInv ==
    /\ TypeOK
    /\ CacheInv /\ CreatedInv /\ CountInv /\ DrainInv /\ UseInv
    /\ ShutInv

(* The invariant holds of an empty pool.                                   *)
LEMMA PoolInit == Init => PoolInv
<1> SUFFICES ASSUME Init PROVE PoolInv
  OBVIOUS
<1> USE DEF Init
<1>1. /\ CachedKeys = {} /\ Cached = {}
      /\ drainList \in Seq(Transports) /\ drainList = <<>> /\ ToSet(drainList) = {}
      /\ IsInjective(drainList)
  BY DEF CachedKeys, Cached, ToSet, IsInjective
<1>2. IsFiniteSet(CachedKeys) /\ Cardinality(CachedKeys) = 0
  BY <1>1, FS_EmptySet
<1>3. TypeOK
  <2>1. 0 \in 0..MaxTime /\ 0 \in 0..MaxTransports /\ 0 <= MaxCached
    OBVIOUS
  <2>2. QED
    BY <1>1, <1>2, <2>1 DEF TypeOK
<1>4. \A t \in Transports : Users(t) = {}
  BY DEF Users
<1>5. CountInv
  BY <1>4, FS_EmptySet DEF CountInv
<1>6. ShutInv /\ CreatedInv
  BY <1>1 DEF ShutInv, CreatedInv
<1>7. QED
  BY <1>1, <1>2, <1>3, <1>5, <1>6 DEF PoolInv, CacheInv, DrainInv, UseInv

(* A goroutine that starts to use a transport ...                          *)
LEMMA UseBegins ==
    ASSUME PoolInv, NEW r \in Requests, pc[r] = "idle", NEW t \in Transports,
           pc' = [pc EXCEPT ![r] = "acquired"], holds' = [holds EXCEPT ![r] = t],
           active' = [active EXCEPT ![t] = active[t] + 1]
    PROVE  CountInv' /\ active'[t] > 0
<1>1. r \notin Users(t) /\ Users(t)' = Users(t) \cup {r}
  BY DEF Users, PoolInv, TypeOK
<1>2. \A u \in Transports \ {t} : Users(u)' = Users(u)
  BY DEF Users, PoolInv, TypeOK
<1>3. /\ IsFiniteSet(Users(t)')
      /\ Cardinality(Users(t)') = active[t] + 1
  BY <1>1, FS_AddElement DEF PoolInv, CountInv
<1>4. active[t] \in Nat /\ active'[t] = active[t] + 1
  BY DEF PoolInv, TypeOK
<1>5. \A u \in Transports : IsFiniteSet(Users(u)') /\ active'[u] = Cardinality(Users(u)')
  <2> TAKE u \in Transports
  <2>1. CASE u = t
    BY <1>3, <1>4, <2>1
  <2>2. CASE u # t
    <3>1. Users(u)' = Users(u) /\ active'[u] = active[u]
      BY <1>2, <2>2 DEF PoolInv, TypeOK
    <3>2. QED
      BY <3>1 DEF PoolInv, CountInv
  <2>3. QED
    BY <2>1, <2>2
<1>6. QED
  BY <1>4, <1>5 DEF CountInv

(* ... and a step after which each transport has the same users.           *)
LEMMA UsersStand ==
    ASSUME PoolInv, active' = active, \A t \in Transports : Users(t)' = Users(t)
    PROVE  CountInv'
BY DEF PoolInv, CountInv

(* A step after which every transport is still within reach, and one that  *)
(* was shut is shut, ...                                                   *)
LEMMA StaysShut ==
    ASSUME PoolInv, UNCHANGED <<created, multiplexed>>,
           \A u \in Transports : Reachable(u) => Reachable(u)',
           \A u \in Transports : ~Reachable(u) /\ ~multiplexed[u] /\ ~idle[u] /\ closeIdle[u]
                                 => ~idle'[u] /\ closeIdle'[u]
    PROVE  ShutInv' /\ LeftShut
<1>1. \A u \in 1..created : u \in Transports
  BY DEF PoolInv, TypeOK, Transports
<1>2. QED
  BY <1>1 DEF PoolInv, ShutInv, LeftShut

(* ... and one that closes the connections of the transport that gets out  *)
(* of reach.                                                               *)
LEMMA GetsShut ==
    ASSUME PoolInv, UNCHANGED <<created, multiplexed>>,
           NEW t \in Transports, CloseIdleConnections(t),
           \A u \in Transports \ {t} : Reachable(u) => Reachable(u)'
    PROVE  ShutInv' /\ LeftShut
<1>1. \A u \in 1..created : u \in Transports
  BY DEF PoolInv, TypeOK, Transports
<1>2. /\ ~idle'[t] /\ closeIdle'[t] = ~multiplexed[t]
      /\ \A u \in Transports \ {t} : idle'[u] = idle[u] /\ closeIdle'[u] = closeIdle[u]
  BY DEF PoolInv, TypeOK, CloseIdleConnections
<1>3. QED
  BY <1>1, <1>2 DEF PoolInv, ShutInv, LeftShut

(* The next transport to be created is new.                                *)
LEMMA Fresh ==
    ASSUME PoolInv, created < MaxTransports
    PROVE  /\ created + 1 \in Transports
           /\ ~draining[created + 1] /\ active[created + 1] = 0
           /\ created + 1 \notin Cached \cup closing
           /\ \A r \in Requests : holds[r] # created + 1
<1>1. created \in Nat /\ created + 1 \in Transports
  BY DEF PoolInv, TypeOK, Transports
<1>2. /\ ~draining[created + 1] /\ created + 1 \notin Cached \cup closing
      /\ \A r \in Requests : holds[r] # created + 1
  BY <1>1 DEF PoolInv, CreatedInv
<1>3. Users(created + 1) = {}
  BY <1>2 DEF Users
<1>4. active[created + 1] = 0
  BY <1>1, <1>3, FS_EmptySet DEF PoolInv, CountInv
<1>5. QED
  BY <1>1, <1>2, <1>4

(* acquireUpstreamTransport keeps it, for a key that is cached ...         *)
LEMMA AcquireCachedKeeps ==
    ASSUME PoolInv, NEW r \in Requests, NEW k \in Keys, Acquire(r, k), AcquireCached(r, k)
    PROVE  PoolInv' /\ LeftShut
<1> USE DEF PoolInv
<1> DEFINE t == cache[k]
<1>1. /\ pc[r] = "idle" /\ ~closed /\ now' \in 0..MaxTime
      /\ pc' = [pc EXCEPT ![r] = "acquired"]
      /\ UNCHANGED <<closed, closing, cache, draining, drainList, created, idle, closeIdle,
                     dialing, multiplexed, ending>>
      /\ holds' = [holds EXCEPT ![r] = t]
      /\ active' = [active EXCEPT ![t] = active[t] + 1]
      /\ lastUsed' = [lastUsed EXCEPT ![t] = now']
  BY DEF Acquire, AcquireCached, UseOf, external, TypeOK
<1>2. /\ t \in Transports /\ k \in CachedKeys /\ t \in Cached /\ ~draining[t] /\ t <= created
      /\ CachedKeys' = CachedKeys /\ Cached' = Cached
  BY <1>1 DEF AcquireCached, CachedKeys, Cached, TypeOK, CacheInv, CreatedInv
<1> HIDE DEF t
<1>3. CountInv'
  BY <1>1, <1>2, UseBegins
<1>4. TypeOK'
  BY <1>1, <1>2 DEF TypeOK
<1>5. CacheInv' /\ CreatedInv' /\ UseInv' /\ ShutInv' /\ LeftShut
  <2>1. CacheInv'
    BY <1>1, <1>2 DEF CacheInv
  <2>2. \A q \in Requests : holds'[q] = IF q = r THEN t ELSE holds[q]
    BY <1>1 DEF TypeOK
  <2>3. CreatedInv'
    BY <1>1, <1>2, <2>2 DEF CreatedInv
  <2>4. UseInv'
    BY <1>1, <1>2, <2>2 DEF UseInv
  <2>5. ShutInv' /\ LeftShut
    <3>1. holds[r] = None /\ \A u \in Transports : u # None
      BY <1>1 DEF TypeOK
    <3>2. \A u \in Transports : Reachable(u) => Reachable(u)'
      BY <1>1, <1>2, <2>2, <3>1 DEF Reachable
    <3>3. QED
      BY <1>1, <3>2, StaysShut
  <2>6. QED
    BY <2>1, <2>3, <2>4, <2>5
<1>6. DrainInv'
  BY <1>1, <1>2 DEF DrainInv, TypeOK
<1>7. QED
  BY <1>3, <1>4, <1>5, <1>6

(* ... for a new one while there is room ...                               *)
LEMMA AcquireNewKeeps ==
    ASSUME PoolInv, NEW r \in Requests, NEW k \in Keys, Acquire(r, k), AcquireNew(r, k)
    PROVE  PoolInv' /\ LeftShut
<1> USE DEF PoolInv
<1> DEFINE t == created + 1
<1>1. /\ pc[r] = "idle" /\ ~closed /\ now' \in 0..MaxTime
      /\ pc' = [pc EXCEPT ![r] = "acquired"]
      /\ UNCHANGED <<closed, closing, draining, drainList, idle, closeIdle, dialing, ending>>
      /\ created < MaxTransports /\ created' = t
      /\ multiplexed' = [multiplexed EXCEPT ![t] = k \in Http2Keys]
      /\ cache' = [cache EXCEPT ![k] = t]
      /\ holds' = [holds EXCEPT ![r] = t]
      /\ active' = [active EXCEPT ![t] = 1]
      /\ lastUsed' = [lastUsed EXCEPT ![t] = now']
      /\ cache[k] = None /\ Cardinality(CachedKeys) < MaxCached
  BY DEF Acquire, AcquireNew, Create, HasRoom, external, TypeOK
<1>2. /\ t \in Transports /\ created \in Nat /\ t \notin Cached \cup closing
      /\ ~draining[t] /\ active[t] = 0 /\ \A q \in Requests : holds[q] # t
  BY <1>1, Fresh DEF TypeOK
<1>3. t \in 1..MaxTransports /\ t \in 0..MaxTransports /\ t # None
  BY <1>1, <1>2 DEF Transports
<1>4. \A u \in 1..t : u \in Transports /\ (u \in 1..created \/ u = t)
  BY <1>1, <1>2 DEF Transports, TypeOK
<1>5. \A u \in Transports : u <= created => u <= t
  BY <1>2 DEF Transports
<1>6. t <= t
  BY <1>2
<1> HIDE DEF t
<1>7. CachedKeys' = CachedKeys \cup {k} /\ k \notin CachedKeys /\ Cached' = Cached \cup {t}
  BY <1>1, <1>3 DEF CachedKeys, Cached, TypeOK
<1>8. IsFiniteSet(CachedKeys') /\ Cardinality(CachedKeys') <= MaxCached
  <2>1. /\ IsFiniteSet(CachedKeys')
        /\ Cardinality(CachedKeys') = Cardinality(CachedKeys) + 1
    BY <1>7, FS_AddElement DEF CacheInv
  <2>2. Cardinality(CachedKeys) \in Nat
    BY FS_CardinalityType DEF CacheInv
  <2>3. QED
    BY <1>1, <2>1, <2>2
<1>9. CountInv'
  <2>1. active' = [active EXCEPT ![t] = active[t] + 1]
    BY <1>1, <1>2
  <2>2. QED
    BY <1>1, <1>2, <2>1, UseBegins
<1>10. TypeOK'
  BY <1>1, <1>2, <1>3, <1>8 DEF TypeOK
<1>11. \A q \in Requests : holds'[q] = IF q = r THEN t ELSE holds[q]
  BY <1>1 DEF TypeOK
<1>12. CacheInv'
  <2>1. \A j \in CachedKeys : cache'[j] = cache[j] /\ cache[j] \in Cached
    BY <1>1, <1>7 DEF TypeOK, CachedKeys, Cached
  <2>2. cache'[k] = t
    BY <1>1 DEF TypeOK
  <2>3. QED
    BY <1>1, <1>2, <1>7, <1>8, <2>1, <2>2 DEF CacheInv
<1>13. CreatedInv'
  BY <1>1, <1>5, <1>6, <1>7, <1>11 DEF CreatedInv
<1>14. UseInv'
  BY <1>1, <1>7, <1>11 DEF UseInv
<1>15. ShutInv' /\ LeftShut
  <2>1. holds[r] = None /\ \A u \in Transports : u # None
    BY <1>1 DEF TypeOK
  <2>2. \A u \in Transports : Reachable(u) => Reachable(u)'
    BY <1>1, <1>7, <1>11, <2>1 DEF Reachable
  <2>3. \A u \in Transports : u = t => Reachable(u)'
    BY <1>7 DEF Reachable
  <2>4. \A u \in Transports \ {t} : multiplexed'[u] = multiplexed[u]
    BY <1>1 DEF TypeOK
  <2>5. QED
    BY <1>1, <1>4, <2>2, <2>3, <2>4 DEF ShutInv, LeftShut
<1>16. DrainInv'
  BY <1>1, <1>2 DEF DrainInv, TypeOK
<1>17. QED
  BY <1>9, <1>10, <1>12, <1>13, <1>14, <1>15, <1>16

(* ... and for a new one in a full pool, from which another is evicted.    *)
LEMMA AcquireEvictingKeeps ==
    ASSUME PoolInv, NEW r \in Requests, NEW k \in Keys, Acquire(r, k), AcquireEvicting(r, k)
    PROVE  PoolInv' /\ LeftShut
<1> USE DEF PoolInv
<1>1. PICK victim \in CachedKeys :
         /\ Create(r, k, [cache EXCEPT ![victim] = None])
         /\ draining' = [draining EXCEPT ![cache[victim]] = TRUE]
         /\ CloseIdleConnections(cache[victim])
         /\ drainList' = IF active[cache[victim]] > 0
                         THEN Append(drainList, cache[victim]) ELSE drainList
  BY DEF AcquireEvicting
<1> DEFINE t == created + 1
           old == cache[victim]
<1>2. /\ pc[r] = "idle" /\ ~closed /\ now' \in 0..MaxTime
      /\ pc' = [pc EXCEPT ![r] = "acquired"]
      /\ UNCHANGED <<closed, closing, dialing, ending>>
      /\ multiplexed' = [multiplexed EXCEPT ![t] = k \in Http2Keys]
      /\ created < MaxTransports /\ created' = t
      /\ cache' = [[cache EXCEPT ![victim] = None] EXCEPT ![k] = t]
      /\ holds' = [holds EXCEPT ![r] = t]
      /\ active' = [active EXCEPT ![t] = 1]
      /\ lastUsed' = [lastUsed EXCEPT ![t] = now']
      /\ cache[k] = None
      /\ draining' = [draining EXCEPT ![old] = TRUE]
      /\ idle' = [idle EXCEPT ![old] = FALSE]
      /\ closeIdle' = [closeIdle EXCEPT ![old] = ~multiplexed[old]]
      /\ drainList' = IF active[old] > 0 THEN Append(drainList, old) ELSE drainList
  <2>1. now' \in 0..MaxTime
    BY DEF Acquire, TypeOK
  <2>2. QED
    BY <1>1, <2>1 DEF Acquire, AcquireEvicting, Create, CloseIdleConnections
<1>3. /\ t \in Transports /\ created \in Nat /\ t \notin Cached \cup closing
      /\ ~draining[t] /\ active[t] = 0 /\ \A q \in Requests : holds[q] # t
  BY <1>2, Fresh DEF TypeOK
<1>4. t \in 1..MaxTransports /\ t \in 0..MaxTransports /\ t # None
  BY <1>2, <1>3 DEF Transports
<1>5. \A u \in 1..t : u \in Transports /\ (u \in 1..created \/ u = t)
  BY <1>2, <1>3 DEF Transports, TypeOK
<1>6. \A u \in Transports : u <= created => u <= t
  BY <1>3 DEF Transports
<1>7. t <= t
  BY <1>3
<1> HIDE DEF t
<1>8. /\ victim \in Keys /\ old \in Transports /\ old \in Cached /\ ~draining[old]
      /\ old # t /\ old <= created
  BY <1>3 DEF CachedKeys, Cached, TypeOK, CacheInv, CreatedInv
<1>9. \A j \in CachedKeys \ {victim} : cache[j] # old
  BY DEF CacheInv
<1> HIDE DEF old
<1>10. /\ k \notin CachedKeys /\ victim \in CachedKeys
       /\ cache'[k] = t
       /\ \A j \in CachedKeys \ {victim} : cache'[j] = cache[j] /\ cache[j] \in Cached
  BY <1>1, <1>2 DEF CachedKeys, Cached, TypeOK
<1>11. CachedKeys' = (CachedKeys \ {victim}) \cup {k}
  BY <1>1, <1>2, <1>4, <1>8 DEF CachedKeys, TypeOK
<1>12. Cached' = (Cached \ {old}) \cup {t}
  <2>1. \A j \in CachedKeys \ {victim} : cache[j] \in Cached \ {old}
    BY <1>9, <1>10
  <2>2. \A u \in Cached \ {old} : \E j \in CachedKeys \ {victim} : cache[j] = u
    BY DEF Cached, old
  <2>3. QED
    BY <1>10, <1>11, <2>1, <2>2 DEF Cached
<1>13. IsFiniteSet(CachedKeys') /\ Cardinality(CachedKeys') <= MaxCached
  <2> DEFINE K == CachedKeys \ {victim}
  <2>1. IsFiniteSet(K) /\ Cardinality(K) = Cardinality(CachedKeys) - 1
    BY <1>10, FS_RemoveElement DEF CacheInv
  <2>2. k \notin K
    BY <1>10
  <2> HIDE DEF K
  <2>3. IsFiniteSet(K \cup {k}) /\ Cardinality(K \cup {k}) = Cardinality(K) + 1
    BY <2>1, <2>2, FS_AddElement
  <2>4. Cardinality(CachedKeys) \in Nat /\ Cardinality(CachedKeys) <= MaxCached
    BY FS_CardinalityType DEF CacheInv, TypeOK
  <2>5. QED
    BY <1>11, <2>1, <2>3, <2>4 DEF K
<1>14. CountInv'
  <2>1. active' = [active EXCEPT ![t] = active[t] + 1]
    BY <1>2, <1>3
  <2>2. QED
    BY <1>2, <1>3, <2>1, UseBegins
<1>15. /\ drainList' \in Seq(Transports) /\ IsInjective(drainList')
       /\ ToSet(drainList') = ToSet(drainList) \cup {u \in {old} : active[u] > 0}
  <2>1. old \notin ToSet(drainList)
    BY <1>2, <1>8 DEF DrainInv
  <2>2. CASE active[old] > 0
    BY <1>2, <1>8, <2>1, <2>2, AppendFresh DEF DrainInv, TypeOK
  <2>3. CASE ~(active[old] > 0)
    BY <1>2, <2>3 DEF DrainInv, TypeOK
  <2>4. QED
    BY <2>2, <2>3
<1>16. TypeOK'
  <2>1. /\ idle' \in [Transports -> BOOLEAN] /\ closeIdle' \in [Transports -> BOOLEAN]
        /\ multiplexed' \in [Transports -> BOOLEAN]
    BY <1>2, <1>3, <1>8 DEF TypeOK
  <2>2. QED
    BY <1>2, <1>3, <1>4, <1>8, <1>13, <1>15, <2>1 DEF TypeOK
<1>17. \A q \in Requests : holds'[q] = IF q = r THEN t ELSE holds[q]
  BY <1>2 DEF TypeOK
<1>18. \A u \in Transports : draining'[u] = IF u = old THEN TRUE ELSE draining[u]
  BY <1>2 DEF TypeOK
<1>19. CacheInv'
  <2>1. \A j \in CachedKeys : cache[j] \in Transports
    BY DEF CachedKeys, TypeOK
  <2>2. \A j \in CachedKeys' : \/ j = k /\ cache'[j] = t
                              \/ /\ j \in CachedKeys /\ cache'[j] = cache[j]
                                 /\ cache[j] \in Transports \ {t, old}
    BY <1>3, <1>9, <1>10, <1>11, <2>1
  <2>3. \A i, j \in CachedKeys' : cache'[i] = cache'[j] => i = j
    BY <2>2 DEF CacheInv
  <2>4. \A j \in CachedKeys' : ~draining'[cache'[j]]
    BY <1>3, <1>8, <1>18, <2>2 DEF CacheInv
  <2>5. QED
    BY <1>13, <2>3, <2>4 DEF CacheInv
<1>20. CreatedInv'
  BY <1>2, <1>6, <1>7, <1>8, <1>12, <1>17, <1>18 DEF CreatedInv
<1>21. UseInv'
  BY <1>2, <1>3, <1>8, <1>12, <1>17, <1>18 DEF UseInv, TypeOK
<1>22. ShutInv' /\ LeftShut
  <2>1. holds[r] = None /\ \A u \in Transports : u # None
    BY <1>2 DEF TypeOK
  <2>2. \A u \in Transports \ {old} : Reachable(u) => Reachable(u)'
    BY <1>2, <1>12, <1>17, <2>1 DEF Reachable
  <2>3. \A u \in Transports : u = t => Reachable(u)'
    BY <1>12 DEF Reachable
  <2>4. \A u \in Transports \ {t} : multiplexed'[u] = multiplexed[u]
    BY <1>2 DEF TypeOK
  <2>5. /\ ~idle'[old] /\ closeIdle'[old] = ~multiplexed[old]
        /\ \A u \in Transports \ {old} : idle'[u] = idle[u] /\ closeIdle'[u] = closeIdle[u]
    BY <1>2, <1>8 DEF TypeOK
  <2>6. QED
    BY <1>2, <1>5, <1>8, <2>2, <2>3, <2>4, <2>5 DEF ShutInv, LeftShut
<1>23. DrainInv'
  <2>1. \A u \in Transports : active'[u] = IF u = t THEN 1 ELSE active[u]
    BY <1>2 DEF TypeOK
  <2>2. ToSet(drainList') = {u \in Transports : draining'[u] /\ active'[u] > 0}
    BY <1>2, <1>3, <1>8, <1>15, <1>18, <2>1 DEF DrainInv
  <2>3. QED
    BY <1>15, <2>2 DEF DrainInv
<1>24. QED
  BY <1>14, <1>16, <1>19, <1>20, <1>21, <1>22, <1>23

(* The steps of a round trip change nothing but the goroutine's place and  *)
(* the connections: a connection becomes idle only on a transport that is  *)
(* in use or that does not close idle ones.                                *)
LEMMA RoundTripKeeps ==
    ASSUME PoolInv, NEW r \in Requests, RoundTrip(r) \/ ReadToEOF(r) \/ Abort(r)
    PROVE  PoolInv' /\ LeftShut
<1> USE DEF PoolInv
<1>1. /\ UNCHANGED <<cache, lastUsed, active, draining, drainList, closed, created, now,
                     closing, holds, multiplexed>>
      /\ pc[r] \in {"acquired", "responding"}
      /\ \E to \in {"responding", "releasing"} : pc' = [pc EXCEPT ![r] = to]
  BY DEF RoundTrip, ReadToEOF, Abort, pool
<1>2. holds[r] \in Transports
  BY <1>1 DEF TypeOK
<1>3. /\ idle' \in [Transports -> BOOLEAN]
      /\ closeIdle' \in [Transports -> BOOLEAN]
      /\ dialing' \in [Transports -> BOOLEAN]
      /\ ending' \in [Transports -> BOOLEAN]
      /\ \A t \in Transports \ {holds[r]} : idle'[t] = idle[t] /\ closeIdle'[t] = closeIdle[t]
  <2>1. CASE RoundTrip(r)
    BY <1>2, <2>1 DEF RoundTrip, TypeOK
  <2>2. CASE ReadToEOF(r)
    BY <1>2, <2>2 DEF ReadToEOF, StreamEnds, TypeOK
  <2>3. CASE Abort(r)
    BY <1>2, <2>3 DEF Abort, StreamEnds, TypeOK
  <2>4. QED
    BY <2>1, <2>2, <2>3
<1>4. CachedKeys' = CachedKeys /\ Cached' = Cached
  BY <1>1 DEF CachedKeys, Cached
<1>5. \A t \in Transports : Users(t)' = Users(t)
  BY <1>1 DEF Users, TypeOK
<1>6. CountInv'
  BY <1>1, <1>5, UsersStand
<1>7. TypeOK'
  BY <1>1, <1>2, <1>3, <1>4 DEF TypeOK
<1>8. CacheInv' /\ CreatedInv' /\ UseInv' /\ DrainInv'
  BY <1>1, <1>4 DEF CacheInv, CreatedInv, UseInv, DrainInv
<1>9. ShutInv' /\ LeftShut
  <2>1. \A t \in Transports : Reachable(t)' <=> Reachable(t)
    BY <1>1, <1>4 DEF Reachable
  <2>2. Reachable(holds[r])
    BY DEF Reachable
  <2>3. QED
    BY <1>1, <1>3, <2>1, <2>2, StaysShut
<1>10. QED
  BY <1>6, <1>7, <1>8, <1>9

(* CloseIdleConnections keeps the types of what it changes.                *)
LEMMA Closes ==
    ASSUME PoolInv, NEW t \in Transports, CloseIdleConnections(t)
    PROVE  /\ idle' \in [Transports -> BOOLEAN] /\ closeIdle' \in [Transports -> BOOLEAN]
BY DEF PoolInv, TypeOK, CloseIdleConnections

(* releaseUpstreamTransport keeps it: the goroutine goes on holding the    *)
(* transport only to close its connections, and a transport that keeps     *)
(* them is cached or used by others.                                       *)
LEMMA ReleaseKeeps ==
    ASSUME PoolInv, NEW r \in Requests, Release(r)
    PROVE  PoolInv' /\ LeftShut
<1> USE DEF PoolInv
<1>0. PICK t \in Transports : t = holds[r]
  BY DEF Release, TypeOK
<1>1. /\ pc[r] = "releasing"
      /\ active' = [active EXCEPT ![t] = IF @ > 0 THEN @ - 1 ELSE @]
      /\ drainList' = IF Drained(t) THEN RemoveFirst(drainList, t) ELSE drainList
      /\ IF ClosesIdle(t) THEN /\ pc' = [pc EXCEPT ![r] = "closingIdle"]
                               /\ holds' = holds
         ELSE /\ pc' = [pc EXCEPT ![r] = "idle"]
              /\ holds' = [holds EXCEPT ![r] = None]
      /\ UNCHANGED <<cache, lastUsed, draining, closed, created, now, closing, idle, closeIdle,
                     dialing, multiplexed, ending>>
  BY <1>0 DEF Release, EndUse, external
<1>2. CachedKeys' = CachedKeys /\ Cached' = Cached
  BY <1>1 DEF CachedKeys, Cached
<1>3. /\ r \in Users(t) /\ Users(t)' = Users(t) \ {r}
      /\ \A q \in Requests \ {r} : holds'[q] = holds[q] /\ pc'[q] = pc[q]
      /\ holds'[r] \in {holds[r], None} /\ pc'[r] \in {"closingIdle", "idle"}
  <2>1. /\ \A q \in Requests \ {r} : holds'[q] = holds[q] /\ pc'[q] = pc[q]
        /\ holds'[r] \in {holds[r], None} /\ pc'[r] \in {"closingIdle", "idle"}
    <3>1. CASE ClosesIdle(t)
      BY <1>1, <3>1 DEF TypeOK
    <3>2. CASE ~ClosesIdle(t)
      BY <1>1, <3>2 DEF TypeOK
    <3>3. QED
      BY <3>1, <3>2
  <2>2. r \in Users(t)
    BY <1>0, <1>1 DEF Users
  <2>3. Users(t)' = Users(t) \ {r}
    BY <2>1 DEF Users
  <2>4. QED
    BY <2>1, <2>2, <2>3
<1>4. \A u \in Transports \ {t} : Users(u)' = Users(u)
  BY <1>0, <1>3 DEF Users
<1>5. /\ IsFiniteSet(Users(t)) /\ active[t] = Cardinality(Users(t)) /\ active[t] \in Nat
      /\ active[t] > 0
  BY <1>2, <1>3, FS_EmptySet DEF CountInv, TypeOK
<1>6. /\ IsFiniteSet(Users(t)') /\ active'[t] = Cardinality(Users(t)')
      /\ active'[t] = active[t] - 1
  <2>1. /\ IsFiniteSet(Users(t) \ {r})
        /\ Cardinality(Users(t) \ {r}) = Cardinality(Users(t)) - 1
    BY <1>3, <1>5, FS_RemoveElement
  <2>2. active'[t] = active[t] - 1
    BY <1>1, <1>2, <1>5 DEF TypeOK
  <2>3. QED
    BY <1>3, <1>5, <2>1, <2>2
<1>7. \A u \in Transports \ {t} : active'[u] = active[u]
  BY <1>1, <1>2 DEF TypeOK
<1>8. CountInv'
  <2> SUFFICES ASSUME NEW u \in Transports
               PROVE  IsFiniteSet(Users(u)') /\ active'[u] = Cardinality(Users(u)')
    BY DEF CountInv
  <2>1. CASE u = t
    BY <1>6, <2>1
  <2>2. CASE u # t
    <3>1. Users(u)' = Users(u) /\ active'[u] = active[u]
      BY <1>4, <1>7, <2>2
    <3>2. QED
      BY <3>1 DEF CountInv
  <2>3. QED
    BY <2>1, <2>2
<1>9. /\ drainList' \in Seq(Transports) /\ IsInjective(drainList')
      /\ ~closed => ToSet(drainList') = ToSet(drainList) \ {u \in {t} : Drained(u)}
      /\ closed => drainList' = drainList
  <2>1. CASE Drained(t) /\ ~closed
    <3>1. t \in ToSet(drainList)
      BY <1>2, <1>5, <2>1 DEF Drained, DrainInv
    <3>2. /\ drainList \in Seq(Transports) /\ IsInjective(drainList)
          /\ drainList' = RemoveFirst(drainList, t)
      BY <1>1, <2>1 DEF DrainInv, TypeOK
    <3>3. /\ drainList' \in Seq(Transports) /\ IsInjective(drainList')
          /\ ToSet(drainList') = ToSet(drainList) \ {t}
      BY <3>1, <3>2, RemoveElement
    <3>4. QED
      BY <2>1, <3>3
  <2>2. CASE Drained(t) /\ closed
    <3>1. drainList = <<>> /\ Len(drainList) = 0
      BY <2>2 DEF UseInv
    <3>2. RemoveFirst(drainList, t) = drainList
      BY <3>1 DEF RemoveFirst
    <3>3. QED
      BY <1>1, <2>2, <3>2 DEF DrainInv, TypeOK
  <2>3. CASE ~Drained(t)
    BY <1>1, <2>3 DEF DrainInv, TypeOK
  <2>4. QED
    BY <2>1, <2>2, <2>3
<1>10. active' \in [Transports -> Nat]
  BY <1>1, <1>2, <1>5 DEF TypeOK
<1>11. \A q \in Requests : holds'[q] = holds[q] \/ (q = r /\ holds'[q] = None)
  BY <1>3
<1>12. TypeOK'
  <2>1. /\ pc' \in [Requests -> {"idle", "acquired", "responding", "releasing",
                                "closingIdle", "done"}]
        /\ holds' \in [Requests -> Transports \cup {None}]
        /\ \A q \in Requests : holds'[q] = None <=> pc'[q] \in {"idle", "done"}
    <3>1. CASE ClosesIdle(t)
      BY <1>1, <3>1 DEF TypeOK
    <3>2. CASE ~ClosesIdle(t)
      BY <1>1, <3>2 DEF TypeOK
    <3>3. QED
      BY <3>1, <3>2
  <2>2. QED
    BY <1>1, <1>2, <1>9, <1>10, <2>1 DEF TypeOK
<1>13. CacheInv' /\ CreatedInv'
  <2>1. CacheInv'
    BY <1>1, <1>2 DEF CacheInv
  <2>2. \A u \in Transports, q \in Requests : holds'[q] = u => holds[q] = u
    BY <1>11
  <2>3. CreatedInv'
    BY <1>1, <1>2, <2>2 DEF CreatedInv
  <2>4. QED
    BY <2>1, <2>3
<1>14. UseInv'
  BY <1>1, <1>2, <1>9, <1>11 DEF UseInv
<1>15. DrainInv'
  <2>1. ASSUME ~closed
        PROVE  ToSet(drainList') = {u \in Transports : draining'[u] /\ active'[u] > 0}
    <3>1. Drained(t) => draining[t] /\ active'[t] = 0
      BY <1>6 DEF Drained
    <3>2. ~Drained(t) /\ draining[t] => active'[t] > 0
      BY <1>5, <1>6 DEF Drained
    <3>3. QED
      BY <1>1, <1>2, <1>5, <1>7, <1>9, <2>1, <3>1, <3>2 DEF DrainInv
  <2>2. QED
    BY <1>1, <1>9, <2>1 DEF DrainInv
<1>16. ShutInv' /\ LeftShut
  <2>1. \A u \in Transports \ {t} : Reachable(u) => Reachable(u)'
    BY <1>0, <1>1, <1>2, <1>3 DEF Reachable
  <2>2. Reachable(t)'
    <3>1. CASE ClosesIdle(t)
      BY <1>0, <1>1, <3>1 DEF Reachable
    <3>2. CASE ~ClosesIdle(t)
      <4>1. t \in Cached \/ (draining[t] /\ active[t] # 1)
        BY <1>0, <1>2, <3>2 DEF ClosesIdle, Drained, UseInv
      <4>2. CASE t \in Cached
        BY <1>2, <4>2 DEF Reachable
      <4>3. CASE active[t] # 1
        <5>1. active'[t] # 0
          BY <1>5, <1>6, <4>3
        <5>2. Users(t)' # {}
          BY <1>6, <5>1, FS_EmptySet
        <5>3. QED
          BY <5>2 DEF Users, Reachable
      <4>4. QED
        BY <4>1, <4>2, <4>3
    <3>3. QED
      BY <3>1, <3>2
  <2>3. QED
    BY <1>1, <2>1, <2>2, StaysShut
<1>17. QED
  BY <1>8, <1>12, <1>13, <1>14, <1>15, <1>16

(* It then closes the idle connections and lets go of the transport.       *)
LEMMA CloseReleasedKeeps ==
    ASSUME PoolInv, NEW r \in Requests, CloseReleased(r)
    PROVE  PoolInv' /\ LeftShut
<1> USE DEF PoolInv
<1> DEFINE t == holds[r]
<1>1. /\ UNCHANGED <<cache, lastUsed, active, draining, drainList, closed, created, now,
                     closing, dialing, multiplexed, ending>>
      /\ pc[r] = "closingIdle" /\ CloseIdleConnections(t)
      /\ pc' = [pc EXCEPT ![r] = "idle"]
      /\ holds' = [holds EXCEPT ![r] = None]
  BY DEF CloseReleased, EndUse, pool
<1>2. t \in Transports /\ CachedKeys' = CachedKeys /\ Cached' = Cached
  <2>1. t \in Transports
    BY <1>1 DEF TypeOK
  <2>2. CachedKeys' = CachedKeys /\ Cached' = Cached
    BY <1>1 DEF CachedKeys, Cached
  <2>3. QED
    BY <2>1, <2>2
<1>3. \A u \in Transports : Users(u)' = Users(u)
  BY <1>1 DEF Users, TypeOK
<1> HIDE DEF t
<1>4. \A q \in Requests : holds'[q] = IF q = r THEN None ELSE holds[q]
  BY <1>1 DEF TypeOK
<1>5. CountInv'
  BY <1>1, <1>3, UsersStand
<1>6. TypeOK'
  BY <1>1, <1>2, Closes DEF TypeOK
<1>7. CacheInv' /\ UseInv' /\ DrainInv'
  BY <1>1, <1>2, <1>4 DEF CacheInv, UseInv, DrainInv
<1>8. CreatedInv'
  <2>1. \A u \in Transports, q \in Requests : holds'[q] = u => holds[q] = u
    BY <1>4
  <2>2. QED
    BY <1>1, <1>2, <2>1 DEF CreatedInv
<1>9. ShutInv' /\ LeftShut
  <2>1. \A u \in Transports \ {t} : Reachable(u) => Reachable(u)'
    BY <1>1, <1>2, <1>4 DEF Reachable, t
  <2>2. QED
    BY <1>1, <1>2, <2>1, GetsShut
<1>10. QED
  BY <1>5, <1>6, <1>7, <1>8, <1>9

(* A closed handler refuses.                                               *)
LEMMA RefuseKeeps ==
    ASSUME PoolInv, NEW r \in Requests, Refuse(r)
    PROVE  PoolInv' /\ LeftShut
<1> USE DEF PoolInv
<1>1. /\ UNCHANGED <<cache, lastUsed, active, draining, drainList, closed, created, now,
                     closing, holds, idle, closeIdle, dialing, multiplexed, ending>>
      /\ pc[r] = "idle" /\ pc' = [pc EXCEPT ![r] = "done"]
  BY DEF Refuse, pool, external
<1>2. /\ CachedKeys' = CachedKeys /\ Cached' = Cached
      /\ \A t \in Transports : Users(t)' = Users(t)
  BY <1>1 DEF CachedKeys, Cached, Users, TypeOK
<1>3. CountInv'
  BY <1>1, <1>2, UsersStand
<1>4. TypeOK'
  BY <1>1, <1>2 DEF TypeOK
<1>5. CacheInv' /\ CreatedInv' /\ UseInv' /\ DrainInv'
  BY <1>1, <1>2 DEF CacheInv, CreatedInv, UseInv, DrainInv
<1>6. ShutInv' /\ LeftShut
  <2>1. \A t \in Transports : Reachable(t) => Reachable(t)'
    BY <1>1, <1>2 DEF Reachable
  <2>2. QED
    BY <1>1, <2>1, StaysShut
<1>7. QED
  BY <1>3, <1>4, <1>5, <1>6

(* A connection becomes idle by itself only where such are kept, and       *)
(* closes by itself anywhere.                                              *)
LEMMA ConnectionsKeep ==
    ASSUME PoolInv, NEW t \in Transports,
           SpareConnects(t) \/ ForgetStream(t) \/ IdleTimeout(t)
    PROVE  PoolInv' /\ LeftShut
<1> USE DEF PoolInv
<1>1. /\ UNCHANGED <<cache, lastUsed, active, draining, drainList, closed, created, now,
                     closing, pc, holds, closeIdle, multiplexed>>
      /\ dialing' \in [Transports -> BOOLEAN] /\ ending' \in [Transports -> BOOLEAN]
      /\ idle' \in [Transports -> BOOLEAN]
      /\ \A u \in Transports : ~idle[u] /\ closeIdle[u] => ~idle'[u]
  <2>1. CASE SpareConnects(t)
    BY <2>1 DEF SpareConnects, MayBecomeIdle, pool, TypeOK
  <2>2. CASE ForgetStream(t)
    BY <2>2 DEF ForgetStream, MayBecomeIdle, pool, TypeOK
  <2>3. CASE IdleTimeout(t)
    BY <2>3 DEF IdleTimeout, pool, TypeOK
  <2>4. QED
    BY <2>1, <2>2, <2>3
<1>2. /\ CachedKeys' = CachedKeys /\ Cached' = Cached
      /\ \A u \in Transports : Users(u)' = Users(u)
  BY <1>1 DEF CachedKeys, Cached, Users
<1>3. CountInv'
  BY <1>1, <1>2, UsersStand
<1>4. TypeOK'
  BY <1>1, <1>2 DEF TypeOK
<1>5. CacheInv' /\ CreatedInv' /\ UseInv' /\ DrainInv'
  BY <1>1, <1>2 DEF CacheInv, CreatedInv, UseInv, DrainInv
<1>6. ShutInv' /\ LeftShut
  <2>1. \A u \in Transports : Reachable(u) => Reachable(u)'
    BY <1>1, <1>2 DEF Reachable
  <2>2. QED
    BY <1>1, <2>1, StaysShut
<1>7. QED
  BY <1>3, <1>4, <1>5, <1>6

(* Close has the idle connections of one transport closed.                 *)
LEMMA CloseTransportKeeps ==
    ASSUME PoolInv, NEW t \in Transports, CloseTransport(t)
    PROVE  PoolInv' /\ LeftShut
<1> USE DEF PoolInv
<1>1. /\ UNCHANGED <<cache, lastUsed, active, draining, drainList, closed, created, now,
                     pc, holds, dialing, multiplexed, ending>>
      /\ closing' = closing \ {t} /\ CloseIdleConnections(t)
  BY DEF CloseTransport, pool
<1>2. /\ CachedKeys' = CachedKeys /\ Cached' = Cached
      /\ \A u \in Transports : Users(u)' = Users(u)
  BY <1>1 DEF CachedKeys, Cached, Users
<1>3. CountInv'
  BY <1>1, <1>2, UsersStand
<1>4. TypeOK'
  BY <1>1, <1>2, Closes DEF TypeOK
<1>5. CacheInv' /\ CreatedInv' /\ UseInv' /\ DrainInv'
  BY <1>1, <1>2 DEF CacheInv, CreatedInv, UseInv, DrainInv
<1>6. ShutInv' /\ LeftShut
  <2>1. \A u \in Transports \ {t} : Reachable(u) => Reachable(u)'
    BY <1>1, <1>2 DEF Reachable
  <2>2. QED
    BY <1>1, <2>1, GetsShut
<1>7. QED
  BY <1>3, <1>4, <1>5, <1>6

(* Close empties the pool and remembers what it held.                      *)
LEMMA CloseKeeps ==
    ASSUME PoolInv, Close
    PROVE  PoolInv' /\ LeftShut
<1> USE DEF PoolInv
<1>1. /\ UNCHANGED <<lastUsed, active, draining, created, now, pc, holds, idle, closeIdle,
                     dialing, multiplexed, ending>>
      /\ closed' = TRUE /\ drainList' = <<>>
      /\ closing' = closing \cup Cached \cup ToSet(drainList)
      /\ cache' = [k \in Keys |-> None]
  BY DEF Close, external
<1>2. /\ CachedKeys' = {} /\ Cached' = {}
      /\ \A u \in Transports : Users(u)' = Users(u)
  BY <1>1 DEF CachedKeys, Cached, Users
<1>3. IsFiniteSet(CachedKeys') /\ Cardinality(CachedKeys') = 0
  BY <1>2, FS_EmptySet
<1>4. /\ Cached \subseteq Transports /\ ToSet(drainList) \subseteq Transports
      /\ drainList' \in Seq(Transports) /\ IsInjective(drainList')
  <2>1. Cached \subseteq Transports
    BY DEF Cached, CachedKeys, TypeOK
  <2>2. ToSet(drainList) \subseteq Transports
    BY ElementOfSeq, LenProperties DEF ToSet, TypeOK
  <2>3. drainList' \in Seq(Transports) /\ DOMAIN drainList' = {}
    BY <1>1
  <2>4. QED
    BY <2>1, <2>2, <2>3 DEF IsInjective
<1>5. CountInv'
  BY <1>1, <1>2, UsersStand
<1>6. TypeOK'
  <2>1. 0 <= MaxCached
    OBVIOUS
  <2>2. QED
    BY <1>1, <1>3, <1>4, <2>1 DEF TypeOK
<1>7. \A t \in ToSet(drainList) : t <= created
  <2>1. CASE closed
    BY <2>1 DEF UseInv, ToSet
  <2>2. CASE ~closed
    BY <1>4, <2>2 DEF DrainInv, CreatedInv
  <2>3. QED
    BY <2>1, <2>2
<1>8. CacheInv' /\ UseInv' /\ DrainInv'
  BY <1>1, <1>2, <1>3, <1>4 DEF CacheInv, UseInv, DrainInv
<1>9. CreatedInv'
  BY <1>1, <1>2, <1>7 DEF CreatedInv
<1>10. ShutInv' /\ LeftShut
  <2>1. \A u \in Transports : Reachable(u) => Reachable(u)'
    BY <1>1 DEF Reachable
  <2>2. QED
    BY <1>1, <2>1, StaysShut
<1>11. QED
  BY <1>5, <1>6, <1>8, <1>9, <1>10

(* The invariant is inductive, and no step puts an HTTP/2 transport with   *)
(* an idle connection out of reach.                                        *)
LEMMA PoolStep == PoolInv /\ [Next]_vars => PoolInv' /\ LeftShut
<1> SUFFICES ASSUME PoolInv, [Next]_vars
             PROVE  PoolInv' /\ LeftShut
  OBVIOUS
<1>1. CASE UNCHANGED vars
  <2>1. /\ CachedKeys' = CachedKeys /\ Cached' = Cached
        /\ \A t \in Transports : Users(t)' = Users(t) /\ (Reachable(t)' <=> Reachable(t))
    BY <1>1 DEF vars, CachedKeys, Cached, Users, Reachable
  <2>2. CountInv'
    BY <1>1, <2>1, UsersStand DEF vars
  <2>3. TypeOK'
    BY <1>1, <2>1 DEF vars, PoolInv, TypeOK
  <2>4. ShutInv' /\ LeftShut
    BY <1>1, <2>1, StaysShut DEF vars
  <2>5. QED
    BY <1>1, <2>1, <2>2, <2>3, <2>4 DEF vars, PoolInv, CacheInv, CreatedInv, UseInv, DrainInv
<1>2. ASSUME NEW r \in Requests, NEW k \in Keys, Acquire(r, k)
      PROVE  PoolInv' /\ LeftShut
  BY <1>2, AcquireCachedKeeps, AcquireNewKeeps, AcquireEvictingKeeps DEF Acquire
<1>3. QED
  BY <1>1, <1>2, RoundTripKeeps, ReleaseKeeps, CloseReleasedKeeps, RefuseKeeps,
     ConnectionsKeep, CloseTransportKeeps, CloseKeeps DEF Next, RequestStep

(* It holds in every reachable state.                                      *)
THEOREM PoolInvariant == Spec => []PoolInv
BY PoolInit, PoolStep, PTL DEF Spec

(* Use counts are exact, the pool keeps its limit, and the draining list   *)
(* holds the evicted transports still in use (transport.go:85-87,          *)
(* 133-181).                                                               *)
THEOREM Accounts == Spec => []AccountsExact
<1>1. PoolInv => AccountsExact
  BY DEF PoolInv, CountInv, DrainInv, AccountsExact
<1>2. QED
  BY <1>1, PoolInvariant, PTL

(* A transport out of reach has no idle HTTP/1 connection and will have    *)
(* none; an HTTP/2 one has none when it gets out of reach                  *)
(* (transport.go:146, 167, 270).                                           *)
THEOREM NothingLeaks == Spec => NoIdleLeak
<1> DEFINE Shut == \A t \in 1..created' : ~Reachable(t)' =>
              IF multiplexed'[t] THEN idle'[t] => ~Reachable(t)
                                 ELSE ~idle'[t] /\ closeIdle'[t]
<1>1. PoolInv /\ [Next]_vars => Shut
  <2> SUFFICES ASSUME PoolInv, [Next]_vars
               PROVE  Shut
    OBVIOUS
  <2>1. ShutInv' /\ LeftShut
    BY PoolStep DEF PoolInv
  <2>2. QED
    BY <2>1 DEF ShutInv, LeftShut
<1>2. PoolInv /\ [Next]_vars => [Shut]_vars
  BY <1>1
<1> HIDE DEF Shut
<1>3. Spec => [][Shut]_vars
  BY <1>2, PoolInvariant, PTL DEF Spec
<1>4. QED
  BY <1>3 DEF NoIdleLeak, Shut
=============================================================================
