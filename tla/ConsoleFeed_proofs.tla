------------------------- MODULE ConsoleFeed_proofs -------------------------
(***************************************************************************)
(* The invariants of ConsoleFeed hold for every number of flows, rows and  *)
(* event sources, every page size and every set of filters.                *)
(*                                                                         *)
(* Two facts need strengthening.  An operator's pause must be told from    *)
(* one that a drawer made, or closing a drawer could end it; and that the  *)
(* end of the list is complete needs, before the end is reached, that what *)
(* the list misses of the active filter is still to come with older pages. *)
(***************************************************************************)
EXTENDS ConsoleFeed, FiniteSetTheorems, TLAPS

USE FeedAssumption
-----------------------------------------------------------------------------
(* The inductive invariant.                                                *)

(* A pause that toggleFeed made is not one that dismissDetail ends.        *)
PauseInv == wantsPause => isPaused /\ ~pausedByDetail

(* The flows a request of loadPage asks for, as of its answer.             *)
Wanted(r) ==
    {i \in 1..r.asOf : /\ i \in Matching[r.params]
                       /\ r.before = 0 \/ i < r.before}

(* An answered request holds a page of them, and reaches at least as far   *)
(* as the list was read from its top.                                      *)
AnswerInv ==
    /\ promised <= newest
    /\ loading # None /\ loading.page # None =>
          /\ promised <= loading.asOf /\ loading.asOf <= newest
          /\ loading.page = NewestOf(Wanted(loading), PageSize)

(* In an undisturbed list, a request for older flows continues at the      *)
(* cursor, and promised flows that are not listed are older than it.       *)
PagingInv ==
    ~disturbed =>
       /\ loading # None /\ loading.before # 0 => loading.before = nextBeforeID
       /\ \A i \in 1..promised : i \in Matching[filter] =>
              \/ i \in rows
              \/ hasMore /\ (nextBeforeID = 0 \/ i < nextBeforeID)

(* A running feed has a source, be it a refused one, or waits to open one. *)
SourceInv ==
    isPaused \/ events # None \/ (loading # None /\ loading.resume)

(* All of it.                                                              *)
FeedInv ==
    /\ TypeOK
    /\ (selectedID # None => selectedID \in rows)
    /\ PauseInv
    /\ SourceInv
    /\ AnswerInv
    /\ PagingInv
-----------------------------------------------------------------------------
(* Pages and evictions.                                                    *)

(* The members of a set that have fewer than n smaller ones by a key.      *)
Below(R, K, x) == {y \in R : K[y] < K[x]}
Least(R, K, n) == {x \in R : Cardinality(Below(R, K, x)) < n}

(* They are n and smaller than all others, unless they are all there are:  *)
(* counting the smaller members maps a finite set one to one onto the      *)
(* numbers below its cardinality.                                          *)
LEMMA Smallest ==
    ASSUME NEW R, IsFiniteSet(R), NEW K \in [R -> Int], NEW n \in Nat,
           \A x, y \in R : K[x] = K[y] => x = y
    PROVE  /\ IsFiniteSet(Least(R, K, n))
           /\ \A x \in R \ Least(R, K, n) :
                 /\ Cardinality(Least(R, K, n)) = n
                 /\ \A y \in Least(R, K, n) : K[y] < K[x]
<1> DEFINE T == Least(R, K, n)
           c == Cardinality(R)
           r == [x \in R |-> Cardinality(Below(R, K, x))]
<1>1. c \in Nat
  BY FS_CardinalityType
<1>2. ASSUME NEW x \in R
      PROVE  IsFiniteSet(Below(R, K, x)) /\ r[x] \in 0..c - 1
  <2>1. Below(R, K, x) \subseteq R /\ x \notin Below(R, K, x)
    BY K[x] \in Int DEF Below
  <2>2. /\ IsFiniteSet(Below(R, K, x)) /\ Cardinality(Below(R, K, x)) <= c
        /\ Cardinality(R) = Cardinality(Below(R, K, x)) => R = Below(R, K, x)
    BY <2>1, FS_Subset, Zenon
  <2>3. Cardinality(Below(R, K, x)) \in Nat
    BY <2>2, FS_CardinalityType
  <2>4. Cardinality(Below(R, K, x)) # c
    BY <2>1, <2>2
  <2> HIDE DEF c
  <2>5. QED
    BY <1>1, <2>2, <2>3, <2>4
<1>3. ASSUME NEW x \in R, NEW y \in R, K[x] < K[y]
      PROVE  r[x] < r[y]
  <2>1. /\ Below(R, K, x) \subseteq Below(R, K, y) /\ x \in Below(R, K, y)
        /\ x \notin Below(R, K, x)
    BY <1>3 DEF Below
  <2>2. /\ Cardinality(Below(R, K, x)) <= Cardinality(Below(R, K, y))
        /\ Cardinality(Below(R, K, y)) = Cardinality(Below(R, K, x)) =>
              Below(R, K, y) = Below(R, K, x)
    BY <1>2, <2>1, FS_Subset, Zenon
  <2>3. /\ Cardinality(Below(R, K, x)) \in Nat
        /\ Cardinality(Below(R, K, y)) \in Nat
    BY <1>2, FS_CardinalityType
  <2>4. QED
    BY <2>1, <2>2, <2>3
<1>4. T = {x \in R : r[x] < n}
  BY DEF Least
<1> HIDE DEF c, T
<1>5. r \in Injection(R, 0..c - 1)
  <2>1. r \in [R -> 0..c - 1]
    BY <1>2
  <2>2. ASSUME NEW x \in R, NEW y \in R, r[x] = r[y] PROVE x = y
    <3>1. r[x] \in Int /\ r[y] \in Int
      BY <1>1, <1>2
    <3> HIDE DEF r
    <3>2. ~(K[x] < K[y]) /\ ~(K[y] < K[x])
      BY <1>3, <2>2, <3>1
    <3>3. QED
      BY <3>2
  <2> HIDE DEF r
  <2>3. QED
    BY <2>1, <2>2 DEF Injection, IsInjective
<1>6. r \in Surjection(R, 0..c - 1)
  <2>1. IsFiniteSet(0..c - 1) /\ Cardinality(0..c - 1) = c
    BY <1>1, FS_Interval
  <2> HIDE DEF r
  <2>2. QED
    BY <1>5, <2>1, FS_Injection DEF c
<1>7. IsFiniteSet(T)
  BY <1>4, FS_Subset
<1> HIDE DEF r
<1>8. ASSUME NEW x \in R \ T
      PROVE  Cardinality(T) = n /\ \A y \in T : K[y] < K[x]
  <2>1. x \in R /\ n <= r[x] /\ r[x] \in 0..c - 1
    BY <1>4, <1>1, <1>2
  <2>2. ASSUME NEW y \in T PROVE K[y] < K[x]
    <3>1. y \in R /\ r[y] < n /\ r[y] \in 0..c - 1
      BY <1>4, <1>2
    <3>2. ~(K[x] < K[y]) /\ K[x] # K[y]
      BY <1>1, <1>3, <2>1, <3>1
    <3>3. QED
      BY <2>1, <3>1, <3>2
  <2>3. Cardinality(T) = n
    <3> DEFINE g == [y \in T |-> r[y]]
    <3>1. g \in Injection(T, 0..n - 1) /\ g \in Surjection(T, 0..n - 1)
      <4>1. \A y \in T : g[y] = r[y] /\ r[y] \in 0..n - 1 /\ y \in R
        BY <1>4, <1>1, <1>2
      <4>2. \A y, z \in T : g[y] = g[z] => y = z
        BY <1>5, <4>1 DEF Injection, IsInjective
      <4>3. \A m \in 0..n - 1 : \E y \in T : g[y] = m
        <5> TAKE m \in 0..n - 1
        <5>1. m \in 0..c - 1 /\ m < n
          BY <1>1, <2>1
        <5>2. PICK y \in R : r[y] = m
          BY <1>6, <5>1 DEF Surjection
        <5>3. QED
          BY <1>4, <5>1, <5>2
      <4>4. g \in [T -> 0..n - 1]
        BY <4>1
      <4> HIDE DEF g
      <4>5. g \in Injection(T, 0..n - 1)
        BY <4>2, <4>4 DEF Injection, IsInjective
      <4>6. g \in Surjection(T, 0..n - 1)
        BY <4>3, <4>4 DEF Surjection
      <4>7. QED
        BY <4>5, <4>6
    <3>2. IsFiniteSet(0..n - 1) /\ Cardinality(0..n - 1) = n
      BY FS_Interval
    <3> HIDE DEF g
    <3>3. Cardinality(T) = Cardinality(0..n - 1)
      BY <3>1, <3>2, FS_Injection
    <3>4. QED
      BY <3>2, <3>3
  <2>4. QED
    BY <2>2, <2>3
<1>9. QED
  BY <1>7, <1>8 DEF T

(* There are finitely many flows.                                          *)
LEMMA FiniteIds ==
    ASSUME NEW R \in SUBSET Ids
    PROVE  R \subseteq Int /\ IsFiniteSet(R)
<1>1. IsFiniteSet(1..MaxFlows)
  <2>1. 1 \in Int /\ MaxFlows \in Int
    OBVIOUS
  <2>2. QED
    BY <2>1, FS_Interval
<1>2. IsFiniteSet(R)
  BY <1>1, FS_Subset DEF Ids
<1>3. R \subseteq Int
  BY DEF Ids
<1>4. QED
  BY <1>2, <1>3

(* A page is short only if it is all there is, and what it leaves out is   *)
(* older.                                                                  *)
LEMMA NewestAre ==
    ASSUME NEW R \in SUBSET Ids, NEW n \in Nat
    PROVE  /\ NewestOf(R, n) \subseteq R
           /\ \A i \in R \ NewestOf(R, n) :
                 /\ Cardinality(NewestOf(R, n)) = n
                 /\ \A j \in NewestOf(R, n) : i < j
<1> DEFINE K == [i \in R |-> -i]
           T == Least(R, K, n)
<1>1. R \subseteq Int /\ IsFiniteSet(R)
  BY FiniteIds
<1>2. K \in [R -> Int] /\ \A i \in R : K[i] = -i
  BY <1>1
<1> HIDE DEF K
<1>3. \A i, j \in R : K[i] = K[j] => i = j
  BY <1>1, <1>2
<1>4. \A i \in R \ T : Cardinality(T) = n /\ \A j \in T : K[j] < K[i]
  BY <1>1, <1>2, <1>3, Smallest
<1>5. NewestOf(R, n) = T
  <2>1. \A i \in R : Below(R, K, i) = {j \in R : j > i}
    <3>1. \A i, j \in R : K[j] < K[i] <=> j > i
      BY <1>1, <1>2
    <3>2. QED
      BY <3>1 DEF Below
  <2>2. QED
    BY <2>1 DEF NewestOf, Least
<1>6. T \subseteq R
  BY DEF Least
<1> HIDE DEF T
<1>7. ASSUME NEW i \in R \ T, NEW j \in T PROVE i < j
  <2>1. -j < -i /\ i \in Int /\ j \in Int
    BY <1>1, <1>2, <1>4, <1>6
  <2>2. QED
    BY <2>1
<1>8. QED
  BY <1>4, <1>5, <1>6, <1>7

(* Eviction drops as many rows as it has to, or all it may.                *)
LEMMA OldestAre ==
    ASSUME NEW R \in SUBSET Ids, NEW n \in Nat
    PROVE  /\ OldestOf(R, n) \subseteq R
           /\ \A i \in R \ OldestOf(R, n) : Cardinality(OldestOf(R, n)) = n
<1> DEFINE K == [i \in R |-> i]
           T == Least(R, K, n)
<1>1. R \subseteq Int /\ IsFiniteSet(R)
  BY FiniteIds
<1>2. K \in [R -> Int] /\ \A i \in R : K[i] = i
  BY <1>1
<1> HIDE DEF K
<1>3. \A i, j \in R : K[i] = K[j] => i = j
  BY <1>1, <1>2
<1>4. \A i \in R \ T : Cardinality(T) = n
  BY <1>1, <1>2, <1>3, Smallest
<1>5. OldestOf(R, n) = T
  <2>1. \A i \in R : Below(R, K, i) = {j \in R : j < i}
    BY <1>2 DEF Below
  <2>2. QED
    BY <2>1 DEF OldestOf, Least
<1>6. T \subseteq R
  BY DEF Least
<1> HIDE DEF T
<1>7. QED
  BY <1>4, <1>5, <1>6

(* The cursor is the smallest id of a page.                                *)
LEMMA CursorIs ==
    ASSUME NEW R \in SUBSET Ids, R # {}
    PROVE  MinID(R) \in R /\ \A i \in R : MinID(R) <= i
<1> DEFINE K == [i \in R |-> i]
           T == Least(R, K, 1)
<1>1. R \subseteq Int /\ IsFiniteSet(R)
  BY FiniteIds
<1>2. K \in [R -> Int] /\ \A i \in R : K[i] = i
  BY <1>1
<1> HIDE DEF K
<1>3. \A i \in R \ T : Cardinality(T) = 1
  <2>1. 1 \in Nat /\ \A i, j \in R : K[i] = K[j] => i = j
    BY <1>2
  <2>2. QED
    BY <1>1, <1>2, <2>1, Smallest
<1>4. PICK m \in R : m \in T
  <2> HIDE DEF T
  <2>1. Cardinality({}) # 1
    BY FS_EmptySet
  <2>2. T \subseteq R
    BY DEF T, Least
  <2>3. ASSUME T = {} PROVE FALSE
    <3>1. PICK i \in R : i \notin T
      BY <2>3
    <3>2. QED
      BY <1>3, <2>1, <2>3, <3>1
  <2>4. QED
    BY <2>2, <2>3
<1>5. \A j \in R : m <= j
  <2> DEFINE B == Below(R, K, m)
  <2>1. B \subseteq R /\ Cardinality(B) < 1
    BY <1>4 DEF Least, Below
  <2> HIDE DEF B
  <2>2. IsFiniteSet(B) /\ Cardinality(B) \in Nat
    BY <1>1, <2>1, FS_Subset, FS_CardinalityType
  <2>3. Cardinality(B) = 0
    BY <2>1, <2>2
  <2>4. B = {}
    BY <2>2, <2>3, FS_EmptySet
  <2>5. \A j \in R : ~(j < m)
    BY <1>2, <2>4 DEF B, Below
  <2>6. QED
    BY <1>1, <2>5
<1>6. \E i \in R : \A j \in R : i <= j
  BY <1>5
<1>7. QED
  BY <1>6, Zenon DEF MinID

(* evictOverflow makes room in the list and spares the selected flow.      *)
LEMMA EvictOverflow ==
    ASSUME NEW ids \in SUBSET Ids
    PROVE  /\ Evict(ids) \subseteq ids
           /\ Cardinality(Evict(ids)) <= MaxRows
           /\ selectedID \in ids => selectedID \in Evict(ids)
<1> DEFINE E == ids \ {selectedID}
           k == Cardinality(ids) - MaxRows
           T == OldestOf(E, k)
<1>1. IsFiniteSet(ids) /\ Cardinality(ids) \in Nat /\ MaxRows \in Nat \ {0}
  <2>1. IsFiniteSet(ids)
    BY FiniteIds
  <2>2. QED
    BY <2>1, FS_CardinalityType
<1>2. CASE Cardinality(ids) <= MaxRows
  BY <1>2 DEF Evict
<1>3. CASE ~(Cardinality(ids) <= MaxRows)
  <2>1. Evict(ids) = ids \ T
    BY <1>3 DEF Evict, Evictable, Removable
  <2>2. k \in Nat
    BY <1>1, <1>3
  <2>3. E \in SUBSET Ids /\ E \subseteq ids
    OBVIOUS
  <2>4. /\ IsFiniteSet(E) /\ Cardinality(E) \in Nat
        /\ Cardinality(ids) <= Cardinality(E) + 1
    <3>1. IsFiniteSet(E)
      BY FiniteIds
    <3>2. Cardinality(E) = IF selectedID \in ids THEN Cardinality(ids) - 1
                           ELSE Cardinality(ids)
      BY <1>1, FS_RemoveElement
    <3>3. Cardinality(E) \in Nat
      BY <3>1, FS_CardinalityType
    <3> HIDE DEF E
    <3>4. QED
      BY <1>1, <3>1, <3>2, <3>3
  <2> HIDE DEF E, k
  <2>5. T \subseteq E /\ \A i \in E \ T : Cardinality(T) = k
    BY <2>2, <2>3, OldestAre
  <2> HIDE DEF T
  <2>6. IsFiniteSet(T) /\ T \subseteq ids
    BY <2>3, <2>4, <2>5, FS_Subset
  <2>7. Cardinality(ids \ T) = Cardinality(ids) - Cardinality(T)
    <3>1. ids \cap T = T
      BY <2>6
    <3>2. QED
      BY <1>1, <2>6, <3>1, FS_Difference
  <2>8. Cardinality(T) = Cardinality(E) \/ Cardinality(T) = k
    BY <2>5
  <2>9. Cardinality(ids \ T) <= MaxRows
    BY <1>1, <2>4, <2>7, <2>8 DEF k
  <2>10. selectedID \notin T
    BY <2>5 DEF E
  <2>11. QED
    BY <2>1, <2>9, <2>10
<1>4. QED
  BY <1>2, <1>3

-----------------------------------------------------------------------------
(* Requests and event sources.                                             *)

(* A new request, which is not None.                                       *)
LEMMA NewRequest ==
    ASSUME form \in Filters, NEW before \in 0..MaxFlows, NEW b \in BOOLEAN
    PROVE  /\ Load(before, b) \in Request /\ Load(before, b) # None
           /\ Load(before, b).before = before /\ Load(before, b).resume = b
           /\ Load(before, b).page = None
           /\ Load(before, b).params = form
<1>1. Load(before, b) \in Request
  BY DEF Load, Request
<1>2. QED
  BY <1>1 DEF Load

(* A stream is not None.                                                   *)
LEMMA StreamNotNone == \A x \in Stream : x # None
BY Zenon

(* Streams that are closed and opened.                                     *)
LEMMA StreamTypes ==
    ASSUME TypeOK
    PROVE  /\ Closed \in [1..MaxStreams -> Stream \cup {None}]
           /\ \A open \in [1..MaxStreams -> Stream \cup {None}] :
                 Connect(open) =>
                    /\ streams' \in [1..MaxStreams -> Stream \cup {None}]
                    /\ events' \in 1..MaxStreams
                    /\ events' # None /\ streams'[events'] # None
<1>1. /\ streams \in [1..MaxStreams -> Stream \cup {None}]
      /\ events \in 0..MaxStreams \cup {None}
      /\ form \in Filters
  BY DEF TypeOK
<1>2. Closed \in [1..MaxStreams -> Stream \cup {None}]
  BY <1>1 DEF Closed, Refused
<1>3. ASSUME NEW open \in [1..MaxStreams -> Stream \cup {None}], Connect(open)
      PROVE  /\ streams' \in [1..MaxStreams -> Stream \cup {None}]
             /\ events' \in 1..MaxStreams
             /\ events' # None /\ streams'[events'] # None
  <2>1. PICK s \in 1..MaxStreams :
           /\ streams' = [open EXCEPT ![s] =
                 [params |-> form, subscribed |-> FALSE, pending |-> {}]]
           /\ events' = s
    BY <1>3 DEF Connect
  <2>2. [params |-> form, subscribed |-> FALSE, pending |-> {}] \in Stream
    BY <1>1 DEF Stream
  <2>3. streams' \in [1..MaxStreams -> Stream \cup {None}] /\ streams'[s] \in Stream
    BY <2>1, <2>2
  <2>4. streams'[events'] # None
    BY <2>1, <2>3, StreamNotNone, Zenon
  <2>5. QED
    BY <2>1, <2>3, <2>4
<1>4. QED
  BY <1>2, <1>3

(* The types of the streams and of the variable events.                   *)
LiveTypes ==
    /\ streams \in [1..MaxStreams -> Stream \cup {None}]
    /\ events \in 0..MaxStreams \cup {None}
    /\ events \in 1..MaxStreams => streams[events] # None

(* resumeFeed connects, or has its request connect later.                  *)
LEMMA Resumed ==
    ASSUME TypeOK, ResumeFeed
    PROVE  /\ isPaused' = FALSE /\ pausedByDetail' = FALSE
           /\ loading' \in Request /\ loading' # None
           /\ LiveTypes'
           /\ loading = None => loading' = Load(0, TRUE) /\ loading'.resume
           /\ loading # None => loading' = loading /\ events' # None
<1>1. loading = None => loading' = Load(0, TRUE)
  BY DEF ResumeFeed
<1>2. loading # None => loading' = loading /\ loading \in Request
  BY DEF ResumeFeed, TypeOK
<1>3. /\ Load(0, TRUE) \in Request /\ Load(0, TRUE) # None
      /\ Load(0, TRUE).resume = TRUE
  <2>1. 0 \in 0..MaxFlows /\ TRUE \in BOOLEAN /\ form \in Filters
    BY DEF TypeOK
  <2>2. QED
    BY <2>1, NewRequest
<1>4. LiveTypes' /\ (loading # None => events' # None)
  <2>1. CASE loading = None
    BY <2>1 DEF ResumeFeed, ConnectsAtOnce, TypeOK, LiveTypes, live
  <2>2. CASE loading # None
    BY <2>2, StreamTypes DEF ResumeFeed, ConnectsAtOnce, TypeOK, LiveTypes
  <2>3. QED
    BY <2>1, <2>2
<1>5. QED
  BY <1>1, <1>2, <1>3, <1>4 DEF ResumeFeed

(* pauseFeed closes the event source.                                      *)
LEMMA Paused ==
    ASSUME TypeOK, PauseFeed
    PROVE  LiveTypes' /\ isPaused' = TRUE
BY StreamTypes DEF PauseFeed, LiveTypes

(* When a request has ended, a feed that waited for it connects.           *)
LEMMA Ended ==
    ASSUME TypeOK, AfterLoad
    PROVE  /\ LiveTypes' /\ loading' = None
           /\ loading.resume /\ ~isPaused => events' # None
           /\ ~(loading.resume /\ ~isPaused) => events' = events
<1>1. CASE loading.resume /\ ~isPaused
  BY <1>1, StreamTypes DEF AfterLoad, TypeOK, LiveTypes
<1>2. CASE ~(loading.resume /\ ~isPaused)
  BY <1>2 DEF AfterLoad, TypeOK, LiveTypes, live
<1>3. QED
  BY <1>1, <1>2 DEF AfterLoad

(* The server answers with the newest of the flows that were asked for.    *)
LEMMA Answered ==
    ASSUME TypeOK, Answer
    PROVE  /\ loading' \in Request /\ loading' # None
           /\ loading'.before = loading.before
           /\ loading'.resume = loading.resume
           /\ loading'.asOf = newest
           /\ loading'.page = NewestOf(Wanted(loading'), PageSize)
<1>1. /\ loading \in Request /\ loading.params \in Filters
      /\ loading.before \in 0..MaxFlows /\ newest \in 0..MaxFlows
  BY DEF TypeOK, Answer, Request
<1> DEFINE found == {i \in 1..newest :
                        /\ i \in Matching[loading.params]
                        /\ loading.before = 0 \/ i < loading.before}
<1>2. found \in SUBSET Ids
  BY <1>1 DEF Ids
<1>3. loading' = [loading EXCEPT !.page = NewestOf(found, PageSize),
                                 !.asOf = newest]
  BY Zenon DEF Answer
<1>4. \A r : r.asOf = newest /\ r.params = loading.params
            /\ r.before = loading.before => Wanted(r) = found
  BY DEF Wanted
<1> HIDE DEF found
<1>5. NewestOf(found, PageSize) \in SUBSET Ids
  BY <1>2, NewestAre
<1>6. /\ loading' \in Request /\ loading'.asOf = newest
      /\ loading'.before = loading.before /\ loading'.params = loading.params
      /\ loading'.resume = loading.resume
      /\ loading'.page = NewestOf(found, PageSize)
  BY <1>1, <1>3, <1>5 DEF Request
<1>7. Wanted(loading') = found
  BY <1>4, <1>6
<1>8. QED
  BY <1>6, <1>7

-----------------------------------------------------------------------------
(* Types.                                                                  *)

(* The flags of the page.                                                  *)
Booleans ==
    /\ isPaused \in BOOLEAN /\ pausedByDetail \in BOOLEAN
    /\ wantsPause \in BOOLEAN /\ disturbed \in BOOLEAN

(* Every callback keeps the types, and MAX_ROWS.                           *)
LEMMA TypesKept == TypeOK /\ [Next]_vars => TypeOK'
<1> SUFFICES ASSUME TypeOK, [Next]_vars PROVE TypeOK'
  OBVIOUS
<1>1. /\ newest \in 0..MaxFlows /\ form \in Filters /\ filter \in Filters
      /\ rows \subseteq Ids /\ Cardinality(rows) <= MaxRows
      /\ nextBeforeID \in 0..MaxFlows /\ hasMore \in BOOLEAN
      /\ loading \in Request \cup {None}
      /\ LiveTypes /\ Booleans
      /\ selectedID \in Ids \cup {None} /\ promised \in 0..MaxFlows
  BY DEF TypeOK, LiveTypes, Booleans
<1>2. ASSUME newest' \in 0..MaxFlows, form' \in Filters, filter' \in Filters,
             rows' \subseteq Ids, Cardinality(rows') <= MaxRows,
             nextBeforeID' \in 0..MaxFlows, hasMore' \in BOOLEAN,
             loading' \in Request \cup {None}, LiveTypes', Booleans',
             selectedID' \in Ids \cup {None}, promised' \in 0..MaxFlows
      PROVE  TypeOK'
  BY <1>2 DEF TypeOK, LiveTypes, Booleans
<1>3. CASE Edit
  BY <1>1, <1>2, <1>3 DEF Edit, list, live, pause, history, LiveTypes, Booleans
<1>4. CASE ApplyFilters
  <2>1. /\ filter' = form /\ selectedID' = None /\ rows' = {}
        /\ nextBeforeID' = 0
        /\ hasMore' = TRUE /\ wantsPause' = FALSE
        /\ disturbed' \in BOOLEAN
        /\ UNCHANGED <<newest, form, promised>>
    BY <1>4 DEF ApplyFilters
  <2>2. Cardinality({}) = 0 /\ 0 <= MaxRows
    BY FS_EmptySet
  <2>3. /\ loading' \in Request \cup {None} /\ LiveTypes'
        /\ isPaused' \in BOOLEAN /\ pausedByDetail' \in BOOLEAN
    <3>1. CASE isPaused
      BY <1>4, <3>1, Resumed DEF ApplyFilters
    <3>2. CASE ~isPaused
      <4>1. /\ loading' = IF loading = None THEN Load(0, FALSE) ELSE loading
            /\ Connect(Closed)
            /\ isPaused' = isPaused /\ pausedByDetail' = pausedByDetail
        BY <1>4, <3>2 DEF ApplyFilters
      <4>2. LiveTypes'
        BY <4>1, StreamTypes DEF LiveTypes
      <4>3. Load(0, FALSE) \in Request
        <5>1. 0 \in 0..MaxFlows /\ FALSE \in BOOLEAN
          OBVIOUS
        <5>2. QED
          BY <1>1, <5>1, NewRequest
      <4>4. QED
        BY <1>1, <4>1, <4>2, <4>3 DEF Booleans
    <3>3. QED
      BY <3>1, <3>2
  <2>4. Booleans'
    BY <2>1, <2>3 DEF Booleans
  <2>5. QED
    BY <1>1, <1>2, <2>1, <2>2, <2>3, <2>4
<1>5. CASE LoadOlder
  <2>1. Load(nextBeforeID, FALSE) \in Request
    <3>1. FALSE \in BOOLEAN
      OBVIOUS
    <3>2. QED
      BY <1>1, <3>1, NewRequest
  <2>2. QED
    BY <1>1, <1>2, <1>5, <2>1
       DEF LoadOlder, list, live, pause, history, LiveTypes, Booleans
<1>6. CASE Answer
  <2>1. loading' \in Request
    BY <1>6, Answered
  <2>2. QED
    BY <1>1, <1>2, <1>6, <2>1
       DEF Answer, list, live, pause, history, LiveTypes, Booleans
<1>7. CASE Receive
  <2>1. /\ loading \in Request /\ loading.page \in SUBSET Ids
        /\ loading.asOf \in 0..MaxFlows
    BY <1>1, <1>7 DEF Receive, Request
  <2>2. rows' \subseteq Ids /\ Cardinality(rows') <= MaxRows
    <3>1. rows \cup loading.page \in SUBSET Ids
      BY <1>1, <2>1
    <3>2. rows' = Evict(rows \cup loading.page)
      BY <1>7 DEF Receive
    <3>3. QED
      BY <3>1, <3>2, EvictOverflow
  <2>3. nextBeforeID' \in 0..MaxFlows
    <3>1. CASE loading.page = {}
      BY <1>1, <1>7, <3>1 DEF Receive
    <3>2. CASE loading.page # {}
      <4>1. MinID(loading.page) \in Ids
        BY <2>1, <3>2, CursorIs
      <4>2. nextBeforeID' = MinID(loading.page)
        BY <1>7, <3>2 DEF Receive, NextBefore
      <4>3. QED
        BY <4>1, <4>2 DEF Ids
    <3>3. QED
      BY <3>1, <3>2
  <2>4. LiveTypes' /\ loading' = None
    BY <1>7, Ended DEF Receive
  <2>5. promised' \in 0..MaxFlows
    BY <1>1, <1>7, <2>1 DEF Receive
  <2>6. /\ hasMore' \in BOOLEAN /\ disturbed' \in BOOLEAN
        /\ UNCHANGED <<newest, form, filter, isPaused, pausedByDetail,
                       wantsPause, selectedID>>
    BY <1>7 DEF Receive, pause
  <2>7. Booleans'
    BY <1>1, <2>6 DEF Booleans
  <2>8. QED
    BY <1>1, <1>2, <2>2, <2>3, <2>4, <2>5, <2>6, <2>7
<1>8. CASE FailLoad
  <2>1. LiveTypes' /\ loading' = None
    BY <1>8, Ended DEF FailLoad
  <2>2. QED
    BY <1>1, <1>2, <1>8, <2>1 DEF FailLoad, list, pause, history, Booleans
<1>9. CASE ToggleFeed
  <2>1. /\ UNCHANGED <<newest, form, filter, rows, nextBeforeID, hasMore,
                       selectedID, promised, disturbed>>
        /\ wantsPause' \in BOOLEAN
    BY <1>9 DEF ToggleFeed, list, history
  <2>2. /\ loading' \in Request \cup {None} /\ LiveTypes'
        /\ isPaused' \in BOOLEAN /\ pausedByDetail' \in BOOLEAN
    <3>1. CASE isPaused
      BY <1>9, <3>1, Resumed DEF ToggleFeed
    <3>2. CASE ~isPaused
      BY <1>1, <1>9, <3>2, Paused DEF ToggleFeed
    <3>3. QED
      BY <3>1, <3>2
  <2>3. Booleans'
    BY <1>1, <2>1, <2>2 DEF Booleans
  <2>4. QED
    BY <1>1, <1>2, <2>1, <2>2, <2>3
<1>10. CASE SelectFlow
  <2>1. /\ UNCHANGED <<newest, form, filter, rows, nextBeforeID, hasMore,
                       loading, wantsPause, promised, disturbed>>
        /\ selectedID' \in rows
        /\ pausedByDetail' = PausedBySelect
    BY <1>10 DEF SelectFlow, list, history
  <2>2. pausedByDetail' \in BOOLEAN
    BY <1>1, <2>1 DEF PausedBySelect, Booleans
  <2>3. LiveTypes' /\ isPaused' \in BOOLEAN
    <3>1. CASE isPaused
      BY <1>1, <1>10, <3>1 DEF SelectFlow, live, LiveTypes, Booleans
    <3>2. CASE ~isPaused
      BY <1>10, <3>2, Paused DEF SelectFlow
    <3>3. QED
      BY <3>1, <3>2
  <2>4. Booleans'
    BY <1>1, <2>1, <2>2, <2>3 DEF Booleans
  <2>5. QED
    BY <1>1, <1>2, <2>1, <2>3, <2>4
<1>11. CASE DismissDetail
  <2>1. /\ UNCHANGED <<newest, form, filter, rows, nextBeforeID, hasMore,
                       wantsPause, promised, disturbed>>
        /\ selectedID' = None
    BY <1>11 DEF DismissDetail, list, history
  <2>2. /\ loading' \in Request \cup {None} /\ LiveTypes'
        /\ isPaused' \in BOOLEAN /\ pausedByDetail' \in BOOLEAN
    <3>1. CASE isPaused /\ pausedByDetail
      BY <1>11, <3>1, Resumed DEF DismissDetail
    <3>2. CASE ~(isPaused /\ pausedByDetail)
      BY <1>1, <1>11, <3>2 DEF DismissDetail, live, LiveTypes, Booleans
    <3>3. QED
      BY <3>1, <3>2
  <2>3. Booleans'
    BY <1>1, <2>1, <2>2 DEF Booleans
  <2>4. QED
    BY <1>1, <1>2, <2>1, <2>2, <2>3
<1>12. CASE Collapse
  BY <1>1, <1>2, <1>12
     DEF Collapse, list, live, pause, history, LiveTypes, Booleans
<1>13. CASE Store
  <2>1. /\ newest < MaxFlows /\ newest' = newest + 1
        /\ UNCHANGED <<form, filter, rows, nextBeforeID, hasMore, loading,
                       events, isPaused, pausedByDetail, wantsPause, selectedID,
                       promised, disturbed>>
    BY <1>13 DEF Store, list, pause, history
  <2>2. newest' \in 0..MaxFlows /\ newest' \in Ids
    BY <1>1, <2>1 DEF Ids
  <2>3. PICK told \in SUBSET {s \in 1..MaxStreams : streams[s] # None} :
           streams' = [s \in 1..MaxStreams |->
               IF s \in told
               THEN [streams[s] EXCEPT !.pending = @ \cup {newest'}]
               ELSE streams[s]]
    <3>1. PICK told \in SUBSET {s \in 1..MaxStreams :
              streams[s] # None /\ streams[s].subscribed
              /\ newest' \in Matching[streams[s].params]} :
           streams' = [s \in 1..MaxStreams |->
               IF s \in told
               THEN [streams[s] EXCEPT !.pending = @ \cup {newest'}]
               ELSE streams[s]]
      BY <1>13 DEF Store
    <3>2. told \in SUBSET {s \in 1..MaxStreams : streams[s] # None}
      OBVIOUS
    <3>3. QED
      BY <3>1, <3>2
  <2>4. ASSUME NEW s \in 1..MaxStreams
        PROVE  /\ streams'[s] \in Stream \cup {None}
               /\ streams[s] # None => streams'[s] # None
    <3>1. CASE s \in told
      <4>1. streams[s] \in Stream
        BY <1>1, <3>1 DEF LiveTypes
      <4>2. [streams[s] EXCEPT !.pending = @ \cup {newest'}] \in Stream
        BY <2>2, <4>1 DEF Stream
      <4>3. QED
        BY <2>3, <3>1, <4>2, StreamNotNone
    <3>2. CASE s \notin told
      BY <1>1, <2>3, <3>2 DEF LiveTypes
    <3>3. QED
      BY <3>1, <3>2
  <2>5. LiveTypes'
    BY <1>1, <2>1, <2>3, <2>4 DEF LiveTypes
  <2>6. QED
    BY <1>1, <1>2, <2>1, <2>2, <2>5 DEF Booleans
<1>14. ASSUME NEW s \in 1..MaxStreams, Subscription(s) PROVE TypeOK'
  <2>1. /\ streams[s] \in Stream
        /\ streams' = [streams EXCEPT ![s] = [streams[s] EXCEPT
                !.subscribed = ~@, !.pending = {}]]
        /\ events' = events
    BY <1>1, <1>14 DEF Subscription, LiveTypes
  <2>2. [streams[s] EXCEPT !.subscribed = ~@, !.pending = {}] \in Stream
    BY <2>1 DEF Stream
  <2>3. LiveTypes'
    BY <1>1, <2>1, <2>2 DEF LiveTypes
  <2>4. QED
    BY <1>1, <1>2, <1>14, <2>3 DEF Subscription, list, pause, history, Booleans
<1>15. ASSUME NEW s \in 1..MaxStreams, FlowEvent(s) PROVE TypeOK'
  <2>1. PICK i \in streams[s].pending :
           /\ streams' = [streams EXCEPT ![s] = [streams[s] EXCEPT
                  !.pending = @ \ {i}]]
           /\ rows' = Evict(rows \cup {i})
           /\ disturbed' = (disturbed \/ rows' # rows \cup {i})
    BY <1>15 DEF FlowEvent
  <2>2. streams[s] \in Stream /\ events' = events
    BY <1>1, <1>15 DEF FlowEvent, LiveTypes
  <2>3. i \in Ids /\ [streams[s] EXCEPT !.pending = @ \ {i}] \in Stream
    BY <2>2 DEF Stream
  <2>4. LiveTypes'
    BY <1>1, <2>1, <2>2, <2>3 DEF LiveTypes
  <2>5. rows' \subseteq Ids /\ Cardinality(rows') <= MaxRows
    BY <1>1, <2>1, <2>3, rows \cup {i} \in SUBSET Ids, EvictOverflow
  <2>6. /\ UNCHANGED <<newest, form, filter, nextBeforeID, hasMore, loading,
                       isPaused, pausedByDetail, wantsPause, selectedID,
                       promised>>
        /\ disturbed' \in BOOLEAN
    BY <1>15, <2>1 DEF FlowEvent, pause
  <2>7. Booleans'
    BY <1>1, <2>6 DEF Booleans
  <2>8. QED
    BY <1>1, <1>2, <2>4, <2>5, <2>6, <2>7
<1>16. CASE UNCHANGED vars
  BY <1>1, <1>2, <1>16
     DEF vars, list, live, pause, history, LiveTypes, Booleans
<1>17. ASSUME NEW s \in 1..MaxStreams, RefuseEvents(s) PROVE TypeOK'
  <2>1. /\ streams' = [streams EXCEPT ![s] = None]
        /\ events' = IF events = s THEN Refused ELSE events
    BY <1>17 DEF RefuseEvents
  <2>2. LiveTypes'
    BY <1>1, <2>1 DEF LiveTypes, Refused
  <2>3. QED
    BY <1>1, <1>2, <1>17, <2>2 DEF RefuseEvents, list, pause, history, Booleans
<1>18. QED
  BY <1>3, <1>4, <1>5, <1>6, <1>7, <1>8, <1>9, <1>10, <1>11, <1>12, <1>13,
     <1>14, <1>15, <1>16, <1>17 DEF Next

-----------------------------------------------------------------------------
(* The invariant, part by part.                                            *)

(* The page starts with one request, one event source and no rows.         *)
LEMMA FeedStarts == Init => FeedInv
<1> SUFFICES ASSUME Init PROVE FeedInv
  OBVIOUS
<1> USE DEF Init
<1>1. 0 \in 0..MaxFlows /\ 1 \in 1..MaxStreams /\ form \in Filters
      /\ newest \in 0..MaxFlows /\ FALSE \in BOOLEAN
  OBVIOUS
<1>2. /\ loading \in Request /\ loading.before = 0 /\ loading.page = None
  BY <1>1, NewRequest
<1>3. [params |-> form, subscribed |-> FALSE, pending |-> {}] \in Stream
  BY <1>1 DEF Stream
<1>4. streams \in [1..MaxStreams -> Stream \cup {None}] /\ streams[events] # None
  <2>1. streams \in [1..MaxStreams -> Stream \cup {None}]
    BY <1>3
  <2>2. streams[events] = [params |-> form, subscribed |-> FALSE, pending |-> {}]
    BY <1>1
  <2>3. QED
    BY <1>3, <2>1, <2>2, StreamNotNone
<1>5. Cardinality({}) = 0 /\ 0 <= MaxRows
  BY FS_EmptySet
<1>6. TypeOK
  <2>1. events \in 0..MaxStreams \cup {None} /\ streams[events] # None
    BY <1>1, <1>4
  <2>2. QED
    BY <1>1, <1>2, <1>4, <1>5, <2>1 DEF TypeOK
<1>7. events # None
  BY <1>1
<1>8. promised <= newest /\ 1..promised = {}
  BY <1>1
<1>9. QED
  BY <1>2, <1>6, <1>7, <1>8
     DEF FeedInv, PauseInv, SourceInv, AnswerInv, PagingInv

(* Rows leave the list by evictOverflow, which spares the selected one,    *)
(* and by new filters, which close the drawer.                             *)
LEMMA SelectionKept ==
    ASSUME FeedInv, [Next]_vars
    PROVE  selectedID' # None => selectedID' \in rows'
<1>1. TypeOK /\ (selectedID # None => selectedID \in rows) /\ rows \subseteq Ids
  BY DEF FeedInv, TypeOK
<1>2. CASE Edit
  BY <1>1, <1>2 DEF Edit, list
<1>3. CASE ApplyFilters
  BY <1>3 DEF ApplyFilters
<1>4. CASE LoadOlder
  BY <1>1, <1>4 DEF LoadOlder, list
<1>5. CASE Answer
  BY <1>1, <1>5 DEF Answer, list
<1>6. CASE Receive
  <2>1. rows \cup loading.page \in SUBSET Ids
    <3>1. loading.page \in SUBSET Ids
      BY <1>1, <1>6 DEF Receive, TypeOK, Request
    <3>2. QED
      BY <1>1, <3>1
  <2>2. rows' = Evict(rows \cup loading.page) /\ selectedID' = selectedID
    BY <1>6 DEF Receive
  <2>3. QED
    BY <1>1, <2>1, <2>2, EvictOverflow
<1>7. CASE FailLoad
  BY <1>1, <1>7 DEF FailLoad, list
<1>8. CASE ToggleFeed
  BY <1>1, <1>8 DEF ToggleFeed, list
<1>9. CASE SelectFlow
  BY <1>9 DEF SelectFlow, list
<1>10. CASE DismissDetail
  BY <1>10 DEF DismissDetail
<1>11. CASE Collapse
  BY <1>11 DEF Collapse
<1>12. CASE Store
  BY <1>1, <1>12 DEF Store, list
<1>13. ASSUME NEW s \in 1..MaxStreams, Subscription(s) \/ RefuseEvents(s)
       PROVE  selectedID' # None => selectedID' \in rows'
  BY <1>1, <1>13 DEF Subscription, RefuseEvents, list
<1>14. ASSUME NEW s \in 1..MaxStreams, FlowEvent(s)
       PROVE  selectedID' # None => selectedID' \in rows'
  <2>1. PICK i \in streams[s].pending : rows' = Evict(rows \cup {i})
    BY <1>14 DEF FlowEvent
  <2>2. i \in Ids /\ selectedID' = selectedID
    BY <1>1, <1>14 DEF FlowEvent, TypeOK, Stream
  <2>3. rows \cup {i} \in SUBSET Ids
    BY <1>1, <2>2
  <2>4. QED
    BY <1>1, <2>1, <2>2, <2>3, EvictOverflow
<1>15. CASE UNCHANGED vars
  BY <1>1, <1>15 DEF vars, list
<1>16. QED
  BY <1>2, <1>3, <1>4, <1>5, <1>6, <1>7, <1>8, <1>9, <1>10, <1>11, <1>12,
     <1>13, <1>14, <1>15 DEF Next

(* A pause of the operator is not one that closing a drawer ends.          *)
LEMMA PauseKept ==
    ASSUME FeedInv, [Next]_vars
    PROVE  PauseInv'
<1>1. /\ TypeOK /\ PauseInv
      /\ isPaused \in BOOLEAN /\ pausedByDetail \in BOOLEAN
      /\ wantsPause \in BOOLEAN
  BY DEF FeedInv, TypeOK
<1>2. CASE UNCHANGED pause
  BY <1>1, <1>2 DEF pause, PauseInv
<1>3. CASE ApplyFilters
  BY <1>3 DEF ApplyFilters, PauseInv
<1>4. CASE ToggleFeed
  <2>1. CASE isPaused
    BY <1>4, <2>1 DEF ToggleFeed, PauseInv
  <2>2. CASE ~isPaused
    BY <1>4, <2>2 DEF ToggleFeed, PauseFeed, PauseInv
  <2>3. QED
    BY <2>1, <2>2
<1>5. CASE SelectFlow
  <2>1. CASE isPaused
    BY <1>1, <1>5, <2>1 DEF SelectFlow, PausedBySelect, PauseInv
  <2>2. CASE ~isPaused
    BY <1>1, <1>5, <2>2 DEF SelectFlow, PauseInv
  <2>3. QED
    BY <2>1, <2>2
<1>6. CASE DismissDetail
  <2>1. CASE isPaused /\ pausedByDetail
    BY <1>1, <1>6, <2>1 DEF DismissDetail, PauseInv
  <2>2. CASE ~(isPaused /\ pausedByDetail)
    BY <1>1, <1>6, <2>2 DEF DismissDetail, PauseInv
  <2>3. QED
    BY <2>1, <2>2
<1>7. QED
  BY <1>2, <1>3, <1>4, <1>5, <1>6
     DEF Next, Edit, LoadOlder, Answer, Receive, FailLoad, Collapse, Store,
         Subscription, RefuseEvents, FlowEvent, vars

(* A feed that runs is connected or will be when its page has arrived.     *)
LEMMA LiveKept ==
    ASSUME FeedInv, [Next]_vars
    PROVE  SourceInv'
<1>1. /\ TypeOK /\ SourceInv
      /\ isPaused \in BOOLEAN /\ pausedByDetail \in BOOLEAN
      /\ loading \in Request \cup {None} /\ form \in Filters
  BY DEF FeedInv, TypeOK
<1>2. ASSUME isPaused' = isPaused, events' = events, loading' = loading
      PROVE  SourceInv'
  BY <1>1, <1>2 DEF SourceInv
<1>3. CASE Edit
  BY <1>2, <1>3 DEF Edit, live, pause
<1>4. CASE ApplyFilters
  <2>1. CASE isPaused
    <3>1. ResumeFeed
      BY <1>4, <2>1 DEF ApplyFilters
    <3>2. QED
      BY <1>1, <3>1, Resumed DEF SourceInv
  <2>2. CASE ~isPaused
    <3>1. Connect(Closed)
      BY <1>4, <2>2 DEF ApplyFilters
    <3>2. events' # None
      BY <1>1, <3>1, StreamTypes
    <3>3. QED
      BY <3>2 DEF SourceInv
  <2>3. QED
    BY <2>1, <2>2
<1>5. CASE LoadOlder
  BY <1>1, <1>5 DEF LoadOlder, live, pause, SourceInv
<1>6. CASE Answer
  <2>1. /\ loading' # None /\ loading'.resume = loading.resume
        /\ isPaused' = isPaused /\ events' = events
    BY <1>1, <1>6, Answered DEF Answer, live, pause
  <2>2. QED
    BY <1>1, <1>6, <2>1 DEF Answer, SourceInv
<1>7. CASE Receive \/ FailLoad
  <2>1. AfterLoad /\ isPaused' = isPaused /\ loading # None
    BY <1>7 DEF Receive, FailLoad, pause
  <2>2. QED
    BY <1>1, <2>1, Ended DEF SourceInv
<1>8. CASE ToggleFeed
  <2>1. CASE isPaused
    <3>1. ResumeFeed
      BY <1>8, <2>1 DEF ToggleFeed
    <3>2. QED
      BY <1>1, <3>1, Resumed DEF SourceInv
  <2>2. CASE ~isPaused
    BY <1>8, <2>2 DEF ToggleFeed, PauseFeed, SourceInv
  <2>3. QED
    BY <2>1, <2>2
<1>9. CASE SelectFlow
  <2>1. CASE isPaused
    BY <1>9, <2>1 DEF SelectFlow, SourceInv
  <2>2. CASE ~isPaused
    BY <1>9, <2>2 DEF SelectFlow, PauseFeed, SourceInv
  <2>3. QED
    BY <2>1, <2>2
<1>10. CASE DismissDetail
  <2>1. CASE isPaused /\ pausedByDetail
    <3>1. ResumeFeed
      BY <1>10, <2>1 DEF DismissDetail
    <3>2. QED
      BY <1>1, <3>1, Resumed DEF SourceInv
  <2>2. CASE ~(isPaused /\ pausedByDetail)
    BY <1>2, <1>10, <2>2 DEF DismissDetail, live
  <2>3. QED
    BY <2>1, <2>2
<1>11. CASE Collapse
  BY <1>2, <1>11 DEF Collapse, live, pause
<1>12. CASE Store
  BY <1>2, <1>12 DEF Store, pause
<1>13. ASSUME NEW s \in 1..MaxStreams, Subscription(s) \/ FlowEvent(s)
       PROVE  SourceInv'
  BY <1>2, <1>13 DEF Subscription, FlowEvent, pause
<1>14. CASE UNCHANGED vars
  BY <1>2, <1>14 DEF vars, live, pause
<1>15. ASSUME NEW s \in 1..MaxStreams, RefuseEvents(s)
       PROVE  SourceInv'
  <2>1. /\ isPaused' = isPaused /\ loading' = loading
        /\ events' = IF events = s THEN Refused ELSE events
    BY <1>15 DEF RefuseEvents, pause
  <2>2. events # None => events' # None
    BY <2>1 DEF Refused
  <2>3. QED
    BY <1>1, <2>1, <2>2 DEF SourceInv
<1>16. QED
  BY <1>3, <1>4, <1>5, <1>6, <1>7, <1>8, <1>9, <1>10, <1>11, <1>12, <1>13,
     <1>14, <1>15 DEF Next

(* Requests only learn of flows that are stored when they are answered.    *)
LEMMA AnswerKept ==
    ASSUME FeedInv, [Next]_vars
    PROVE  AnswerInv'
<1>1. /\ TypeOK /\ AnswerInv
      /\ loading \in Request \cup {None} /\ form \in Filters
      /\ nextBeforeID \in 0..MaxFlows
      /\ newest \in Nat /\ promised \in Nat /\ promised <= newest
  BY DEF FeedInv, TypeOK, AnswerInv
<1>2. ASSUME promised' = promised, newest' = newest,
             loading' = None \/ loading'.page = None
      PROVE  AnswerInv'
  BY <1>1, <1>2 DEF AnswerInv
<1>3. ASSUME promised' = promised, loading' = loading,
             newest' = newest \/ newest' = newest + 1
      PROVE  AnswerInv'
  <2>1. promised' <= newest'
    BY <1>1, <1>3
  <2>2. ASSUME loading # None, loading.page # None
        PROVE  /\ promised <= loading.asOf /\ loading.asOf <= newest'
               /\ loading.page = NewestOf(Wanted(loading), PageSize)
    <3>1. loading.asOf \in Int
      BY <1>1, <2>2 DEF Request
    <3>2. QED
      BY <1>1, <1>3, <2>2, <3>1 DEF AnswerInv
  <2>3. QED
    BY <1>3, <2>1, <2>2 DEF AnswerInv
<1>4. ASSUME ResumeFeed, promised' = promised, newest' = newest
      PROVE  AnswerInv'
  <2>1. CASE loading = None
    <3>1. 0 \in 0..MaxFlows /\ TRUE \in BOOLEAN
      OBVIOUS
    <3>2. Load(0, TRUE).page = None
      BY <1>1, <3>1, NewRequest
    <3>3. loading' = Load(0, TRUE)
      BY <1>4, <2>1 DEF ResumeFeed
    <3>4. QED
      BY <1>2, <1>4, <3>2, <3>3
  <2>2. CASE loading # None
    BY <1>1, <1>3, <1>4, <2>2, Resumed
  <2>3. QED
    BY <2>1, <2>2
<1>5. CASE ApplyFilters
  <2>1. promised' = promised /\ newest' = newest
    BY <1>5 DEF ApplyFilters
  <2>2. CASE isPaused
    BY <1>4, <1>5, <2>1, <2>2 DEF ApplyFilters
  <2>3. CASE ~isPaused
    <3>1. loading' = IF loading = None THEN Load(0, FALSE) ELSE loading
      BY <1>5, <2>3 DEF ApplyFilters
    <3>2. 0 \in 0..MaxFlows /\ FALSE \in BOOLEAN
      OBVIOUS
    <3>3. Load(0, FALSE).page = None
      BY <1>1, <3>2, NewRequest
    <3>4. QED
      BY <1>2, <1>3, <2>1, <3>1, <3>3
  <2>4. QED
    BY <2>2, <2>3
<1>6. CASE LoadOlder
  <2>1. Load(nextBeforeID, FALSE).page = None
    <3>1. FALSE \in BOOLEAN
      OBVIOUS
    <3>2. QED
      BY <1>1, <3>1, NewRequest
  <2>2. QED
    BY <1>2, <1>6, <2>1 DEF LoadOlder, history
<1>7. CASE Answer
  <2>1. promised' = promised /\ newest' = newest
    BY <1>7 DEF Answer, history
  <2>2. /\ loading'.asOf = newest
        /\ loading'.page = NewestOf(Wanted(loading'), PageSize)
    BY <1>1, <1>7, Answered
  <2>3. QED
    BY <1>1, <2>1, <2>2 DEF AnswerInv
<1>8. CASE Receive
  <2>1. loading' = None /\ newest' = newest
    BY <1>1, <1>8, Ended DEF Receive
  <2>2. promised' = loading.asOf \/ promised' = promised
    BY <1>8 DEF Receive
  <2>3. loading.asOf <= newest
    BY <1>1, <1>8 DEF Receive, AnswerInv
  <2>4. QED
    BY <1>1, <2>1, <2>2, <2>3 DEF AnswerInv
<1>9. CASE FailLoad
  BY <1>1, <1>2, <1>9, Ended DEF FailLoad, history
<1>10. CASE ToggleFeed
  <2>1. promised' = promised /\ newest' = newest
    BY <1>10 DEF ToggleFeed, history
  <2>2. CASE isPaused
    BY <1>4, <1>10, <2>1, <2>2 DEF ToggleFeed
  <2>3. CASE ~isPaused
    BY <1>3, <1>10, <2>1, <2>3 DEF ToggleFeed
  <2>4. QED
    BY <2>2, <2>3
<1>11. CASE DismissDetail
  <2>1. promised' = promised /\ newest' = newest
    BY <1>11 DEF DismissDetail, history
  <2>2. CASE isPaused /\ pausedByDetail
    BY <1>4, <1>11, <2>1, <2>2 DEF DismissDetail
  <2>3. CASE ~(isPaused /\ pausedByDetail)
    BY <1>3, <1>11, <2>1, <2>3 DEF DismissDetail
  <2>4. QED
    BY <2>2, <2>3
<1>12. CASE Edit \/ SelectFlow \/ Collapse
  BY <1>3, <1>12 DEF Edit, SelectFlow, Collapse, history
<1>13. CASE Store
  BY <1>3, <1>13 DEF Store, history
<1>14. ASSUME NEW s \in 1..MaxStreams,
              Subscription(s) \/ RefuseEvents(s) \/ FlowEvent(s)
       PROVE  AnswerInv'
  BY <1>3, <1>14 DEF Subscription, RefuseEvents, FlowEvent, history
<1>15. CASE UNCHANGED vars
  BY <1>3, <1>15 DEF vars, history
<1>16. QED
  BY <1>5, <1>6, <1>7, <1>8, <1>9, <1>10, <1>11, <1>12, <1>13, <1>14, <1>15
     DEF Next

(* What a page leaves out of the flows it was asked for is older than the  *)
(* cursor, and then there are more.                                        *)
LEMMA LeftOut ==
    ASSUME FeedInv, Receive, NEW i \in Wanted(loading) \ loading.page
    PROVE  hasMore' /\ i < nextBeforeID'
<1>1. /\ loading \in Request /\ loading.page \in SUBSET Ids
      /\ loading.asOf \in 0..MaxFlows
      /\ loading.page = NewestOf(Wanted(loading), PageSize)
  BY DEF FeedInv, TypeOK, Receive, Request, AnswerInv
<1>2. Wanted(loading) \in SUBSET Ids
  BY <1>1 DEF Wanted, Ids
<1>3. /\ Cardinality(loading.page) = PageSize
      /\ \A j \in loading.page : i < j
  BY <1>1, <1>2, NewestAre
<1>4. loading.page # {}
  <2>1. Cardinality({}) = 0
    BY FS_EmptySet
  <2>2. QED
    BY <1>3, <2>1
<1>5. MinID(loading.page) \in loading.page
  BY <1>1, <1>4, CursorIs
<1>6. nextBeforeID' = MinID(loading.page)
  BY <1>4 DEF Receive, NextBefore
<1>7. hasMore' = TRUE
  BY <1>3 DEF Receive
<1>8. QED
  BY <1>3, <1>5, <1>6, <1>7

(* The list and what older pages still hold make up what was promised.     *)
LEMMA PagingKept ==
    ASSUME FeedInv, [Next]_vars
    PROVE  PagingInv'
<1>1. /\ TypeOK /\ PagingInv
      /\ loading \in Request \cup {None} /\ form \in Filters
      /\ nextBeforeID \in 0..MaxFlows /\ disturbed \in BOOLEAN
  BY DEF FeedInv, TypeOK
<1>2. ASSUME filter' = filter, rows \subseteq rows', promised' = promised,
             nextBeforeID' = nextBeforeID, hasMore' = hasMore,
             ~disturbed' => ~disturbed,
             \/ loading' = None \/ loading' = loading
             \/ loading'.before \in {0, nextBeforeID}
      PROVE  PagingInv'
  BY <1>1, <1>2 DEF PagingInv
<1>3. ASSUME ResumeFeed
      PROVE  loading' = loading \/ loading'.before = 0
  <2>1. 0 \in 0..MaxFlows /\ TRUE \in BOOLEAN
    OBVIOUS
  <2>2. Load(0, TRUE).before = 0
    BY <1>1, <2>1, NewRequest
  <2>3. QED
    BY <1>3, <2>2 DEF ResumeFeed
<1>4. CASE ApplyFilters
  <2>1. /\ nextBeforeID' = 0 /\ hasMore' = TRUE
        /\ ~disturbed' => loading = None \/ loading.before = 0
    BY <1>4 DEF ApplyFilters
  <2>2. loading' = loading \/ loading'.before = 0
    <3>1. CASE isPaused
      BY <1>3, <1>4, <3>1 DEF ApplyFilters
    <3>2. CASE ~isPaused
      <4>1. 0 \in 0..MaxFlows /\ FALSE \in BOOLEAN
        OBVIOUS
      <4>2. Load(0, FALSE).before = 0
        BY <1>1, <4>1, NewRequest
      <4>3. QED
        BY <1>4, <3>2, <4>2 DEF ApplyFilters
    <3>3. QED
      BY <3>1, <3>2
  <2>3. QED
    BY <2>1, <2>2 DEF PagingInv
<1>5. CASE LoadOlder
  <2>1. FALSE \in BOOLEAN
    OBVIOUS
  <2>2. Load(nextBeforeID, FALSE).before = nextBeforeID
    BY <1>1, <2>1, NewRequest
  <2>3. QED
    BY <1>2, <1>5, <2>2 DEF LoadOlder, list, history
<1>6. CASE Answer
  <2>1. loading'.before = loading.before
    BY <1>1, <1>6, Answered
  <2>2. /\ UNCHANGED <<filter, rows, promised, nextBeforeID, hasMore>>
        /\ disturbed' = disturbed /\ loading # None
    BY <1>6 DEF Answer, list, history
  <2>3. QED
    BY <1>1, <2>1, <2>2 DEF PagingInv
<1>7. CASE Receive
  <2>1. loading' = None /\ filter' = filter
    BY <1>1, <1>7, Ended DEF Receive
  <2> SUFFICES ASSUME ~disturbed', NEW i \in 1..promised',
                      i \in Matching[filter]
               PROVE  \/ i \in rows'
                      \/ hasMore' /\ (nextBeforeID' = 0 \/ i < nextBeforeID')
    BY <2>1 DEF PagingInv
  <2>2. /\ ~disturbed /\ loading.params = filter
        /\ rows' = rows \cup loading.page
        /\ promised' = IF loading.before = 0 THEN loading.asOf ELSE promised
    BY <1>7 DEF Receive
  <2>3. /\ promised <= loading.asOf /\ promised \in Nat /\ loading.asOf \in Nat
        /\ loading.before \in Nat
    BY <1>7 DEF FeedInv, TypeOK, Receive, Request, AnswerInv
  <2>4. i \in rows \/ i \in Wanted(loading)
    <3>1. CASE loading.before = 0
      BY <2>2, <3>1 DEF Wanted
    <3>2. CASE loading.before # 0
      <4>1. i \in 1..promised /\ i \in 1..loading.asOf
        BY <2>2, <2>3, <3>2
      <4>2. loading.before = nextBeforeID
        BY <1>1, <1>7, <2>2, <3>2 DEF PagingInv, Receive
      <4>3. i \in rows \/ i < nextBeforeID
        BY <1>1, <2>2, <3>2, <4>1, <4>2 DEF PagingInv
      <4>4. QED
        BY <2>2, <4>1, <4>2, <4>3 DEF Wanted
    <3>3. QED
      BY <3>1, <3>2
  <2>5. QED
    BY <1>7, <2>2, <2>4, LeftOut
<1>8. CASE FailLoad
  BY <1>1, <1>2, <1>8, Ended DEF FailLoad, list, history
<1>9. CASE ToggleFeed
  <2>1. UNCHANGED <<filter, rows, promised, nextBeforeID, hasMore, disturbed>>
    BY <1>9 DEF ToggleFeed, list, history
  <2>2. loading' = loading \/ loading'.before = 0
    BY <1>3, <1>9 DEF ToggleFeed
  <2>3. QED
    BY <1>2, <2>1, <2>2
<1>10. CASE DismissDetail
  <2>1. UNCHANGED <<filter, rows, promised, nextBeforeID, hasMore, disturbed>>
    BY <1>10 DEF DismissDetail, list, history
  <2>2. loading' = loading \/ loading'.before = 0
    BY <1>3, <1>10 DEF DismissDetail
  <2>3. QED
    BY <1>2, <2>1, <2>2
<1>11. CASE Edit \/ SelectFlow \/ Collapse \/ Store
  BY <1>2, <1>11 DEF Edit, SelectFlow, Collapse, Store, list, history
<1>12. ASSUME NEW s \in 1..MaxStreams, Subscription(s) \/ RefuseEvents(s)
       PROVE  PagingInv'
  BY <1>2, <1>12 DEF Subscription, RefuseEvents, list, history
<1>13. ASSUME NEW s \in 1..MaxStreams, FlowEvent(s)
       PROVE  PagingInv'
  <2>1. PICK i \in streams[s].pending :
           disturbed' = (disturbed \/ rows' # rows \cup {i})
    BY <1>13 DEF FlowEvent
  <2>2. UNCHANGED <<filter, promised, nextBeforeID, hasMore, loading>>
    BY <1>13 DEF FlowEvent
  <2>3. ~disturbed' => ~disturbed /\ rows \subseteq rows'
    BY <1>1, <2>1
  <2>4. QED
    BY <1>1, <2>2, <2>3 DEF PagingInv
<1>14. CASE UNCHANGED vars
  BY <1>2, <1>14 DEF vars, list, history
<1>15. QED
  BY <1>4, <1>5, <1>6, <1>7, <1>8, <1>9, <1>10, <1>11, <1>12, <1>13, <1>14
     DEF Next

-----------------------------------------------------------------------------
(* The theorems.                                                           *)

(* Every callback of the page keeps all parts of the invariant.            *)
LEMMA FeedStep == FeedInv /\ [Next]_vars => FeedInv'
<1> SUFFICES ASSUME FeedInv, [Next]_vars PROVE FeedInv'
  OBVIOUS
<1>1. TypeOK'
  BY TypesKept DEF FeedInv
<1>2. QED
  BY <1>1, SelectionKept, PauseKept, LiveKept, AnswerKept, PagingKept
     DEF FeedInv

(* The invariant holds in every state the page reaches, whatever callbacks *)
(* of app.js follow each other.                                            *)
THEOREM FeedInvariant == Spec => []FeedInv
<1>1. Init => FeedInv
  BY FeedStarts
<1>2. FeedInv /\ [Next]_vars => FeedInv'
  BY FeedStep
<1>3. QED
  BY <1>1, <1>2, PTL DEF Spec

(* The flow under inspection stays in the list (app.js:212), for every     *)
(* MAX_ROWS, page size and number of flows, and the list is never longer   *)
(* than MAX_ROWS.                                                          *)
THEOREM SelectionStays == Spec => []SelectedKept
<1>1. FeedInv => SelectedKept
  BY DEF FeedInv, SelectedKept
<1>2. QED
  BY <1>1, FeedInvariant, PTL

(* A pause the operator requested survives the drawer (toggleFeed,         *)
(* selectFlow and dismissDetail in app.js).                                *)
THEOREM PauseSurvives == Spec => []ExplicitPauseSurvives
<1>1. FeedInv => ExplicitPauseSurvives
  BY DEF FeedInv, PauseInv, ExplicitPauseSurvives
<1>2. QED
  BY <1>1, FeedInvariant, PTL

(* A feed that is not paused is connected, connecting or about to connect, *)
(* whichever request resumeFeed waits for, unless the server has refused   *)
(* its source (app.js:834-851, 875-886).                                   *)
THEOREM FeedIsLive == Spec => []LiveWhenRunning
<1>1. FeedInv => LiveWhenRunning
  <2>1. FeedInv => events \in 1..MaxStreams \cup {None, Refused}
    BY DEF FeedInv, TypeOK, Refused
  <2>2. QED
    BY <2>1 DEF FeedInv, TypeOK, SourceInv, LiveWhenRunning
<1>2. QED
  BY <1>1, FeedInvariant, PTL

(* "End of retained history." is true of an undisturbed list, for every    *)
(* set of filters and every page size (app.js:812-814).                    *)
THEOREM EndReached == Spec => []EndIsComplete
<1>1. FeedInv => EndIsComplete
  BY DEF FeedInv, PagingInv, EndIsComplete
<1>2. QED
  BY <1>1, FeedInvariant, PTL
=============================================================================
