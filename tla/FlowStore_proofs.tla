-------------------------- MODULE FlowStore_proofs --------------------------
(***************************************************************************)
(* Proofs about FlowStore: what is retained and what the pages of a reader *)
(* show, for any recorded flows, numbers of workers and subscribers,       *)
(* capacity, trim batch, page size and number of restarts.                 *)
(***************************************************************************)
EXTENDS FlowStore, FiniteSetTheorems, TLAPS

USE StoreAssumption

-----------------------------------------------------------------------------
(* The inductive invariant.                                                *)

(* Ids name flows.                                                         *)
Distinct(rows) == \A x, y \in rows : x.id = y.id => x = y

(* What there is to retain, and what the backend says it retains.          *)
AllKept == IF lastID < Capacity THEN lastID ELSE Capacity
Held == IF backend = "memory" THEN count ELSE retained

(* Counted from the newest place, the ring has the ids downwards from the  *)
(* last one; it does not turn before it is full.                           *)
RingInv ==
    backend = "memory" =>
        /\ table = {} /\ retained = 0
        /\ count = AllKept
        /\ count < Capacity => start = 0
        /\ \A o \in 0..count - 1 :
              RingAt(o) \in Items /\ RingAt(o).id = lastID - o

(* The rows of the table have the last ids, as many as the row count says. *)
TableInv ==
    backend = "sqlite" =>
        /\ Distinct(table)
        /\ {x.id : x \in table} = lastID - retained + 1..lastID
        /\ retained \in AllKept..Capacity + Batch - 1

(* Workers between the queue and the backend.  Every id was spent on a     *)
(* flow that was taken, so there is one left for each of them.             *)
Adding == {w \in Workers : phase[w] = "adding"}

Adders ==
    /\ IsFiniteSet(Adding)
    /\ lastID + Cardinality(Adding) <= taken
    /\ item \in [Workers -> Items \cup {NoItem}]

Readers ==
    [phase: {"between", "parents"}, requestsOnly: BOOLEAN, before: Nat,
     more: BOOLEAN, page: SUBSET Items, got: SUBSET Flows,
     parents: SUBSET Flows, promised: SUBSET Flows]

(* Flows that the backend or the reader knows.                             *)
FlowsOf(rows) == {x.flow : x \in rows}
Known == FlowsOf(Stored) \cup FlowsOf(reader.page)
         \cup reader.got \cup reader.promised

(* A flow is stored once: one that a worker still adds is not known yet,   *)
(* and no other worker adds it.                                            *)
FlowsInv ==
    /\ \A f \in Known : f <= taken
    /\ \A w \in Adding : item[w].flow <= taken /\ item[w].flow \notin Known
    /\ \A v, w \in Adding : item[v].flow = item[w].flow => v = w
    /\ \A x, y \in Stored \cup reader.page : x.flow = y.flow => x = y

(* What the reader got lies at its cursor or above, the page that it reads *)
(* lies below.                                                             *)
ReaderInv ==
    /\ reader \in Readers
    /\ reader.phase = "parents" => reader.more
    /\ reader.phase = "between" => reader.page = {}
    /\ reader.before = 0 => reader.got = {}
    /\ \A x \in Stored : x.flow \in reader.got => x.id >= reader.before
    /\ \A x \in reader.page : /\ Older(x, reader.before)
                              /\ x.flow \notin reader.got

(* A stored flow that the reader still has to get: it lies below the       *)
(* cursor and, unless it is on the page that is being read, that page is   *)
(* full and all of it is newer.                                            *)
Due(x) ==
    /\ x.flow \in reader.promised \ reader.got
    /\ Matches(x, reader.requestsOnly)

PagingInv ==
    \A x \in Stored : Due(x) =>
        /\ reader.more
        /\ reader.before # 0 => x.id < reader.before
        /\ reader.phase = "parents" /\ x \notin reader.page =>
              /\ MayHaveMore(reader.page)
              /\ \A y \in reader.page : x.id < y.id

StoreInv ==
    /\ TypeOK
    /\ Adders
    /\ RingInv
    /\ TableInv
    /\ FlowsInv
    /\ ReaderInv
    /\ PagingInv

-----------------------------------------------------------------------------
(* Rows by the order of their ids.                                         *)

(* The members of a set that have fewer than n smaller ones by a key.      *)
Below(R, K, x) == {y \in R : K[y] < K[x]}
Least(R, K, n) == {x \in R : Cardinality(Below(R, K, x)) < n}

(* They are n and smaller than all others, unless they are all there are:  *)
(* counting the smaller members maps a finite set one to one onto the      *)
(* numbers below its cardinality.                                          *)
LEMMA Smallest ==
    ASSUME NEW R, IsFiniteSet(R), NEW K \in [R -> Int], NEW n \in Nat,
           \A x, y \in R : K[x] = K[y] => x = y
    PROVE  /\ IsFiniteSet(Least(R, K, n))
           /\ \A x \in R \ Least(R, K, n) :
                 /\ Cardinality(Least(R, K, n)) = n
                 /\ \A y \in Least(R, K, n) : K[y] < K[x]
<1> DEFINE T == Least(R, K, n)
           c == Cardinality(R)
           r == [x \in R |-> Cardinality(Below(R, K, x))]
<1>1. c \in Nat
  BY FS_CardinalityType
<1>2. ASSUME NEW x \in R
      PROVE  IsFiniteSet(Below(R, K, x)) /\ r[x] \in 0..c - 1
  <2>1. Below(R, K, x) \subseteq R /\ x \notin Below(R, K, x)
    BY K[x] \in Int DEF Below
  <2>2. /\ IsFiniteSet(Below(R, K, x)) /\ Cardinality(Below(R, K, x)) <= c
        /\ Cardinality(R) = Cardinality(Below(R, K, x)) => R = Below(R, K, x)
    BY <2>1, FS_Subset, Zenon
  <2>3. Cardinality(Below(R, K, x)) \in Nat
    BY <2>2, FS_CardinalityType
  <2>4. Cardinality(Below(R, K, x)) # c
    BY <2>1, <2>2
  <2> HIDE DEF c
  <2>5. QED
    BY <1>1, <2>2, <2>3, <2>4
<1>3. ASSUME NEW x \in R, NEW y \in R, K[x] < K[y]
      PROVE  r[x] < r[y]
  <2>1. /\ Below(R, K, x) \subseteq Below(R, K, y) /\ x \in Below(R, K, y)
        /\ x \notin Below(R, K, x)
    BY <1>3 DEF Below
  <2>2. /\ Cardinality(Below(R, K, x)) <= Cardinality(Below(R, K, y))
        /\ Cardinality(Below(R, K, y)) = Cardinality(Below(R, K, x)) =>
              Below(R, K, y) = Below(R, K, x)
    BY <1>2, <2>1, FS_Subset, Zenon
  <2>3. /\ Cardinality(Below(R, K, x)) \in Nat
        /\ Cardinality(Below(R, K, y)) \in Nat
    BY <1>2, FS_CardinalityType
  <2>4. QED
    BY <2>1, <2>2, <2>3
<1>4. T = {x \in R : r[x] < n}
  BY DEF Least
<1> HIDE DEF c, T
<1>5. r \in Injection(R, 0..c - 1)
  <2>1. r \in [R -> 0..c - 1]
    BY <1>2
  <2>2. ASSUME NEW x \in R, NEW y \in R, r[x] = r[y] PROVE x = y
    <3>1. r[x] \in Int /\ r[y] \in Int
      BY <1>1, <1>2
    <3> HIDE DEF r
    <3>2. ~(K[x] < K[y]) /\ ~(K[y] < K[x])
      BY <1>3, <2>2, <3>1
    <3>3. QED
      BY <3>2
  <2> HIDE DEF r
  <2>3. QED
    BY <2>1, <2>2 DEF Injection, IsInjective
<1>6. r \in Surjection(R, 0..c - 1)
  <2>1. IsFiniteSet(0..c - 1) /\ Cardinality(0..c - 1) = c
    BY <1>1, FS_Interval
  <2> HIDE DEF r
  <2>2. QED
    BY <1>5, <2>1, FS_Injection DEF c
<1>7. IsFiniteSet(T)
  BY <1>4, FS_Subset
<1> HIDE DEF r
<1>8. ASSUME NEW x \in R \ T
      PROVE  Cardinality(T) = n /\ \A y \in T : K[y] < K[x]
  <2>1. x \in R /\ n <= r[x] /\ r[x] \in 0..c - 1
    BY <1>4, <1>1, <1>2
  <2>2. ASSUME NEW y \in T PROVE K[y] < K[x]
    <3>1. y \in R /\ r[y] < n /\ r[y] \in 0..c - 1
      BY <1>4, <1>2
    <3>2. ~(K[x] < K[y]) /\ K[x] # K[y]
      BY <1>1, <1>3, <2>1, <3>1
    <3>3. QED
      BY <2>1, <3>1, <3>2
  <2>3. Cardinality(T) = n
    <3> DEFINE g == [y \in T |-> r[y]]
    <3>1. g \in Injection(T, 0..n - 1) /\ g \in Surjection(T, 0..n - 1)
      <4>1. \A y \in T : g[y] = r[y] /\ r[y] \in 0..n - 1 /\ y \in R
        BY <1>4, <1>1, <1>2
      <4>2. \A y, z \in T : g[y] = g[z] => y = z
        BY <1>5, <4>1 DEF Injection, IsInjective
      <4>3. \A m \in 0..n - 1 : \E y \in T : g[y] = m
        <5> TAKE m \in 0..n - 1
        <5>1. m \in 0..c - 1 /\ m < n
          BY <1>1, <2>1
        <5>2. PICK y \in R : r[y] = m
          BY <1>6, <5>1 DEF Surjection
        <5>3. QED
          BY <1>4, <5>1, <5>2
      <4>4. g \in [T -> 0..n - 1]
        BY <4>1
      <4> HIDE DEF g
      <4>5. g \in Injection(T, 0..n - 1)
        BY <4>2, <4>4 DEF Injection, IsInjective
      <4>6. g \in Surjection(T, 0..n - 1)
        BY <4>3, <4>4 DEF Surjection
      <4>7. QED
        BY <4>5, <4>6
    <3>2. IsFiniteSet(0..n - 1) /\ Cardinality(0..n - 1) = n
      BY FS_Interval
    <3> HIDE DEF g
    <3>3. Cardinality(T) = Cardinality(0..n - 1)
      BY <3>1, <3>2, FS_Injection
    <3>4. QED
      BY <3>2, <3>3
  <2>4. QED
    BY <2>2, <2>3
<1>9. QED
  BY <1>7, <1>8 DEF T

(* Rows with distinct ids number as many as their ids.                     *)
LEMMA CountByIds ==
    ASSUME NEW R \in SUBSET Items, Distinct(R), NEW a \in Int, NEW b \in Int,
           {x.id : x \in R} = a..b
    PROVE  /\ IsFiniteSet(R)
           /\ Cardinality(R) = IF a > b THEN 0 ELSE b - a + 1
<1> DEFINE f == [x \in R |-> x.id]
<1>1. \A x \in R : f[x] = x.id /\ x.id \in a..b
  OBVIOUS
<1>2. \A i \in a..b : \E x \in R : f[x] = i
  <2> TAKE i \in a..b
  <2>1. PICK x \in R : x.id = i
    OBVIOUS
  <2>2. QED
    BY <2>1
<1>3. f \in [R -> a..b]
  BY <1>1
<1>4. \A x, y \in R : f[x] = f[y] => x = y
  BY <1>1 DEF Distinct
<1> HIDE DEF f
<1>5. f \in Injection(R, a..b) /\ f \in Surjection(R, a..b)
  BY <1>2, <1>3, <1>4 DEF Injection, IsInjective, Surjection
<1>6. IsFiniteSet(a..b) /\ Cardinality(a..b) = IF a > b THEN 0 ELSE b - a + 1
  BY FS_Interval
<1>7. IsFiniteSet(R) /\ Cardinality(R) = Cardinality(a..b)
  BY <1>5, <1>6, FS_Injection
<1>8. QED
  BY <1>6, <1>7

(* Where the ids have no gap, the n oldest rows have the n lowest ids ...  *)
LEMMA OldestByIds ==
    ASSUME NEW R \in SUBSET Items, Distinct(R), NEW a \in Int, NEW b \in Int,
           {x.id : x \in R} = a..b, NEW n \in Nat
    PROVE  \A x \in R : x \in Oldest(R, n) <=> x.id < a + n
<1> SUFFICES ASSUME NEW x \in R
             PROVE  Cardinality({y \in R : y.id < x.id}) < n <=> x.id < a + n
  BY DEF Oldest
<1> DEFINE S == {y \in R : y.id < x.id}
<1>1. x.id \in a..b
  OBVIOUS
<1>2. S \in SUBSET Items /\ Distinct(S)
  BY DEF Distinct
<1>3. {y.id : y \in S} = a..x.id - 1
  <2>1. \A i \in a..x.id - 1 : \E y \in S : y.id = i
    <3> TAKE i \in a..x.id - 1
    <3>1. i \in a..b /\ i < x.id
      BY <1>1
    <3>2. PICK y \in R : y.id = i
      BY <3>1
    <3>3. QED
      BY <3>1, <3>2
  <2>2. \A y \in S : y.id \in a..x.id - 1
    <3> TAKE y \in S
    <3>1. y.id \in a..b /\ y.id < x.id
      OBVIOUS
    <3>2. QED
      BY <1>1, <3>1
  <2> HIDE DEF S
  <2>3. QED
    BY <2>1, <2>2
<1>4. x.id - 1 \in Int
  BY <1>1
<1> HIDE DEF S
<1>5. Cardinality(S) = IF a > x.id - 1 THEN 0 ELSE x.id - 1 - a + 1
  BY <1>2, <1>3, <1>4, CountByIds
<1>6. Cardinality(S) = x.id - a
  BY <1>1, <1>5
<1>7. QED
  BY <1>1, <1>6 DEF S

(* ... and the n newest rows the n highest.                                *)
LEMMA NewestByIds ==
    ASSUME NEW R \in SUBSET Items, Distinct(R), NEW a \in Int, NEW b \in Int,
           {x.id : x \in R} = a..b, NEW n \in Nat
    PROVE  \A x \in R : x \in Newest(R, n) <=> x.id > b - n
<1> SUFFICES ASSUME NEW x \in R
             PROVE  Cardinality({y \in R : y.id > x.id}) < n <=> x.id > b - n
  BY DEF Newest
<1> DEFINE S == {y \in R : y.id > x.id}
<1>1. x.id \in a..b
  OBVIOUS
<1>2. S \in SUBSET Items /\ Distinct(S)
  BY DEF Distinct
<1>3. {y.id : y \in S} = x.id + 1..b
  <2>1. \A i \in x.id + 1..b : \E y \in S : y.id = i
    <3> TAKE i \in x.id + 1..b
    <3>1. i \in a..b /\ i > x.id
      BY <1>1
    <3>2. PICK y \in R : y.id = i
      BY <3>1
    <3>3. QED
      BY <3>1, <3>2
  <2>2. \A y \in S : y.id \in x.id + 1..b
    <3> TAKE y \in S
    <3>1. y.id \in a..b /\ y.id > x.id
      OBVIOUS
    <3>2. QED
      BY <1>1, <3>1
  <2> HIDE DEF S
  <2>3. QED
    BY <2>1, <2>2
<1>4. x.id + 1 \in Int
  BY <1>1
<1> HIDE DEF S
<1>5. Cardinality(S) = IF x.id + 1 > b THEN 0 ELSE b - (x.id + 1) + 1
  BY <1>2, <1>3, <1>4, CountByIds
<1>6. Cardinality(S) = b - x.id
  BY <1>1, <1>5
<1>7. QED
  BY <1>1, <1>6 DEF S

(* A page has a smallest id, the cursor of the next one.                   *)
LEMMA SmallestId ==
    ASSUME NEW P \in SUBSET Items, P # {}
    PROVE  /\ MinID(P) \in Nat
           /\ \E x \in P : x.id = MinID(P)
           /\ \A x \in P : MinID(P) <= x.id
<1> DEFINE R == {x.id : x \in P}
           K == [i \in R |-> i]
           T == Least(R, K, 1)
<1>1. R \subseteq 1..Len(Queue) /\ R # {} /\ Len(Queue) \in Int
  <2>1. \A x \in P : x.id \in 1..Len(Queue)
    BY DEF Items
  <2>2. QED
    BY <2>1
<1>2. IsFiniteSet(R)
  BY <1>1, FS_Interval, FS_Subset, 1 \in Int
<1> HIDE DEF R
<1>3. /\ IsFiniteSet(T)
      /\ \A i \in R \ T : Cardinality(T) = 1
  <2>1. K \in [R -> Int] /\ \A i, j \in R : K[i] = K[j] => i = j
    BY <1>1
  <2>2. 1 \in Nat
    OBVIOUS
  <2> HIDE DEF K
  <2>3. QED
    BY <1>2, <2>1, <2>2, Smallest
<1>4. PICK m \in R : m \in T
  <2> HIDE DEF T
  <2>1. Cardinality({}) # 1
    BY FS_EmptySet
  <2>2. ASSUME T = {} PROVE FALSE
    <3>1. PICK i \in R : i \notin T
      BY <1>1, <2>2
    <3>2. QED
      BY <1>3, <2>1, <2>2, <3>1
  <2>3. T \subseteq R
    BY DEF T, Least
  <2>4. QED
    BY <2>2, <2>3
<1>5. \A j \in R : m <= j
  <2> DEFINE B == {j \in R : K[j] < K[m]}
  <2>1. IsFiniteSet(B) /\ Cardinality(B) < 1
    BY <1>2, <1>4, FS_Subset DEF Least, Below
  <2>2. Cardinality(B) \in Nat
    BY <2>1, FS_CardinalityType
  <2> HIDE DEF B, K
  <2>3. Cardinality(B) = 0
    BY <2>1, <2>2
  <2>4. B = {}
    BY <2>1, <2>3, FS_EmptySet
  <2>5. \A j \in R : ~(j < m)
    BY <2>4 DEF B, K
  <2>6. QED
    BY <1>1, <2>5
<1>6. \E x \in P : \A y \in P : x.id <= y.id
  <2>1. PICK x \in P : x.id = m
    BY <1>4 DEF R
  <2>2. QED
    BY <1>5, <2>1 DEF R
<1>7. \E x \in P : x.id = MinID(P) /\ \A y \in P : x.id <= y.id
  BY <1>6, Zenon DEF MinID
<1>8. QED
  BY <1>7 DEF Items

-----------------------------------------------------------------------------
(* What is stored, and what List makes of it.                              *)

(* Both backends hold a row for each of the last ids.                      *)
LEMMA StoredFacts ==
    ASSUME TypeOK, RingInv, TableInv
    PROVE  /\ Stored \in SUBSET Items
           /\ Distinct(Stored)
           /\ Held \in Nat /\ Held <= lastID
           /\ {x.id : x \in Stored} = lastID - Held + 1..lastID
           /\ IsFiniteSet(Stored)
           /\ Cardinality(Stored) = Held
<1>1. lastID \in Nat /\ count \in Nat /\ retained \in Nat
  BY DEF TypeOK
<1>2. /\ Stored \in SUBSET Items
      /\ Distinct(Stored)
      /\ Held \in Nat
      /\ {x.id : x \in Stored} = lastID - Held + 1..lastID
  <2>1. CASE backend = "memory"
    <3>1. Stored = {RingAt(o) : o \in 0..count - 1} /\ Held = count
      BY <2>1 DEF Stored, Held
    <3>2. \A o \in 0..count - 1 :
             RingAt(o) \in Items /\ RingAt(o).id = lastID - o
      BY <2>1 DEF RingInv
    <3>3. ASSUME NEW i \in lastID - count + 1..lastID
          PROVE  \E x \in Stored : x.id = i
      <4>1. lastID - i \in 0..count - 1 /\ lastID - (lastID - i) = i
        BY <1>1
      <4>2. /\ RingAt(lastID - i) \in Stored
            /\ RingAt(lastID - i).id = lastID - (lastID - i)
        BY <3>1, <3>2, <4>1
      <4>3. QED
        BY <4>1, <4>2
    <3>4. ASSUME NEW x \in Stored
          PROVE  x.id \in lastID - count + 1..lastID
      <4>1. PICK o \in 0..count - 1 : x = RingAt(o)
        BY <3>1
      <4>2. QED
        BY <1>1, <3>2, <4>1
    <3>5. ASSUME NEW x \in Stored, NEW y \in Stored, x.id = y.id
          PROVE  x = y
      <4>1. PICK o \in 0..count - 1, p \in 0..count - 1 :
               x = RingAt(o) /\ y = RingAt(p)
        BY <3>1
      <4>2. x.id = lastID - o /\ y.id = lastID - p
        BY <3>2, <4>1
      <4>3. o = p
        <5>1. lastID - o = lastID - p
          BY <3>5, <4>2
        <5>2. o \in Int /\ p \in Int
          BY <1>1
        <5>3. QED
          BY <1>1, <5>1, <5>2
      <4>4. QED
        BY <4>1, <4>3
    <3>6. {x.id : x \in Stored} = lastID - count + 1..lastID
      BY <3>3, <3>4
    <3>7. Stored \in SUBSET Items
      BY <3>1, <3>2
    <3>8. QED
      BY <1>1, <3>1, <3>5, <3>6, <3>7 DEF Distinct
  <2>2. CASE backend = "sqlite"
    <3>1. Stored = table /\ Held = retained
      BY <2>2 DEF Stored, Held
    <3>2. QED
      BY <1>1, <2>2, <3>1 DEF TableInv, TypeOK
  <2>3. QED
    BY <2>1, <2>2 DEF TypeOK
<1>3. Held <= lastID
  <2>1. CASE backend = "memory"
    BY <1>1, <2>1 DEF RingInv, Held, AllKept
  <2>2. CASE backend = "sqlite"
    <3>1. {x.id : x \in table} = lastID - retained + 1..lastID
      BY <2>2 DEF TableInv
    <3>2. CASE retained = 0
      BY <1>1, <2>2, <3>2 DEF Held
    <3>3. CASE retained # 0
      <4>1. lastID - retained + 1 \in lastID - retained + 1..lastID
        BY <1>1, <3>3
      <4>2. PICK x \in table : x.id = lastID - retained + 1
        BY <3>1, <4>1
      <4>3. x.id \in 1..Len(Queue)
        BY <4>2 DEF TypeOK, Items
      <4>4. QED
        BY <1>1, <2>2, <4>2, <4>3 DEF Held
    <3>4. QED
      BY <3>2, <3>3
  <2>3. QED
    BY <2>1, <2>2 DEF TypeOK
<1>4. lastID - Held + 1 \in Int /\ lastID \in Int
  BY <1>1, <1>2
<1>5. /\ IsFiniteSet(Stored)
      /\ Cardinality(Stored)
            = IF lastID - Held + 1 > lastID THEN 0
              ELSE lastID - (lastID - Held + 1) + 1
  BY <1>2, <1>4, CountByIds
<1>6. Cardinality(Stored) = Held
  BY <1>1, <1>2, <1>3, <1>5
<1>7. QED
  BY <1>2, <1>3, <1>5, <1>6

(* List leaves out a wanted flow only of a full page, all of it newer.     *)
LEMMA ListIsNewest ==
    ASSUME TypeOK, RingInv, TableInv,
           NEW wanted \in SUBSET Stored, NEW limit \in Nat
    PROVE  /\ List(wanted, limit) \subseteq wanted
           /\ \A x \in wanted \ List(wanted, limit) :
                 /\ Cardinality(List(wanted, limit)) = limit
                 /\ \A y \in List(wanted, limit) : x.id < y.id
<1>1. /\ Stored \in SUBSET Items /\ Distinct(Stored) /\ IsFiniteSet(Stored)
      /\ \A x \in Items : x.id \in Int
  BY StoredFacts DEF Items
<1>2. CASE backend = "memory"
  <2> DEFINE hits == {o \in 0..count - 1 : RingAt(o) \in wanted}
             K == [o \in hits |-> o]
             T == Least(hits, K, limit)
             P == {RingAt(o) : o \in T}
  <2>1. List(wanted, limit) = P
    <3>1. \A h \in hits : Below(hits, K, h) = {g \in hits : g < h}
      BY DEF Below
    <3>2. T = {h \in hits : Cardinality({g \in hits : g < h}) < limit}
      BY <3>1 DEF Least
    <3> HIDE DEF T
    <3>3. QED
      BY <1>2, <3>2 DEF List
  <2>2. /\ Stored = {RingAt(o) : o \in 0..count - 1}
        /\ \A o \in 0..count - 1 :
              RingAt(o) \in Items /\ RingAt(o).id = lastID - o
        /\ lastID \in Int /\ count \in Int
    BY <1>2 DEF Stored, RingInv, TypeOK
  <2>3. hits \subseteq 0..count - 1 /\ \A o \in hits : RingAt(o) \in wanted
    OBVIOUS
  <2>4. \A x \in wanted : \E o \in hits : x = RingAt(o)
    BY <2>2
  <2>5. IsFiniteSet(hits)
    <3>1. IsFiniteSet(0..count - 1)
      BY <2>2, FS_Interval
    <3> HIDE DEF hits
    <3>2. QED
      BY <2>3, <3>1, FS_Subset
  <2>6. K \in [hits -> Int] /\ \A o, p \in hits : K[o] = K[p] => o = p
    BY <2>2
  <2>7. \A o \in hits : K[o] = o
    OBVIOUS
  <2> HIDE DEF hits, K
  <2>8. /\ IsFiniteSet(T)
        /\ \A x \in hits \ T :
              Cardinality(T) = limit /\ \A y \in T : K[y] < K[x]
    BY <2>5, <2>6, Smallest
  <2>9. T \subseteq hits
    BY DEF Least
  <2> HIDE DEF T
  <2>10. Cardinality(P) = Cardinality(T)
    <3> DEFINE f == [o \in T |-> RingAt(o)]
    <3>1. \A o \in T : f[o] = RingAt(o) /\ RingAt(o).id = lastID - o
      BY <2>2, <2>3, <2>9
    <3>2. \A x \in P : \E o \in T : f[o] = x
      OBVIOUS
    <3>3. f \in [T -> P]
      OBVIOUS
    <3> HIDE DEF f, P
    <3>4. ASSUME NEW o \in T, NEW p \in T, f[o] = f[p] PROVE o = p
      <4>1. lastID - o = lastID - p
        BY <3>1, <3>4
      <4>2. o \in Int /\ p \in Int
        BY <2>2, <2>3, <2>9
      <4>3. QED
        BY <2>2, <4>1, <4>2
    <3>5. f \in Surjection(T, P) /\ f \in Injection(T, P)
      BY <3>2, <3>3, <3>4 DEF Injection, IsInjective, Surjection
    <3>6. QED
      BY <2>8, <3>5, FS_Surjection
  <2>11. P \subseteq wanted
    BY <2>3, <2>9
  <2>12. ASSUME NEW x \in wanted \ P
         PROVE  Cardinality(P) = limit /\ \A y \in P : x.id < y.id
    <3>1. PICK o \in hits : x = RingAt(o)
      BY <2>4
    <3>2. o \notin T
      BY <2>12, <3>1
    <3>3. Cardinality(P) = limit /\ \A p \in T : p < o
      BY <2>7, <2>8, <2>9, <2>10, <3>1, <3>2
    <3>4. ASSUME NEW y \in P PROVE x.id < y.id
      <4>1. PICK p \in T : y = RingAt(p)
        OBVIOUS
      <4>2. /\ x.id = lastID - o /\ y.id = lastID - p /\ p < o
            /\ p \in 0..count - 1 /\ o \in 0..count - 1
        BY <2>2, <2>3, <2>9, <3>1, <3>3, <4>1
      <4>3. QED
        BY <2>2, <4>2
    <3>5. QED
      BY <3>3, <3>4
  <2> HIDE DEF P
  <2>13. QED
    BY <2>1, <2>11, <2>12
<1>3. CASE backend = "sqlite"
  <2> DEFINE R == table \cap wanted
             K == [x \in R |-> -x.id]
             T == Least(R, K, limit)
  <2>1. Stored = table /\ R = wanted /\ R \in SUBSET Items /\ IsFiniteSet(R)
    BY <1>1, <1>3, FS_Subset DEF Stored
  <2>2. /\ K \in [R -> Int] /\ \A x \in R : K[x] = -x.id /\ x.id \in Int
    BY <1>1, <2>1
  <2>3. List(wanted, limit) = T
    <3>1. \A x \in R : Below(R, K, x) = {y \in R : y.id > x.id}
      <4> HIDE DEF K
      <4>1. \A x, y \in R : K[y] < K[x] <=> y.id > x.id
        BY <2>2
      <4>2. QED
        BY <4>1 DEF Below
    <3> HIDE DEF K, R
    <3>2. T = Newest(R, limit)
      BY <3>1 DEF Least, Newest
    <3>3. QED
      BY <1>3, <3>2 DEF List, R
  <2>4. \A x, y \in R : K[x] = K[y] => x = y
    <3>1. Distinct(R)
      BY <1>1, <2>1 DEF Distinct
    <3> HIDE DEF K, R
    <3>2. QED
      BY <2>2, <3>1 DEF Distinct
  <2> HIDE DEF R, K
  <2>5. \A x \in R \ T : Cardinality(T) = limit /\ \A y \in T : K[y] < K[x]
    BY <2>1, <2>2, <2>4, Smallest
  <2>6. T \subseteq R
    BY DEF Least
  <2> HIDE DEF T
  <2>7. QED
    BY <2>1, <2>2, <2>3, <2>5, <2>6
<1>4. QED
  BY <1>2, <1>3 DEF TypeOK

(* List is of wanted flows, whatever the limit.                            *)
LEMMA ListIsStored ==
    ASSUME NEW wanted \in SUBSET Stored, NEW limit
    PROVE  List(wanted, limit) \subseteq wanted
<1>1. CASE backend = "memory"
  BY <1>1 DEF List
<1>2. CASE backend # "memory"
  BY <1>2 DEF List, Newest
<1>3. QED
  BY <1>1, <1>2

-----------------------------------------------------------------------------
(* Storing and trimming.                                                   *)

(* The places of the ring are at most one turn from its start.             *)
LEMMA OneTurn ==
    ASSUME NEW i \in 0..2 * Capacity - 1
    PROVE  i % Capacity = IF i < Capacity THEN i ELSE i - Capacity
<1>1. CASE i \in 0..Capacity - 1
  BY <1>1
<1>2. CASE i \in Capacity..2 * Capacity - 1
  BY <1>2
<1>3. QED
  BY <1>1, <1>2

(* There is an id for each worker that adds a flow.                        *)
LEMMA RoomForOne ==
    ASSUME StoreInv, NEW w \in Workers, phase[w] = "adding"
    PROVE  /\ lastID \in Nat /\ lastID + 1 \in 1..Len(Queue)
           /\ [item[w] EXCEPT !.id = lastID + 1] \in Items
           /\ IsFiniteSet(Adding \ {w})
           /\ lastID + 1 + Cardinality(Adding \ {w}) <= taken
<1>1. /\ w \in Adding /\ IsFiniteSet(Adding)
      /\ lastID + Cardinality(Adding) <= taken
      /\ lastID \in Nat /\ taken \in 0..Len(Queue) /\ item[w] \in Items
      /\ Len(Queue) \in Nat
  BY DEF StoreInv, Adders, Adding, TypeOK
<1>2. /\ Cardinality(Adding) \in Nat
      /\ IsFiniteSet(Adding \ {w})
      /\ Cardinality(Adding \ {w}) = Cardinality(Adding) - 1
      /\ Cardinality(Adding \ {w}) \in Nat
  BY <1>1, FS_RemoveElement, FS_CardinalityType
<1>3. lastID + 1 \in 1..Len(Queue)
  BY <1>1, <1>2
<1>4. [item[w] EXCEPT !.id = lastID + 1] \in Items
  BY <1>1, <1>3 DEF Items
<1>5. QED
  BY <1>1, <1>2, <1>3, <1>4

(* memoryBackend.Add shifts the ring by one flow, before and after it is   *)
(* full and also when start passes the last place.                         *)
LEMMA RingIndexes ==
    ASSUME StoreInv, NEW w \in Workers, AddMemory(w)
    PROVE  LET x == [item[w] EXCEPT !.id = lastID + 1]
           IN  /\ RingInv'
               /\ Stored' \subseteq Stored \cup {x}
<1> DEFINE x == [item[w] EXCEPT !.id = lastID + 1]
           s == start
           n == count
           C == Capacity
           p == (s + n) % C
<1>1. /\ backend = "memory" /\ backend' = backend
      /\ ring' = [ring EXCEPT ![p] = x]
      /\ start' = (IF n = C THEN (s + 1) % C ELSE s)
      /\ count' = (IF n = C THEN n ELSE n + 1)
      /\ lastID' = lastID + 1
      /\ table' = table /\ retained' = retained
  BY DEF AddMemory, StartAfter, CountAfter, sqlite
<1>2. /\ C \in Nat \ {0} /\ s \in 0..C - 1 /\ n \in 0..C
      /\ ring \in [0..C - 1 -> Items \cup {NoItem}]
      /\ lastID \in Nat
      /\ table = {} /\ retained = 0
      /\ n = IF lastID < C THEN lastID ELSE C
      /\ n < C => s = 0
      /\ \A o \in 0..n - 1 : RingAt(o) \in Items /\ RingAt(o).id = lastID - o
  BY <1>1 DEF StoreInv, TypeOK, RingInv, AllKept
<1>3. x \in Items /\ x.id = lastID + 1
  <2>1. phase[w] = "adding"
    BY DEF AddMemory
  <2>2. x \in Items
    BY <2>1, RoomForOne
  <2>3. item[w] \in Items
    BY <2>1 DEF StoreInv, TypeOK
  <2>4. QED
    BY <2>2, <2>3 DEF Items
<1> DEFINE at(o) == (s + n - 1 - o) % C
           ats(o) == (start' + count' - 1 - o) % C
<1>4. /\ \A o \in 0..n - 1 : RingAt(o) = ring[at(o)]
      /\ \A o \in 0..count' - 1 : RingAt(o)' = ring'[ats(o)]
  BY DEF RingAt
<1>5. /\ ats(0) = p /\ p \in 0..C - 1
      /\ \A o \in 1..count' - 1 :
            /\ ats(o) = at(o - 1)
            /\ ats(o) \in 0..C - 1 \ {p} /\ o - 1 \in 0..n - 1
  <2>1. CASE n < C
    <3>1. s = 0 /\ start' = 0 /\ count' = n + 1 /\ p = n /\ n \in 0..C - 1
      <4>1. s = 0 /\ start' = s /\ count' = n + 1
        BY <1>1, <1>2, <2>1
      <4>2. n \in 0..C - 1 /\ n \in 0..2 * C - 1 /\ s + n = n
        BY <1>2, <2>1, <4>1
      <4>3. n % C = n
        BY <4>2, OneTurn
      <4>4. QED
        BY <4>1, <4>2, <4>3
    <3>2. ASSUME NEW o \in 0..count' - 1
          PROVE  ats(o) = n - o /\ n - o \in 0..C - 1
      <4>1. n - o \in 0..C - 1 /\ n - o \in 0..2 * C - 1
        BY <1>2, <3>1
      <4>2. start' + count' - 1 - o = n - o
        BY <1>2, <3>1
      <4>3. (n - o) % C = n - o
        BY <4>1, OneTurn
      <4>4. QED
        BY <4>1, <4>2, <4>3
    <3>3. ASSUME NEW o \in 1..count' - 1
          PROVE  /\ at(o - 1) = n - o /\ n - o # p /\ o - 1 \in 0..n - 1
                 /\ o \in 0..count' - 1
      <4>1. n - o \in 0..2 * C - 1 /\ n - o # n /\ n - o < C
        BY <1>2, <3>1
      <4>2. s + n - 1 - (o - 1) = n - o
        BY <1>2, <3>1
      <4>3. (n - o) % C = n - o
        BY <4>1, OneTurn
      <4>4. at(o - 1) = n - o
        BY <4>2, <4>3
      <4>5. QED
        BY <1>2, <3>1, <4>1, <4>4
    <3>4. 0 \in 0..count' - 1 /\ n - 0 = n
      BY <1>2, <3>1
    <3> HIDE DEF at, ats, p, s, n, C
    <3>5. ats(0) = p /\ p \in 0..C - 1
      BY <3>1, <3>2, <3>4
    <3>6. QED
      BY <3>2, <3>3, <3>5
  <2>2. CASE n = C
    <3>1. p = s /\ count' = C
      <4>1. s + n \in 0..2 * C - 1 /\ ~(s + n < C) /\ s + n - C = s
        BY <1>2, <2>2
      <4>2. PICK i \in 0..2 * C - 1 : i = s + n
        BY <4>1
      <4>3. p = IF i < C THEN i ELSE i - C
        BY <4>2, OneTurn
      <4>4. ~(i < C) /\ i - C = s
        BY <1>2, <4>1, <4>2
      <4>5. p = s
        BY <4>3, <4>4, Zenon
      <4> HIDE DEF p
      <4>6. QED
        BY <1>1, <2>2, <4>5
    <3>2. start' = IF s = C - 1 THEN 0 ELSE s + 1
      <4>1. s + 1 \in 0..2 * C - 1 /\ (s + 1 < C <=> s # C - 1)
        BY <1>2
      <4>2. s = C - 1 => s + 1 - C = 0
        BY <1>2
      <4>3. QED
        BY <1>1, <2>2, <4>1, <4>2, OneTurn
    <3>3. ASSUME NEW o \in 0..C - 1
          PROVE  ats(o) = IF o <= s THEN s - o ELSE s - o + C
      <4>1. start' + count' - 1 - o \in 0..2 * C - 1
        BY <1>2, <3>1, <3>2
      <4>2. PICK i \in 0..2 * C - 1 : i = start' + count' - 1 - o
        BY <4>1
      <4>3. ats(o) = i % C
        BY <4>2
      <4>4. i % C = IF i < C THEN i ELSE i - C
        BY OneTurn
      <4> HIDE DEF ats
      <4>5. QED
        BY <1>2, <3>1, <3>2, <4>2, <4>3, <4>4
    <3>4. ASSUME NEW o \in 1..C - 1
          PROVE  at(o - 1) = IF o <= s THEN s - o ELSE s - o + C
      <4>1. s + n - 1 - (o - 1) = s + C - o /\ s + C - o \in 0..2 * C - 1
        BY <1>2, <2>2
      <4>2. PICK i \in 0..2 * C - 1 : i = s + C - o
        BY <4>1
      <4>3. at(o - 1) = i % C
        BY <4>1, <4>2
      <4>4. i % C = IF i < C THEN i ELSE i - C
        BY OneTurn
      <4> HIDE DEF at
      <4>5. QED
        BY <1>2, <4>2, <4>3, <4>4
    <3> HIDE DEF at, ats, p
    <3>5. ats(0) = p /\ p \in 0..C - 1
      <4>1. 0 \in 0..C - 1 /\ 0 <= s /\ s - 0 = s
        BY <1>2
      <4>2. QED
        BY <1>2, <3>1, <3>3, <4>1
    <3>6. ASSUME NEW o \in 1..count' - 1
          PROVE  /\ ats(o) = at(o - 1) /\ ats(o) \in 0..C - 1 \ {p}
                 /\ o - 1 \in 0..n - 1
      <4>1. o \in 1..C - 1 /\ o \in 0..C - 1 /\ o - 1 \in 0..n - 1
        BY <1>2, <2>2, <3>1
      <4>2. ats(o) = at(o - 1) /\ ats(o) = IF o <= s THEN s - o ELSE s - o + C
        BY <3>3, <3>4, <4>1
      <4>3. QED
        BY <1>2, <3>1, <4>1, <4>2
    <3>7. QED
      BY <3>5, <3>6
  <2>3. QED
    BY <1>2, <2>1, <2>2
<1> HIDE DEF at, ats, p
<1>6. ASSUME NEW o \in 0..count' - 1
      PROVE  /\ o = 0 => RingAt(o)' = x
             /\ o # 0 => RingAt(o)' = RingAt(o - 1) /\ o - 1 \in 0..n - 1
  <2>1. CASE o = 0
    BY <1>1, <1>2, <1>4, <1>5, <2>1
  <2>2. CASE o # 0
    <3>1. o \in 1..count' - 1
      BY <1>1, <1>2, <2>2
    <3>2. ring'[ats(o)] = ring[ats(o)]
      BY <1>1, <1>2, <1>5, <3>1
    <3>3. QED
      BY <1>4, <1>5, <2>2, <3>1, <3>2
  <2>3. QED
    BY <2>1, <2>2
<1> HIDE DEF x
<1>7. ASSUME NEW o \in 0..count' - 1
      PROVE  RingAt(o)' \in Items /\ RingAt(o)'.id = lastID' - o
  <2>1. CASE o = 0
    <3>1. RingAt(o)' = x /\ lastID' - o = lastID + 1
      BY <1>1, <1>2, <1>6, <2>1
    <3>2. QED
      BY <1>3, <3>1
  <2>2. CASE o # 0
    <3>1. PICK q \in 0..n - 1 : q = o - 1
      BY <1>6, <2>2
    <3>2. RingAt(q) \in Items /\ RingAt(q).id = lastID - q
      BY <1>2
    <3>3. RingAt(o)' = RingAt(q)
      BY <1>6, <2>2, <3>1
    <3>4. lastID - q = lastID' - o
      BY <1>1, <1>2, <3>1
    <3>5. QED
      BY <3>2, <3>3, <3>4
  <2>3. QED
    BY <2>1, <2>2
<1>8. Stored' \subseteq Stored \cup {x}
  <2>1. /\ Stored = {RingAt(o) : o \in 0..n - 1}
        /\ Stored' = {RingAt(o)' : o \in 0..count' - 1}
    BY <1>1 DEF Stored
  <2>2. QED
    BY <1>6, <2>1
<1>9. RingInv'
  <2>1. /\ count' = IF lastID' < C THEN lastID' ELSE C
        /\ count' < C => start' = 0
    BY <1>1, <1>2
  <2>2. QED
    BY <1>1, <1>2, <1>7, <2>1 DEF RingInv, AllKept
<1>10. QED
  BY <1>8, <1>9 DEF x

(* sqliteStore.Add appends a row, and trims exactly down to the capacity.  *)
LEMMA TableIndexes ==
    ASSUME StoreInv, NEW w \in Workers, AddSQLite(w)
    PROVE  LET x == [item[w] EXCEPT !.id = lastID + 1]
           IN  /\ TableInv'
               /\ table' \in SUBSET Items /\ retained' \in Nat
               /\ Stored' \subseteq Stored \cup {x}
<1> DEFINE x == [item[w] EXCEPT !.id = lastID + 1]
           rows == table \cup {x}
           n == retained + 1
           full == n >= Capacity + Batch
           old == Oldest(rows, n - Capacity)
<1>1. /\ backend = "sqlite" /\ backend' = backend
      /\ table' = (IF full THEN rows \ old ELSE rows)
      /\ retained' = (IF full THEN Capacity ELSE n)
      /\ lastID' = lastID + 1
      /\ phase[w] = "adding"
  BY DEF AddSQLite, TrimCount
<1>2. /\ table \in SUBSET Items /\ Distinct(table)
      /\ lastID \in Nat /\ retained \in Nat /\ retained <= lastID
      /\ {y.id : y \in table} = lastID - retained + 1..lastID
      /\ retained \in AllKept..Capacity + Batch - 1
  <2>1. Stored = table /\ Held = retained
    BY <1>1 DEF Stored, Held
  <2>2. QED
    BY <1>1, <2>1, StoredFacts DEF StoreInv, TypeOK, TableInv
<1>3. x \in Items /\ x.id = lastID + 1
  <2>1. x \in Items /\ item[w] \in Items
    BY <1>1, RoomForOne DEF StoreInv, TypeOK
  <2>2. QED
    BY <2>1 DEF Items
<1>4. Capacity \in Nat \ {0} /\ Batch \in Nat \ {0} /\ AllKept \in Nat
  BY <1>2 DEF Batch, AllKept
<1> HIDE DEF x
<1>5. /\ rows \in SUBSET Items
      /\ Distinct(rows)
      /\ {y.id : y \in rows} = lastID - retained + 1..lastID + 1
  <2>1. \A y \in table : y.id \in lastID - retained + 1..lastID
    BY <1>2
  <2>2. Distinct(rows)
    <3>1. \A y \in table : y.id # x.id
      BY <1>2, <1>3, <2>1
    <3>2. QED
      BY <1>2, <3>1 DEF Distinct
  <2>3. \A y \in rows : y.id \in lastID - retained + 1..lastID + 1
    <3>1. lastID + 1 \in lastID - retained + 1..lastID + 1
      BY <1>2
    <3>2. \A i \in lastID - retained + 1..lastID :
             i \in lastID - retained + 1..lastID + 1
      BY <1>2
    <3>3. QED
      BY <1>3, <2>1, <3>1, <3>2
  <2>4. \A i \in lastID - retained + 1..lastID + 1 : \E y \in rows : y.id = i
    <3> TAKE i \in lastID - retained + 1..lastID + 1
    <3>1. i = lastID + 1 \/ i \in lastID - retained + 1..lastID
      BY <1>2
    <3>2. QED
      BY <1>2, <1>3, <3>1
  <2> HIDE DEF rows
  <2>5. {y.id : y \in rows} = lastID - retained + 1..lastID + 1
    BY <2>3, <2>4
  <2>6. QED
    BY <1>2, <1>3, <2>2, <2>5 DEF rows
<1>6. lastID - retained + 1 \in Int /\ lastID + 1 \in Int
  BY <1>2
<1> HIDE DEF rows, full, old
<1>7. CASE full
  <2>1. n - Capacity \in Nat
    BY <1>2, <1>4, <1>7 DEF full
  <2>2. \A y \in rows : y \in old <=>
           y.id < lastID - retained + 1 + (n - Capacity)
    BY <1>5, <1>6, <2>1, OldestByIds DEF old
  <2>3. lastID - retained + 1 + (n - Capacity) = lastID' - Capacity + 1
    BY <1>1, <1>2, <1>4
  <2>4. table' = {y \in rows : ~(y.id < lastID' - Capacity + 1)}
    BY <1>1, <1>7, <2>2, <2>3
  <2>5. \A i \in lastID' - Capacity + 1..lastID' :
           /\ i \in lastID - retained + 1..lastID + 1
           /\ ~(i < lastID' - Capacity + 1)
    BY <1>1, <1>2, <1>4, <2>1
  <2>6. {y.id : y \in table'} = lastID' - Capacity + 1..lastID'
    <3>1. \A y \in table' : y.id \in lastID' - Capacity + 1..lastID'
      <4> TAKE y \in table'
      <4>1. /\ y.id \in lastID - retained + 1..lastID + 1
            /\ ~(y.id < lastID' - Capacity + 1)
        BY <1>5, <2>4
      <4>2. QED
        BY <1>1, <1>2, <1>4, <4>1
    <3>2. \A i \in lastID' - Capacity + 1..lastID' : \E y \in table' : y.id = i
      <4> TAKE i \in lastID' - Capacity + 1..lastID'
      <4>1. PICK y \in rows : y.id = i
        BY <1>5, <2>5
      <4>2. QED
        BY <2>4, <2>5, <4>1
    <3>3. QED
      BY <3>1, <3>2
  <2>7. Distinct(table')
    BY <1>5, <2>4 DEF Distinct
  <2>8. retained' = Capacity /\ Capacity \in AllKept'..Capacity + Batch - 1
    <3>1. Capacity <= Capacity + Batch - 1
      BY <1>4
    <3>2. AllKept' \in Nat /\ AllKept' <= Capacity
      BY <1>1, <1>2, <1>4 DEF AllKept
    <3>3. retained' = Capacity
      BY <1>1, <1>7
    <3>4. QED
      BY <1>4, <3>1, <3>2, <3>3
  <2>9. TableInv'
    BY <1>1, <2>6, <2>7, <2>8 DEF TableInv, Batch
  <2>10. table' \in SUBSET Items /\ Stored' \subseteq Stored \cup {x}
    BY <1>1, <1>5, <2>4 DEF Stored, rows
  <2>11. QED
    BY <1>4, <2>8, <2>9, <2>10 DEF x
<1>8. CASE ~full
  <2>1. table' = rows /\ retained' = retained + 1
    BY <1>1, <1>8
  <2>2. retained' \in AllKept'..Capacity + Batch - 1
    <3>1. retained' <= Capacity + Batch - 1 /\ retained' \in Nat
      BY <1>2, <1>4, <1>8, <2>1 DEF full
    <3>2. AllKept' \in Nat /\ AllKept' <= AllKept + 1
      BY <1>1, <1>2, <1>4 DEF AllKept
    <3>3. QED
      BY <1>2, <1>4, <2>1, <3>1, <3>2
  <2>3. lastID - retained + 1 = lastID' - retained' + 1
    BY <1>1, <1>2, <2>1
  <2>4. TableInv'
    BY <1>1, <1>5, <2>1, <2>2, <2>3 DEF TableInv, Batch
  <2>5. table' \in SUBSET Items /\ Stored' \subseteq Stored \cup {x}
    BY <1>1, <1>5, <2>1 DEF Stored, rows
  <2>6. QED
    BY <1>2, <2>1, <2>4, <2>5 DEF x
<1>9. QED
  BY <1>7, <1>8

(* openSQLite trims what an insert had not trimmed yet, and counts it.     *)
LEMMA OpenIndexes ==
    ASSUME StoreInv, Restart
    PROVE  /\ RingInv' /\ TableInv'
           /\ lastID' \in 0..Len(Queue) /\ lastID' <= lastID
           /\ table' \in SUBSET Items /\ retained' \in Nat
           /\ Stored' \subseteq Stored
<1> DEFINE rows == Newest(table, Capacity)
<1>1. /\ backend' = backend
      /\ lastID' = (IF backend = "memory" THEN 0 ELSE lastID)
      /\ start' = 0 /\ count' = 0
      /\ table' = rows /\ retained' = Cardinality(rows)
  BY DEF Restart
<1>2. /\ backend \in {"memory", "sqlite"}
      /\ table \in SUBSET Items /\ lastID \in 0..Len(Queue) /\ lastID \in Nat
      /\ Capacity \in Nat \ {0} /\ Batch \in Nat \ {0}
      /\ retained \in Nat /\ Len(Queue) \in Nat
  BY DEF StoreInv, TypeOK, Batch
<1>3. rows \subseteq table
  BY DEF Newest
<1> HIDE DEF rows
<1>4. CASE backend = "memory"
  <2>1. table = {}
    BY <1>4 DEF StoreInv, RingInv
  <2>2. table' = {} /\ retained' = 0
    BY <1>1, <1>3, <2>1, FS_EmptySet
  <2>3. lastID' = 0 /\ count' = 0 /\ 0..count' - 1 = {}
    BY <1>1, <1>4
  <2>4. RingInv'
    <3>1. AllKept' = 0
      BY <1>2, <2>3 DEF AllKept
    <3>2. QED
      BY <1>1, <1>2, <2>2, <2>3, <3>1 DEF RingInv
  <2>5. Stored' = {}
    BY <1>1, <1>4, <2>3 DEF Stored
  <2>6. QED
    BY <1>1, <1>2, <1>4, <2>2, <2>3, <2>4, <2>5 DEF TableInv
<1>5. CASE backend = "sqlite"
  <2>1. Stored = table /\ Held = retained /\ Stored' = table'
    BY <1>1, <1>5 DEF Stored, Held
  <2>2. /\ Distinct(table) /\ retained <= lastID
        /\ {y.id : y \in table} = lastID - retained + 1..lastID
        /\ retained \in AllKept..Capacity + Batch - 1
    BY <1>5, <2>1, StoredFacts DEF StoreInv, TableInv
  <2>3. rows = {y \in table : y.id > lastID - Capacity}
    <3>1. lastID - retained + 1 \in Int /\ lastID \in Int /\ Capacity \in Nat
      BY <1>2
    <3>2. \A y \in table : y \in Newest(table, Capacity) <=>
             y.id > lastID - Capacity
      BY <1>2, <2>2, <3>1, NewestByIds
    <3>3. QED
      BY <1>3, <3>2 DEF rows
  <2> DEFINE n == IF retained < Capacity THEN retained ELSE Capacity
  <2>4. /\ n \in Nat /\ n <= retained /\ n <= Capacity
        /\ lastID - n + 1 \in Int /\ lastID \in Int
    BY <1>2
  <2>5. ASSUME NEW i \in lastID - retained + 1..lastID
        PROVE  i > lastID - Capacity <=> i \in lastID - n + 1..lastID
    BY <1>2
  <2>6. \A i \in lastID - n + 1..lastID : i \in lastID - retained + 1..lastID
    BY <1>2
  <2> HIDE DEF n
  <2>7. {y.id : y \in rows} = lastID - n + 1..lastID
    <3>1. \A y \in rows : y.id \in lastID - n + 1..lastID
      BY <2>2, <2>3, <2>5
    <3>2. \A i \in lastID - n + 1..lastID : \E y \in rows : y.id = i
      <4> TAKE i \in lastID - n + 1..lastID
      <4>1. PICK y \in table : y.id = i
        BY <2>2, <2>6
      <4>2. QED
        BY <2>3, <2>5, <2>6, <4>1
    <3>3. QED
      BY <3>1, <3>2
  <2>8. rows \in SUBSET Items /\ Distinct(rows)
    BY <1>2, <1>3, <2>2 DEF Distinct
  <2>9. Cardinality(rows) = IF lastID - n + 1 > lastID THEN 0
                            ELSE lastID - (lastID - n + 1) + 1
    BY <2>4, <2>7, <2>8, CountByIds
  <2>10. retained' = n
    BY <1>1, <2>4, <2>9
  <2>11. lastID' = lastID
    BY <1>1, <1>5
  <2>12. n \in AllKept..Capacity + Batch - 1
    BY <1>2, <2>2 DEF n, AllKept
  <2>13. TableInv'
    BY <1>1, <2>7, <2>8, <2>10, <2>11, <2>12 DEF TableInv, AllKept, Batch
  <2>14. QED
    BY <1>1, <1>2, <1>3, <1>5, <2>1, <2>4, <2>8, <2>10, <2>11, <2>13 DEF RingInv
<1>6. QED
  BY <1>2, <1>4, <1>5

-----------------------------------------------------------------------------
(* Flows and readers.                                                      *)

(* Flows that nobody knew when they were stored change nothing for a       *)
(* reader, nor do flows that are trimmed.                                  *)
LEMMA ReaderUndisturbed ==
    ASSUME StoreInv, reader' = reader,
           \A x \in Stored' : x \in Stored \/ x.flow \notin Known
    PROVE  ReaderInv' /\ PagingInv'
<1>1. ReaderInv /\ PagingInv
  BY DEF StoreInv
<1>2. /\ reader.got \subseteq Known /\ reader.promised \subseteq Known
  BY DEF Known
<1>3. ReaderInv'
  BY <1>1, <1>2 DEF ReaderInv, Older
<1>4. PagingInv'
  <2> SUFFICES ASSUME NEW x \in Stored', Due(x)'
               PROVE  /\ reader.more
                      /\ reader.before # 0 => x.id < reader.before
                      /\ reader.phase = "parents" /\ x \notin reader.page =>
                            /\ MayHaveMore(reader.page)
                            /\ \A y \in reader.page : x.id < y.id
    BY DEF PagingInv, MayHaveMore
  <2>1. Due(x) /\ x.flow \in reader.promised
    BY DEF Due, Matches
  <2>2. x \in Stored
    BY <1>2, <2>1
  <2>3. QED
    BY <1>1, <2>1, <2>2 DEF PagingInv
<1>5. QED
  BY <1>3, <1>4

(* A worker stores its flow and adds no more.                              *)
LEMMA FlowStored ==
    ASSUME StoreInv, NEW w \in Workers, phase[w] = "adding",
           Stored' \subseteq Stored \cup {[item[w] EXCEPT !.id = lastID + 1]},
           phase' = [phase EXCEPT ![w] = "publishing"],
           item' = [item EXCEPT ![w] = [item[w] EXCEPT !.id = lastID + 1]],
           lastID' = lastID + 1, taken' = taken, reader' = reader
    PROVE  Adders' /\ FlowsInv' /\ ReaderInv' /\ PagingInv'
<1> DEFINE x == [item[w] EXCEPT !.id = lastID + 1]
<1>1. /\ phase \in [Workers -> {"idle", "adding", "publishing"}]
      /\ item \in [Workers -> Items \cup {NoItem}]
      /\ item[w] \in Items
      /\ w \in Adding
      /\ FlowsInv
  BY DEF StoreInv, Adders, TypeOK, Adding
<1>2. /\ x \in Items /\ x.flow = item[w].flow /\ x.flow \notin Known
      /\ x.flow <= taken
  <2>1. x \in Items
    BY RoomForOne
  <2>2. x.flow = item[w].flow
    BY <1>1 DEF Items
  <2>3. QED
    BY <1>1, <2>1, <2>2 DEF FlowsInv
<1>3. Stored' \subseteq Stored \cup {x} /\ item' = [item EXCEPT ![w] = x]
  OBVIOUS
<1> HIDE DEF x
<1>4. Adding' = Adding \ {w}
  BY <1>1 DEF Adding
<1>5. \A v \in Adding' :
         v \in Adding /\ v \in Workers /\ item'[v] = item[v] /\ v # w
  BY <1>1, <1>3, <1>4 DEF Adding
<1>6. Adders'
  BY <1>1, <1>2, <1>3, <1>4, RoomForOne DEF Adders
<1>7. FlowsInv'
  <2>1. Known' \subseteq Known \cup {x.flow}
    <3>1. FlowsOf(Stored)' \subseteq FlowsOf(Stored) \cup {x.flow}
      BY <1>3 DEF FlowsOf
    <3>2. FlowsOf(reader.page)' = FlowsOf(reader.page)
      BY DEF FlowsOf
    <3>3. QED
      BY <3>1, <3>2 DEF Known
  <2>2. \A f \in Known' : f <= taken'
    BY <1>1, <1>2, <2>1 DEF FlowsInv
  <2>3. \A v \in Adding' :
           item'[v].flow <= taken' /\ item'[v].flow \notin Known'
    <3> TAKE v \in Adding'
    <3>1. /\ item[v].flow <= taken /\ item[v].flow \notin Known
          /\ item[v].flow # item[w].flow
      BY <1>1, <1>5 DEF FlowsInv
    <3>2. QED
      BY <1>2, <1>5, <2>1, <3>1
  <2>4. \A u, v \in Adding' : item'[u].flow = item'[v].flow => u = v
    BY <1>1, <1>5 DEF FlowsInv
  <2>5. \A y, z \in Stored' \cup reader'.page : y.flow = z.flow => y = z
    <3>1. \A y \in Stored \cup reader.page : y.flow # x.flow
      BY <1>2 DEF Known, FlowsOf
    <3>2. Stored' \cup reader'.page \subseteq (Stored \cup reader.page) \cup {x}
      BY <1>3
    <3>3. \A y, z \in Stored \cup reader.page : y.flow = z.flow => y = z
      BY <1>1 DEF FlowsInv
    <3>4. QED
      BY <3>1, <3>2, <3>3
  <2>6. QED
    BY <2>2, <2>3, <2>4, <2>5 DEF FlowsInv
<1>8. \A y \in Stored' : y \in Stored \/ y.flow \notin Known
  BY <1>2, <1>3
<1>9. QED
  BY <1>6, <1>7, <1>8, ReaderUndisturbed

(* Flows are forgotten, nothing is added, and the workers that still add   *)
(* do what they did.                                                       *)
LEMMA FlowsForgotten ==
    ASSUME StoreInv, taken' = taken, Known' \subseteq Known,
           Stored' \cup reader'.page \subseteq Stored \cup reader.page,
           Adding' \subseteq Adding,
           \A v \in Adding' : item'[v] = item[v]
    PROVE  FlowsInv'
<1>1. FlowsInv
  BY DEF StoreInv
<1>2. \A f \in Known' : f <= taken'
  BY <1>1 DEF FlowsInv
<1>3. \A v \in Adding' : item'[v].flow <= taken' /\ item'[v].flow \notin Known'
  BY <1>1 DEF FlowsInv
<1>4. \A u, v \in Adding' : item'[u].flow = item'[v].flow => u = v
  BY <1>1 DEF FlowsInv
<1>5. \A y, z \in Stored' \cup reader'.page : y.flow = z.flow => y = z
  BY <1>1 DEF FlowsInv
<1>6. QED
  BY <1>2, <1>3, <1>4, <1>5 DEF FlowsInv

(* The reader knows nothing new while it does nothing.                     *)
LEMMA KnownFrom ==
    ASSUME FlowsOf(Stored)' \subseteq FlowsOf(Stored), reader' = reader
    PROVE  Known' \subseteq Known
<1>1. FlowsOf(reader.page)' = FlowsOf(reader.page)
  BY DEF FlowsOf
<1>2. QED
  BY <1>1 DEF Known

(* The rows do not change when the variables of the backend do not.        *)
LEMMA StoredUnchanged ==
    ASSUME UNCHANGED <<backend, lastID, memory, sqlite>>
    PROVE  /\ Stored' = Stored
           /\ FlowsOf(Stored)' = FlowsOf(Stored)
           /\ RingInv' = RingInv
           /\ TableInv' = TableInv
<1>1. /\ backend' = backend /\ lastID' = lastID /\ ring' = ring
      /\ start' = start
      /\ count' = count /\ table' = table /\ retained' = retained
  BY DEF memory, sqlite
<1>2. Stored' = Stored
  BY <1>1 DEF Stored, RingAt
<1>3. FlowsOf(Stored)' = FlowsOf(Stored)
  BY <1>2 DEF FlowsOf
<1>4. RingInv' = RingInv
  BY <1>1 DEF RingInv, RingAt, AllKept
<1>5. TableInv' = TableInv
  BY <1>1 DEF TableInv, AllKept, Batch, Distinct
<1>6. QED
  BY <1>2, <1>3, <1>4, <1>5

(* The first query of a page.                                              *)
LEMMA FirstQuery ==
    ASSUME StoreInv, ListFlows
    PROVE  Known' \subseteq Known /\ FlowsInv' /\ ReaderInv' /\ PagingInv'
<1> DEFINE r == reader
           wanted == {x \in Stored :
                         Matches(x, r.requestsOnly) /\ Older(x, r.before)}
           page == List(wanted, Limit)
           all == {x.flow : x \in Stored}
<1>1. /\ r \in Readers /\ r.phase = "between" /\ r.more
      /\ FlowsInv /\ ReaderInv /\ PagingInv /\ TypeOK /\ RingInv /\ TableInv
  BY DEF ListFlows, StoreInv, ReaderInv
<1>2. Stored \in SUBSET Items /\ Limit \in Nat \ {0} /\ all = FlowsOf(Stored)
  <2>1. Capacity \in Nat \ {0} /\ PageSize \in Nat \ {0}
    OBVIOUS
  <2>2. QED
    BY <1>1, <2>1, StoredFacts DEF Limit, FlowsOf
<1>3. /\ page \subseteq wanted
      /\ \A x \in wanted \ page :
            Cardinality(page) = Limit /\ \A y \in page : x.id < y.id
  BY <1>1, <1>2, wanted \in SUBSET Stored, ListIsNewest
<1>4. /\ reader' = [r EXCEPT !.phase = "parents", !.page = page,
                    !.promised = IF r.before # 0 THEN @ ELSE all]
      /\ UNCHANGED <<backend, lastID, memory, sqlite, taken, phase, item>>
  BY DEF ListFlows, workers
<1>5. Stored' = Stored /\ FlowsOf(Stored)' = FlowsOf(Stored)
  BY <1>4, StoredUnchanged
<1> HIDE DEF page, all
<1>6. /\ reader'.phase = "parents" /\ reader'.requestsOnly = r.requestsOnly
      /\ reader'.before = r.before /\ reader'.more = r.more
      /\ reader'.page = page /\ reader'.got = r.got
      /\ reader'.parents = r.parents
      /\ reader'.promised = IF r.before # 0 THEN r.promised ELSE all
  BY <1>1, <1>4 DEF Readers
<1>7. /\ \A x \in wanted :
            x \in Stored /\ Matches(x, r.requestsOnly) /\ Older(x, r.before)
      /\ \A x \in Stored : Matches(x, r.requestsOnly) /\ Older(x, r.before) =>
            x \in wanted
  OBVIOUS
<1> HIDE DEF wanted
<1>8. all \subseteq Flows
  BY <1>2 DEF FlowsOf, Items
<1>9. Known' \subseteq Known
  <2>1. FlowsOf(reader.page)' \subseteq FlowsOf(Stored)
    <3>1. FlowsOf(reader.page)' = {x.flow : x \in page}
      BY <1>6 DEF FlowsOf
    <3>2. QED
      BY <1>3, <1>7, <3>1 DEF FlowsOf
  <2>2. reader'.promised \subseteq r.promised \cup FlowsOf(Stored)
    BY <1>2, <1>6
  <2>3. QED
    BY <1>5, <1>6, <2>1, <2>2 DEF Known
<1>10. FlowsInv'
  <2>1. Stored' \cup reader'.page \subseteq Stored \cup reader.page
    BY <1>3, <1>5, <1>6, <1>7
  <2>2. Adding' = Adding /\ item' = item /\ taken' = taken
    BY <1>4 DEF Adding
  <2>3. QED
    BY <1>9, <2>1, <2>2, FlowsForgotten
<1>11. ReaderInv'
  <2>1. reader' \in Readers
    BY <1>1, <1>2, <1>3, <1>4, <1>7, <1>8 DEF Readers
  <2>2. \A x \in page : Older(x, r.before) /\ x.flow \notin r.got
    <3> TAKE x \in page
    <3>1. /\ x \in Stored /\ Older(x, r.before) /\ x.id \in Int
          /\ r.before \in Int
      BY <1>1, <1>2, <1>3, <1>7 DEF Items, Readers
    <3>2. r.before = 0 => r.got = {}
      BY <1>1 DEF ReaderInv
    <3>3. x.flow \in r.got => x.id >= r.before
      BY <1>1, <3>1 DEF ReaderInv
    <3>4. QED
      BY <3>1, <3>2, <3>3 DEF Older
  <2>3. \A x \in Stored' : x.flow \in reader'.got => x.id >= reader'.before
    BY <1>1, <1>5, <1>6 DEF ReaderInv
  <2>4. reader'.before = 0 => reader'.got = {}
    BY <1>1, <1>6 DEF ReaderInv
  <2>5. \A x \in reader'.page :
           Older(x, reader'.before) /\ x.flow \notin reader'.got
    BY <1>6, <2>2
  <2>6. QED
    BY <1>1, <1>6, <2>1, <2>3, <2>4, <2>5 DEF ReaderInv, Older
<1>12. PagingInv'
  <2> SUFFICES ASSUME NEW x \in Stored, x.flow \in reader'.promised,
                      x.flow \notin r.got, Matches(x, r.requestsOnly)
               PROVE  /\ r.before # 0 => x.id < r.before
                      /\ x \notin page => /\ Cardinality(page) = Limit
                                          /\ \A y \in page : x.id < y.id
    BY <1>1, <1>5, <1>6 DEF PagingInv, Due, Matches, MayHaveMore, Limit
  <2>1. r.before # 0 => x.id < r.before
    <3>1. ASSUME r.before # 0 PROVE x.id < r.before
      <4>1. Due(x)
        BY <1>6, <3>1 DEF Due
      <4>2. QED
        BY <1>1, <3>1, <4>1 DEF PagingInv
    <3>2. QED
      BY <3>1
  <2>2. x \in wanted
    BY <1>7, <2>1 DEF Older
  <2>3. QED
    BY <1>3, <2>1, <2>2
<1>13. QED
  BY <1>9, <1>10, <1>11, <1>12

(* The second query, and the answer the browser receives.                  *)
LEMMA SecondQuery ==
    ASSUME StoreInv, ListParents
    PROVE  Known' \subseteq Known /\ FlowsInv' /\ ReaderInv' /\ PagingInv'
<1> DEFINE r == reader
           rows == r.page
           wanted == {x \in Stored : /\ Queue[x.flow].connect
                                     /\ Queue[x.flow].session \in Missing(rows)
                                     /\ Older(x, MinID(rows))}
           above == {x.flow : x \in List(wanted, Cardinality(Missing(rows)))}
<1>1. /\ r \in Readers /\ r.phase = "parents" /\ r.more
      /\ FlowsInv /\ ReaderInv /\ PagingInv /\ TypeOK /\ RingInv /\ TableInv
  BY DEF ListParents, StoreInv, ReaderInv
<1>2. Stored \in SUBSET Items /\ Limit \in Nat \ {0}
  <2>1. Capacity \in Nat \ {0} /\ PageSize \in Nat \ {0}
    OBVIOUS
  <2>2. QED
    BY <1>1, <2>1, StoredFacts DEF Limit
<1>3. above \subseteq Flows
  <2>1. List(wanted, Cardinality(Missing(rows))) \subseteq wanted
    BY wanted \in SUBSET Stored, ListIsStored
  <2>2. List(wanted, Cardinality(Missing(rows))) \subseteq Items
    BY <1>2, <2>1
  <2>3. \A x \in Items : x.flow \in Flows
    BY DEF Items
  <2> HIDE DEF wanted, rows
  <2>4. QED
    BY <2>2, <2>3
<1>4. /\ reader' = [r EXCEPT
            !.phase = "between", !.page = {}, !.more = MayHaveMore(rows),
            !.got = r.got \cup FlowsOf(rows),
            !.before = IF rows = {} THEN r.before ELSE MinID(rows),
            !.parents = IF rows = {} THEN r.parents ELSE r.parents \cup above]
      /\ UNCHANGED <<backend, lastID, memory, sqlite, taken, phase, item>>
  BY DEF ListParents, workers, FlowsOf
<1>5. Stored' = Stored /\ FlowsOf(Stored)' = FlowsOf(Stored)
  BY <1>4, StoredUnchanged
<1> HIDE DEF above, wanted
<1>6. /\ reader'.phase = "between" /\ reader'.requestsOnly = r.requestsOnly
      /\ reader'.before = (IF rows = {} THEN r.before ELSE MinID(rows))
      /\ reader'.more = MayHaveMore(rows)
      /\ reader'.page = {} /\ reader'.got = r.got \cup FlowsOf(rows)
      /\ reader'.parents = (IF rows = {} THEN r.parents
                            ELSE r.parents \cup above)
      /\ reader'.promised = r.promised
  BY <1>1, <1>4 DEF Readers
<1>7. /\ rows \in SUBSET Items /\ FlowsOf(rows) \subseteq Flows
      /\ FlowsOf(rows) \subseteq Known
  BY <1>1 DEF Readers, FlowsOf, Items, Known
<1>8. rows # {} => /\ MinID(rows) \in Nat
                   /\ \E x \in rows : x.id = MinID(rows)
                   /\ \A x \in rows : MinID(rows) <= x.id
  BY <1>7, SmallestId
<1>9. \A x \in Stored : x.flow \in FlowsOf(rows) => x \in rows
  BY <1>1 DEF FlowsInv, FlowsOf
<1>10. \A x \in rows : Older(x, r.before) /\ x.id \in Nat \ {0}
  BY <1>1, <1>7 DEF ReaderInv, Items
<1> HIDE DEF rows
<1>11. Known' \subseteq Known
  <2>1. FlowsOf(reader.page)' = {}
    BY <1>6 DEF FlowsOf
  <2>2. QED
    BY <1>5, <1>6, <1>7, <2>1 DEF Known
<1>12. FlowsInv'
  <2>1. Stored' \cup reader'.page \subseteq Stored \cup reader.page
    BY <1>5, <1>6
  <2>2. Adding' = Adding /\ item' = item /\ taken' = taken
    BY <1>4 DEF Adding
  <2>3. QED
    BY <1>11, <2>1, <2>2, FlowsForgotten
<1>13. ReaderInv'
  <2>1. reader' \in Readers
    <3>1. MayHaveMore(rows) \in BOOLEAN
      BY DEF MayHaveMore
    <3>2. r.got \cup FlowsOf(rows) \subseteq Flows
      BY <1>1, <1>7 DEF Readers
    <3>3. (IF rows = {} THEN r.before ELSE MinID(rows)) \in Nat
      BY <1>1, <1>8 DEF Readers
    <3>4. (IF rows = {} THEN r.parents
           ELSE r.parents \cup above) \subseteq Flows
      BY <1>1, <1>3 DEF Readers
    <3>5. QED
      BY <1>1, <1>4, <3>1, <3>2, <3>3, <3>4 DEF Readers
  <2>2. reader'.before = 0 => reader'.got = {}
    <3>1. CASE rows = {}
      BY <1>1, <1>6, <3>1 DEF ReaderInv, FlowsOf
    <3>2. CASE rows # {}
      BY <1>6, <1>8, <1>10, <3>2
    <3>3. QED
      BY <3>1, <3>2
  <2>3. \A x \in Stored' : x.flow \in reader'.got => x.id >= reader'.before
    <3> SUFFICES ASSUME NEW x \in Stored, x.flow \in r.got \cup FlowsOf(rows)
                 PROVE  x.id >= reader'.before
      BY <1>5, <1>6
    <3>1. /\ x.id \in Int /\ r.before \in Int
          /\ x.flow \in r.got => x.id >= r.before /\ r.before # 0
      BY <1>1, <1>2 DEF ReaderInv, Items, Readers
    <3>2. CASE rows = {}
      BY <1>6, <3>1, <3>2 DEF FlowsOf
    <3>3. CASE rows # {}
      <4>1. CASE x.flow \in FlowsOf(rows)
        BY <1>6, <1>8, <1>9, <3>1, <3>3, <4>1
      <4>2. CASE x.flow \in r.got
        <5>1. PICK y \in rows : y.id = MinID(rows)
          BY <1>8, <3>3
        <5>2. y.id < r.before /\ y.id \in Int
          BY <1>10, <3>1, <4>2, <5>1 DEF Older
        <5>3. QED
          BY <1>6, <3>1, <3>3, <4>2, <5>1, <5>2
      <4>3. QED
        BY <4>1, <4>2
    <3>4. QED
      BY <3>2, <3>3
  <2>4. QED
    BY <1>6, <2>1, <2>2, <2>3 DEF ReaderInv
<1>14. PagingInv'
  <2> SUFFICES ASSUME NEW x \in Stored, x.flow \in r.promised,
                      x.flow \notin r.got, x.flow \notin FlowsOf(rows),
                      Matches(x, r.requestsOnly)
               PROVE  /\ MayHaveMore(rows)
                      /\ reader'.before # 0 => x.id < reader'.before
    BY <1>5, <1>6 DEF PagingInv, Due, Matches
  <2>1. Due(x) /\ x \notin rows
    BY DEF Due, FlowsOf
  <2>2. MayHaveMore(rows) /\ \A y \in rows : x.id < y.id
    BY <1>1, <2>1 DEF PagingInv, rows
  <2>3. rows # {}
    <3>1. Cardinality({}) = 0
      BY FS_EmptySet
    <3>2. QED
      BY <1>2, <2>2, <3>1 DEF MayHaveMore
  <2>4. QED
    BY <1>6, <1>8, <2>2, <2>3
<1>15. QED
  BY <1>11, <1>12, <1>13, <1>14

(* A restart fails the page in progress.                                   *)
LEMMA Reopened ==
    ASSUME StoreInv, Restart
    PROVE  Adders' /\ FlowsInv' /\ ReaderInv' /\ PagingInv'
<1>1. /\ Adders /\ FlowsInv /\ ReaderInv /\ PagingInv /\ reader \in Readers
      /\ lastID \in Nat /\ taken \in Nat
  BY DEF StoreInv, ReaderInv, TypeOK
<1>2. Stored' \subseteq Stored /\ lastID' \in Nat /\ lastID' <= lastID
  BY OpenIndexes DEF StoreInv, TypeOK
<1>3. /\ phase' = [v \in Workers |-> "idle"]
      /\ item' = [v \in Workers |-> NoItem]
      /\ taken' = taken
      /\ reader' = IF reader.phase = "parents"
                   THEN [reader EXCEPT !.phase = "between", !.page = {}]
                   ELSE reader
  BY DEF Restart
<1>4. Adding' = {}
  BY <1>3 DEF Adding
<1>5. Adders'
  <2>1. Cardinality(Adding) \in Nat
    BY <1>1, FS_CardinalityType DEF Adders
  <2>2. lastID' <= taken'
    BY <1>1, <1>2, <1>3, <2>1 DEF Adders
  <2>3. IsFiniteSet(Adding') /\ Cardinality(Adding') = 0
    BY <1>4, FS_EmptySet
  <2>4. item' \in [Workers -> Items \cup {NoItem}]
    BY <1>3
  <2>5. QED
    BY <1>2, <2>2, <2>3, <2>4 DEF Adders
<1>6. /\ reader'.phase = "between" /\ reader'.page = {}
      /\ reader'.requestsOnly = reader.requestsOnly
      /\ reader'.before = reader.before /\ reader'.more = reader.more
      /\ reader'.got = reader.got /\ reader'.promised = reader.promised
      /\ reader' \in Readers
  <2>1. CASE reader.phase = "parents"
    BY <1>1, <1>3, <2>1 DEF Readers
  <2>2. CASE reader.phase # "parents"
    <3>1. reader' = reader /\ reader.phase = "between"
      BY <1>1, <1>3, <2>2 DEF Readers
    <3>2. QED
      BY <1>1, <3>1 DEF ReaderInv
  <2>3. QED
    BY <2>1, <2>2
<1>7. Known' \subseteq Known
  <2>1. FlowsOf(Stored)' \subseteq FlowsOf(Stored)
    BY <1>2 DEF FlowsOf
  <2>2. FlowsOf(reader.page)' = {}
    BY <1>6 DEF FlowsOf
  <2>3. QED
    BY <1>6, <2>1, <2>2 DEF Known
<1>8. FlowsInv'
  BY <1>2, <1>3, <1>4, <1>6, <1>7, FlowsForgotten
<1>9. ReaderInv'
  BY <1>1, <1>2, <1>6 DEF ReaderInv
<1>10. PagingInv'
  <2> SUFFICES ASSUME NEW x \in Stored', Due(x)'
               PROVE  reader.more /\ (reader.before # 0 => x.id < reader.before)
    BY <1>6 DEF PagingInv
  <2>1. Due(x)
    BY <1>6 DEF Due, Matches
  <2>2. QED
    BY <1>1, <1>2, <2>1 DEF PagingInv
<1>11. QED
  BY <1>5, <1>8, <1>9, <1>10

-----------------------------------------------------------------------------
(* The invariant, step by step.                                            *)

LEMMA StoreStarts == Init => StoreInv
<1> SUFFICES ASSUME Init PROVE StoreInv
  OBVIOUS
<1> USE DEF Init
<1>1. Capacity \in Nat \ {0} /\ Batch \in Nat \ {0} /\ Len(Queue) \in Nat
  BY DEF Batch
<1>2. PICK b \in BOOLEAN : reader = NewReader(b)
  OBVIOUS
<1>3. reader \in Readers /\ reader.page = {} /\ reader.got = {}
      /\ reader.parents = {} /\ reader.promised = {}
      /\ reader.phase = "between"
  BY <1>2 DEF NewReader, Readers
<1>4. Stored = {}
  <2>1. 0..count - 1 = {}
    OBVIOUS
  <2>2. QED
    BY <2>1 DEF Stored
<1>5. Adding = {}
  BY DEF Adding
<1>6. TypeOK
  <2>1. /\ lastID \in 0..Len(Queue) /\ taken \in 0..Len(Queue)
        /\ start \in 0..Capacity - 1 /\ count \in 0..Capacity
        /\ retained \in Nat /\ restarts \in 0..MaxRestarts
    BY <1>1
  <2>2. ring \in [0..Capacity - 1 -> Items \cup {NoItem}]
    BY DEF EmptyRing
  <2>3. /\ channel \in [Subscribers -> Seq(Flows)]
        /\ \A s \in Subscribers : Len(channel[s]) <= Buffer
    OBVIOUS
  <2>4. QED
    BY <1>3, <2>1, <2>2, <2>3 DEF TypeOK
<1>7. Adders
  BY <1>5, FS_EmptySet DEF Adders
<1>8. RingInv
  <2>1. AllKept = 0
    BY <1>1 DEF AllKept
  <2>2. 0..count - 1 = {}
    OBVIOUS
  <2>3. QED
    BY <2>1, <2>2 DEF RingInv
<1>9. TableInv
  <2>1. AllKept = 0 /\ 0 \in 0..Capacity + Batch - 1
    BY <1>1 DEF AllKept
  <2>2. lastID - retained + 1..lastID = {}
    OBVIOUS
  <2>3. {x.id : x \in table} = {}
    OBVIOUS
  <2>4. QED
    BY <2>1, <2>2, <2>3 DEF TableInv, Distinct
<1>10. FlowsInv
  <2>1. Known = {}
    BY <1>3, <1>4 DEF Known, FlowsOf
  <2>2. QED
    BY <1>3, <1>4, <1>5, <2>1 DEF FlowsInv
<1>11. ReaderInv
  BY <1>3, <1>4 DEF ReaderInv
<1>12. PagingInv
  BY <1>4 DEF PagingInv
<1>13. QED
  BY <1>6, <1>7, <1>8, <1>9, <1>10, <1>11, <1>12 DEF StoreInv

(* The queue hands out a flow that nobody knows.                           *)
LEMMA StoreTake ==
    ASSUME StoreInv, NEW w \in Workers, Take(w)
    PROVE  StoreInv'
<1> USE DEF Take
<1> DEFINE x == [id |-> taken + 1, flow |-> taken + 1]
<1>1. /\ TypeOK /\ Adders /\ RingInv /\ TableInv /\ FlowsInv /\ ReaderInv
      /\ phase[w] = "idle" /\ taken < Len(Queue) /\ taken' = taken + 1
      /\ phase' = [phase EXCEPT ![w] = "adding"]
      /\ item' = [item EXCEPT ![w] = x]
      /\ taken \in Nat /\ Len(Queue) \in Nat /\ reader' = reader
      /\ phase \in [Workers -> {"idle", "adding", "publishing"}]
      /\ item \in [Workers -> Items \cup {NoItem}]
  BY DEF StoreInv, TypeOK, Adders
<1>2. /\ Stored' = Stored /\ FlowsOf(Stored)' = FlowsOf(Stored) /\ RingInv'
      /\ TableInv'
  BY <1>1, StoredUnchanged
<1>3. Known' = Known
  <2>1. FlowsOf(reader.page)' = FlowsOf(reader.page)
    BY <1>1 DEF FlowsOf
  <2>2. QED
    BY <1>1, <1>2, <2>1 DEF Known
<1>4. taken + 1 \in 1..Len(Queue) /\ taken + 1 \in 0..Len(Queue)
  BY <1>1
<1>5. x \in Items /\ x.flow = taken + 1
  BY <1>4 DEF Items, Flows
<1> HIDE DEF x
<1>6. Adding' = Adding \cup {w} /\ w \notin Adding
  BY <1>1 DEF Adding
<1>7. item'[w] = x /\ \A v \in Adding : item'[v] = item[v]
  BY <1>1 DEF Adding
<1>8. TypeOK'
  <2>1. \A v \in Workers : phase'[v] # "idle" => item'[v] \in Items
    BY <1>1, <1>5 DEF TypeOK
  <2>2. phase' \in [Workers -> {"idle", "adding", "publishing"}]
    BY <1>1
  <2>3. QED
    BY <1>1, <1>4, <2>1, <2>2 DEF TypeOK, memory, sqlite, live
<1>9. Adders'
  <2>1. /\ IsFiniteSet(Adding \cup {w}) /\ Cardinality(Adding) \in Nat
        /\ Cardinality(Adding \cup {w}) = Cardinality(Adding) + 1
    BY <1>1, <1>6, FS_AddElement, FS_CardinalityType DEF Adders
  <2>2. lastID + Cardinality(Adding) <= taken /\ lastID \in Nat
    BY <1>1 DEF Adders, TypeOK
  <2>3. lastID' + Cardinality(Adding') <= taken'
    BY <1>1, <1>6, <2>1, <2>2
  <2>4. item' \in [Workers -> Items \cup {NoItem}]
    BY <1>1, <1>5
  <2>5. QED
    BY <1>6, <2>1, <2>3, <2>4 DEF Adders
<1>10. FlowsInv'
  <2>1. \A f \in Known : f \in Int /\ f <= taken
    <3>1. \A f \in Known : f \in Flows
      <4>1. \A y \in Stored : y.flow \in Flows
        BY <1>1, StoredFacts DEF Items
      <4>2. \A y \in reader.page : y.flow \in Flows
        BY <1>1 DEF ReaderInv, Readers, Items
      <4>3. QED
        BY <1>1, <4>1, <4>2 DEF Known, FlowsOf, ReaderInv, Readers
    <3>2. QED
      BY <1>1, <3>1 DEF FlowsInv, Flows
  <2>2. \A v \in Adding : item[v].flow \in Int /\ item[v].flow <= taken
    BY <1>1 DEF FlowsInv, Adding, TypeOK, Items, Flows
  <2>3. \A f \in Known' : f <= taken'
    BY <1>1, <1>3, <2>1
  <2>4. \A v \in Adding' :
           item'[v].flow <= taken' /\ item'[v].flow \notin Known'
    <3>1. \A v \in Adding :
             item[v].flow <= taken + 1 /\ item[v].flow \notin Known
      BY <1>1, <2>2 DEF FlowsInv
    <3>2. taken + 1 <= taken + 1 /\ taken + 1 \notin Known
      BY <1>1, <2>1
    <3>3. QED
      BY <1>1, <1>3, <1>5, <1>6, <1>7, <3>1, <3>2
  <2>5. \A u, v \in Adding' : item'[u].flow = item'[v].flow => u = v
    <3>1. \A u, v \in Adding : item[u].flow = item[v].flow => u = v
      BY <1>1 DEF FlowsInv
    <3>2. \A v \in Adding : item[v].flow # taken + 1
      BY <1>1, <2>2
    <3>3. QED
      BY <1>5, <1>6, <1>7, <3>1, <3>2
  <2>6. QED
    BY <1>1, <1>2, <2>3, <2>4, <2>5 DEF FlowsInv
<1>11. ReaderInv' /\ PagingInv'
  BY <1>1, <1>2, ReaderUndisturbed
<1>12. QED
  BY <1>2, <1>8, <1>9, <1>10, <1>11 DEF StoreInv

LEMMA StoreAddMemory ==
    ASSUME StoreInv, NEW w \in Workers, AddMemory(w)
    PROVE  StoreInv'
<1> DEFINE x == [item[w] EXCEPT !.id = lastID + 1]
<1>1. /\ TypeOK /\ phase[w] = "adding" /\ backend = "memory"
      /\ backend' = backend
      /\ ring' = [ring EXCEPT ![(start + count) % Capacity] = x]
      /\ item' = [item EXCEPT ![w] = x]
      /\ start' = StartAfter /\ count' = CountAfter /\ lastID' = lastID + 1
      /\ phase' = [phase EXCEPT ![w] = "publishing"]
      /\ UNCHANGED <<table, retained, taken, channel, open, reader, restarts>>
  BY DEF AddMemory, StoreInv, sqlite, live
<1>2. x \in Items /\ lastID + 1 \in 1..Len(Queue) /\ lastID \in Nat
  BY <1>1, RoomForOne
<1>3. RingInv' /\ Stored' \subseteq Stored \cup {x}
  BY RingIndexes
<1>4. Adders' /\ FlowsInv' /\ ReaderInv' /\ PagingInv'
  BY <1>1, <1>3, FlowStored
<1> HIDE DEF x
<1>5. TypeOK'
  <2>1. /\ start' \in 0..Capacity - 1 /\ count' \in 0..Capacity
    <3>1. /\ start \in 0..Capacity - 1 /\ count \in 0..Capacity
          /\ Capacity \in Nat \ {0}
      BY <1>1 DEF TypeOK
    <3>2. start + 1 \in Nat
      BY <3>1
    <3>3. (start + 1) % Capacity \in 0..Capacity - 1
      BY <3>1, <3>2
    <3>4. start' \in 0..Capacity - 1
      BY <1>1, <3>1, <3>3 DEF StartAfter
    <3>5. count' \in 0..Capacity
      BY <1>1, <3>1 DEF CountAfter
    <3>6. QED
      BY <3>4, <3>5
  <2>2. ring' \in [0..Capacity - 1 -> Items \cup {NoItem}]
    BY <1>1, <1>2 DEF TypeOK
  <2>3. phase' \in [Workers -> {"idle", "adding", "publishing"}]
    BY <1>1 DEF TypeOK
  <2>4. \A v \in Workers : phase'[v] # "idle" => item'[v] \in Items
    <3>1. item \in [Workers -> Items \cup {NoItem}]
      BY DEF StoreInv, Adders
    <3>2. QED
      BY <1>1, <1>2, <3>1 DEF TypeOK
  <2>5. lastID' \in 0..Len(Queue)
    BY <1>1, <1>2
  <2>6. QED
    BY <1>1, <2>1, <2>2, <2>3, <2>4, <2>5 DEF TypeOK
<1>6. TableInv'
  BY <1>1 DEF TableInv
<1>7. QED
  BY <1>3, <1>4, <1>5, <1>6 DEF StoreInv

LEMMA StoreAddSQLite ==
    ASSUME StoreInv, NEW w \in Workers, AddSQLite(w)
    PROVE  StoreInv'
<1> DEFINE x == [item[w] EXCEPT !.id = lastID + 1]
<1>1. /\ TypeOK /\ phase[w] = "adding" /\ backend = "sqlite"
      /\ backend' = backend
      /\ item' = [item EXCEPT ![w] = x] /\ lastID' = lastID + 1
      /\ phase' = [phase EXCEPT ![w] = "publishing"]
      /\ UNCHANGED <<ring, start, count, taken, channel, open,
                     reader, restarts>>
  BY DEF AddSQLite, StoreInv, memory, live
<1>2. x \in Items /\ lastID + 1 \in 1..Len(Queue) /\ lastID \in Nat
  BY <1>1, RoomForOne
<1>3. /\ TableInv' /\ Stored' \subseteq Stored \cup {x}
      /\ table' \in SUBSET Items /\ retained' \in Nat
  BY TableIndexes
<1>4. Adders' /\ FlowsInv' /\ ReaderInv' /\ PagingInv'
  BY <1>1, <1>3, FlowStored
<1> HIDE DEF x
<1>5. TypeOK'
  <2>1. phase' \in [Workers -> {"idle", "adding", "publishing"}]
    BY <1>1 DEF TypeOK
  <2>2. \A v \in Workers : phase'[v] # "idle" => item'[v] \in Items
    <3>1. item \in [Workers -> Items \cup {NoItem}]
      BY DEF StoreInv, Adders
    <3>2. QED
      BY <1>1, <1>2, <3>1 DEF TypeOK
  <2>3. lastID' \in 0..Len(Queue)
    BY <1>1, <1>2
  <2>4. QED
    BY <1>1, <1>3, <2>1, <2>2, <2>3 DEF TypeOK
<1>6. RingInv'
  BY <1>1 DEF RingInv
<1>7. QED
  BY <1>3, <1>4, <1>5, <1>6 DEF StoreInv

(* A worker gives its flow up or has published it; the rows stay.          *)
LEMMA WorkerIdle ==
    ASSUME StoreInv, NEW w \in Workers,
           UNCHANGED <<backend, lastID, memory, sqlite, taken,
                       reader, restarts, open>>,
           phase' = [phase EXCEPT ![w] = "idle"],
           item' = [item EXCEPT ![w] = NoItem],
           channel' \in [Subscribers -> Seq(Flows)],
           \A s \in Subscribers : Len(channel'[s]) <= Buffer
    PROVE  StoreInv'
<1>1. /\ TypeOK /\ Adders /\ RingInv /\ TableInv
      /\ phase \in [Workers -> {"idle", "adding", "publishing"}]
      /\ item \in [Workers -> Items \cup {NoItem}]
  BY DEF StoreInv, TypeOK, Adders
<1>2. /\ Stored' = Stored /\ FlowsOf(Stored)' = FlowsOf(Stored) /\ RingInv'
      /\ TableInv'
  BY <1>1, StoredUnchanged
<1>3. Adding' = Adding \ {w} /\ \A v \in Adding' : item'[v] = item[v]
  BY <1>1 DEF Adding
<1>4. TypeOK'
  <2>1. \A v \in Workers : phase'[v] # "idle" => item'[v] \in Items
    BY <1>1 DEF TypeOK
  <2>2. phase' \in [Workers -> {"idle", "adding", "publishing"}]
    BY <1>1
  <2>3. QED
    BY <1>1, <2>1, <2>2 DEF TypeOK, memory, sqlite
<1>5. Adders'
  <2>1. /\ IsFiniteSet(Adding \ {w}) /\ Cardinality(Adding \ {w}) \in Nat
        /\ Cardinality(Adding) \in Nat
        /\ Cardinality(Adding \ {w}) <= Cardinality(Adding)
    BY <1>1, FS_RemoveElement, FS_CardinalityType, FS_Subset DEF Adders
  <2>2. /\ lastID + Cardinality(Adding) <= taken
        /\ lastID \in Nat /\ taken \in Nat
    BY <1>1 DEF Adders, TypeOK
  <2>3. lastID' + Cardinality(Adding \ {w}) <= taken'
    BY <2>1, <2>2
  <2>4. item' \in [Workers -> Items \cup {NoItem}]
    BY <1>1
  <2>5. QED
    BY <1>3, <2>1, <2>3, <2>4 DEF Adders
<1>6. FlowsInv'
  <2>1. Known' \subseteq Known
    BY <1>2, KnownFrom
  <2>2. QED
    BY <1>2, <1>3, <2>1, FlowsForgotten
<1>7. ReaderInv' /\ PagingInv'
  BY <1>2, ReaderUndisturbed
<1>8. QED
  BY <1>2, <1>4, <1>5, <1>6, <1>7 DEF StoreInv

(* Steps of the subscribers and of the reader leave the workers alone.     *)
LEMMA WorkersUnchanged ==
    ASSUME StoreInv,
           UNCHANGED <<backend, lastID, memory, sqlite, workers, restarts>>,
           open' \subseteq Subscribers,
           channel' \in [Subscribers -> Seq(Flows)],
           \A s \in Subscribers : Len(channel'[s]) <= Buffer,
           FlowsInv', ReaderInv', PagingInv'
    PROVE  StoreInv'
<1>1. /\ TypeOK /\ Adders /\ RingInv /\ TableInv
      /\ phase' = phase /\ item' = item /\ taken' = taken
  BY DEF StoreInv, workers
<1>2. RingInv' /\ TableInv'
  BY <1>1, StoredUnchanged
<1>3. Adders'
  BY <1>1 DEF Adders, Adding
<1>4. TypeOK'
  <2>1. /\ reader'.page \subseteq Items
        /\ reader'.got \cup reader'.parents \cup reader'.promised
              \subseteq Flows
    BY DEF ReaderInv, Readers
  <2>2. QED
    BY <1>1, <2>1 DEF TypeOK, memory, sqlite
<1>5. QED
  BY <1>2, <1>3, <1>4 DEF StoreInv

LEMMA SubscriberStep ==
    ASSUME StoreInv,
           UNCHANGED <<backend, lastID, memory, sqlite, workers,
                       reader, restarts>>,
           open' \subseteq Subscribers,
           channel' \in [Subscribers -> Seq(Flows)],
           \A s \in Subscribers : Len(channel'[s]) <= Buffer
    PROVE  StoreInv'
<1>1. Stored' = Stored /\ FlowsOf(Stored)' = FlowsOf(Stored)
  BY StoredUnchanged
<1>2. Adding' = Adding /\ item' = item /\ taken' = taken
  BY DEF workers, Adding
<1>3. FlowsInv'
  <2>1. Known' \subseteq Known
    BY <1>1, KnownFrom
  <2>2. QED
    BY <1>1, <1>2, <2>1, FlowsForgotten
<1>4. ReaderInv' /\ PagingInv'
  BY <1>1, ReaderUndisturbed
<1>5. QED
  BY <1>3, <1>4, WorkersUnchanged

LEMMA StoreStep == StoreInv /\ [Next]_vars => StoreInv'
<1> SUFFICES ASSUME StoreInv, [Next]_vars PROVE StoreInv'
  OBVIOUS
<1>1. /\ TypeOK
      /\ channel \in [Subscribers -> Seq(Flows)]
      /\ \A s \in Subscribers :
            Len(channel[s]) <= Buffer /\ Len(channel[s]) \in Nat
      /\ Buffer \in Nat
  BY DEF StoreInv, TypeOK
<1>2. ASSUME NEW w \in Workers, Take(w) PROVE StoreInv'
  BY <1>2, StoreTake
<1>3. ASSUME NEW w \in Workers, AddMemory(w) PROVE StoreInv'
  BY <1>3, StoreAddMemory
<1>4. ASSUME NEW w \in Workers, AddSQLite(w) PROVE StoreInv'
  BY <1>4, StoreAddSQLite
<1>5. ASSUME NEW w \in Workers, FailSQLite(w) PROVE StoreInv'
  BY <1>1, <1>5, WorkerIdle DEF FailSQLite, RetainedAfterFailure, live, sqlite
<1>6. ASSUME NEW w \in Workers, Publish(w) PROVE StoreInv'
  <2>1. item[w].flow \in Flows
    BY <1>1, <1>6 DEF Publish, TypeOK, Items
  <2>2. ASSUME NEW s \in Subscribers
        PROVE  channel'[s] \in Seq(Flows) /\ Len(channel'[s]) <= Buffer
    <3>1. CASE s \in open /\ Len(channel[s]) < Buffer
      <4>1. channel'[s] = Append(channel[s], item[w].flow)
        BY <1>6, <3>1 DEF Publish
      <4>2. QED
        BY <1>1, <2>1, <3>1, <4>1
    <3>2. CASE ~(s \in open /\ Len(channel[s]) < Buffer)
      <4>1. channel'[s] = channel[s]
        BY <1>6, <3>2 DEF Publish
      <4>2. QED
        BY <1>1, <4>1
    <3>3. QED
      BY <3>1, <3>2
  <2>3. channel' \in [Subscribers -> Seq(Flows)]
    BY <1>6, <2>2 DEF Publish
  <2>4. QED
    BY <1>6, <2>2, <2>3, WorkerIdle DEF Publish
<1>7. ASSUME NEW s \in Subscribers, Subscribe(s) PROVE StoreInv'
  BY <1>1, <1>7, SubscriberStep DEF Subscribe, TypeOK
<1>8. ASSUME NEW s \in Subscribers, Hear(s) PROVE StoreInv'
  <2>1. Tail(channel[s]) \in Seq(Flows) /\ Len(Tail(channel[s])) <= Buffer
    BY <1>1, <1>8 DEF Hear
  <2>2. channel' \in [Subscribers -> Seq(Flows)]
        /\ \A t \in Subscribers : Len(channel'[t]) <= Buffer
    BY <1>1, <1>8, <2>1 DEF Hear
  <2>3. QED
    BY <1>1, <1>8, <2>2, SubscriberStep DEF Hear, TypeOK
<1>9. ASSUME NEW s \in Subscribers, Cancel(s) PROVE StoreInv'
  BY <1>1, <1>9, SubscriberStep DEF Cancel, TypeOK
<1>10. ASSUME ListFlows PROVE StoreInv'
  <2>1. FlowsInv' /\ ReaderInv' /\ PagingInv'
    BY <1>10, FirstQuery
  <2>2. /\ UNCHANGED <<backend, lastID, memory, sqlite, workers, restarts>>
        /\ open' = open /\ channel' = channel
    BY <1>10 DEF ListFlows, live
  <2>3. QED
    BY <1>1, <2>1, <2>2, WorkersUnchanged DEF TypeOK
<1>11. ASSUME ListParents PROVE StoreInv'
  <2>1. FlowsInv' /\ ReaderInv' /\ PagingInv'
    BY <1>11, SecondQuery
  <2>2. /\ UNCHANGED <<backend, lastID, memory, sqlite, workers, restarts>>
        /\ open' = open /\ channel' = channel
    BY <1>11 DEF ListParents, live
  <2>3. QED
    BY <1>1, <2>1, <2>2, WorkersUnchanged DEF TypeOK
<1>12. ASSUME Restart PROVE StoreInv'
  <2>1. Adders' /\ FlowsInv' /\ ReaderInv' /\ PagingInv'
    BY <1>12, Reopened
  <2>2. /\ RingInv' /\ TableInv' /\ lastID' \in 0..Len(Queue)
        /\ table' \in SUBSET Items /\ retained' \in Nat
    BY <1>12, OpenIndexes
  <2>3. /\ backend' = backend /\ taken' = taken
        /\ restarts < MaxRestarts /\ restarts' = restarts + 1
        /\ ring' = EmptyRing /\ start' = 0 /\ count' = 0
        /\ phase' = [v \in Workers |-> "idle"]
        /\ channel' = [s \in Subscribers |-> <<>>] /\ open' = {}
    BY <1>12 DEF Restart
  <2>4. /\ restarts' \in 0..MaxRestarts /\ start' \in 0..Capacity - 1
        /\ count' \in 0..Capacity
    BY <1>1, <2>3 DEF TypeOK
  <2>5. ring' \in [0..Capacity - 1 -> Items \cup {NoItem}]
    BY <2>3 DEF EmptyRing
  <2>6. /\ channel' \in [Subscribers -> Seq(Flows)]
        /\ \A s \in Subscribers : Len(channel'[s]) <= Buffer
    BY <2>3
  <2>7. /\ reader'.page \subseteq Items
        /\ reader'.got \cup reader'.parents \cup reader'.promised
              \subseteq Flows
    BY <2>1 DEF ReaderInv, Readers
  <2>8. TypeOK'
    BY <1>1, <2>2, <2>3, <2>4, <2>5, <2>6, <2>7 DEF TypeOK
  <2>9. QED
    BY <2>1, <2>2, <2>8 DEF StoreInv
<1>13. ASSUME UNCHANGED vars PROVE StoreInv'
  BY <1>1, <1>13, SubscriberStep DEF vars, memory, sqlite, workers, live, TypeOK
<1>14. QED
  BY <1>2, <1>3, <1>4, <1>5, <1>6, <1>7, <1>8, <1>9, <1>10, <1>11, <1>12, <1>13
     DEF Next, WorkerStep

-----------------------------------------------------------------------------

(* The inductive invariant of the store.                                   *)
THEOREM StoreInvariant == Spec => []StoreInv
BY StoreStarts, StoreStep, PTL DEF Spec

(* Both backends keep the newest flows without a gap and the row count     *)
(* that decides about trimming is exact (store.go:308, 663), whatever is   *)
(* added, trimmed, rolled back and restarted.                              *)
THEOREM Retention == Spec => []RetentionExact
<1>1. StoreInv => RetentionExact
  <2> SUFFICES ASSUME StoreInv PROVE RetentionExact
    OBVIOUS
  <2>1. /\ TypeOK /\ RingInv /\ TableInv
        /\ Cardinality(Stored) = Held
        /\ {x.id : x \in Stored} = lastID - Held + 1..lastID
    BY StoredFacts DEF StoreInv
  <2>2. backend = "memory" => Held = AllKept
    BY <2>1 DEF Held, RingInv
  <2>3. backend = "sqlite" =>
           Held = retained /\ retained \in AllKept..Capacity + Batch - 1
    BY <2>1 DEF Held, TableInv
  <2>4. QED
    BY <2>1, <2>2, <2>3 DEF RetentionExact, AllKept
<1>2. QED
  BY <1>1, StoreInvariant, PTL

(* A reader at the end of the history has every matching flow that was     *)
(* stored when it began and still is, and no flow twice                    *)
(* (store.go:226-242), whatever the workers and restarts do between its    *)
(* pages.                                                                  *)
THEOREM Pages == Spec => []PagesExact
<1>1. StoreInv => PagesExact
  BY DEF StoreInv, PagingInv, ReaderInv, Due, PagesExact
<1>2. QED
  BY <1>1, StoreInvariant, PTL
=============================================================================
