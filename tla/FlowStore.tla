------------------------------ MODULE FlowStore ------------------------------
(***************************************************************************)
(* The flow store of internal/flow/store.go: insertion and retention in    *)
(* the memory ring and in the SQLite table, the pages of ListPageSummary   *)
(* and the live subscribers.                                               *)
(*                                                                         *)
(* The recorder's workers take flows from its queue in order and add them  *)
(* concurrently: the backend assigns the id under a lock of its own, the   *)
(* subscribers are notified afterwards under Store.mu, so notifications    *)
(* may overtake one another.  A browser reads pages from the newest flow   *)
(* to the oldest while flows are added and trimmed; one page takes two     *)
(* queries, which see the store at different times.                        *)
(*                                                                         *)
(* A flow is its position in Queue.  Of its attributes the model keeps the *)
(* session and whether it is the session's CONNECT.                        *)
(***************************************************************************)
EXTENDS Integers, FiniteSets, Sequences

CONSTANTS
    Queue,          \* the flows the proxy records, in the order it queues them
    Sessions,       \* CONNECT sessions
    Workers,        \* recorder workers
    Subscribers,    \* event streams
    Capacity,       \* retained flows (VEILGATED_FLOW_RETENTION)
    RetentionBatch, \* retentionBatch, 100 in the code
    Buffer,         \* capacity of a subscriber's channel, 16 in the code
    PageSize,       \* the limit a reader asks for
    MaxRestarts,    \* bound: restarts of the process
    NoItem          \* an empty place of the ring; a worker without a flow

Flows == 1..Len(Queue)
Items == [id: 1..Len(Queue), flow: Flows]

ASSUME StoreAssumption ==
    /\ Queue \in Seq([session: Sessions, connect: BOOLEAN])
    /\ Capacity \in Nat \ {0} /\ RetentionBatch \in Nat \ {0}
    /\ Buffer \in Nat \ {0} /\ PageSize \in Nat \ {0}
    /\ MaxRestarts \in Nat
    /\ NoItem \notin Items

VARIABLES
    backend,  \* which backend Open chose
    lastID,   \* nextID of the ring, the AUTOINCREMENT counter of the table
    ring,     \* memoryBackend.flows
    start,    \* memoryBackend.start
    count,    \* memoryBackend.count
    table,    \* rows of the SQLite table
    retained, \* sqliteStore.retained
    taken,    \* flows the workers took from the queue
    phase,    \* what each worker is doing
    item,     \* the flow each worker adds
    channel,  \* the buffered flows of each subscriber
    open,     \* Store.subscribers
    reader,   \* the browser that pages through the history
    restarts  \* restarts so far

memory  == <<ring, start, count>>
sqlite  == <<table, retained>>
workers == <<taken, phase, item>>
live    == <<channel, open>>
vars == <<backend, lastID, ring, start, count, table, retained, taken, phase,
          item, channel, open, reader, restarts>>
-----------------------------------------------------------------------------
Batch == IF RetentionBatch < Capacity THEN RetentionBatch ELSE Capacity
Limit == IF PageSize > Capacity THEN Capacity ELSE PageSize

EmptyRing == [i \in 0..Capacity - 1 |-> NoItem]

(* The rows of a set with the highest and with the lowest ids.             *)
Newest(rows, n) == {x \in rows : Cardinality({y \in rows : y.id > x.id}) < n}
Oldest(rows, n) == {x \in rows : Cardinality({y \in rows : y.id < x.id}) < n}

(* The flow at a distance from the newest place of the ring.               *)
RingAt(offset) == ring[(start + count - 1 - offset) % Capacity]

Stored == IF backend = "memory" THEN {RingAt(o) : o \in 0..count - 1}
                                ELSE table

(* Filter.BeforeID: 0 is no bound.                                         *)
MutOlder(x, before) == before = 0 \/ x.id <= before
Older(x, before)    == before = 0 \/ x.id < before

(* A page shows all flows, or with a mode filter only intercepted requests. *)
Matches(x, requestsOnly) == requestsOnly => ~Queue[x.flow].connect

(* List of the stored flows wanted, up to a limit: the memory backend      *)
(* walks the ring, the query of the SQLite backend orders by id.           *)
List(wanted, limit) ==
    IF backend = "memory"
    THEN LET hits == {o \in 0..count - 1 : RingAt(o) \in wanted}
         IN  {RingAt(o) : o \in {h \in hits :
                  Cardinality({g \in hits : g < h}) < limit}}
    ELSE Newest(table \cap wanted, limit)

MinID(rows) == (CHOOSE x \in rows : \A y \in rows : x.id <= y.id).id

(* What a reader keeps between pages, and what one page adds to it.        *)
NewReader(b) ==
    [phase |-> "between", requestsOnly |-> b, before |-> 0, more |-> TRUE,
     page |-> {}, got |-> {}, parents |-> {}, promised |-> {}]
-----------------------------------------------------------------------------
(* Open on an empty database.                                              *)
Init ==
    /\ backend \in {"memory", "sqlite"}
    /\ lastID = 0
    /\ ring = EmptyRing /\ start = 0 /\ count = 0
    /\ table = {} /\ retained = 0
    /\ taken = 0
    /\ phase = [w \in Workers |-> "idle"]
    /\ item = [w \in Workers |-> NoItem]
    /\ channel = [s \in Subscribers |-> <<>>]
    /\ open = {}
    /\ reader \in {NewReader(b) : b \in BOOLEAN}
    /\ restarts = 0

(* A worker takes the next flow of the queue and calls Add.  The id of the *)
(* item is assigned by the backend.                                        *)
Take(w) ==
    /\ phase[w] = "idle"
    /\ taken < Len(Queue)
    /\ taken' = taken + 1
    /\ phase' = [phase EXCEPT ![w] = "adding"]
    /\ item' = [item EXCEPT ![w] = [id |-> taken + 1, flow |-> taken + 1]]
    /\ UNCHANGED <<backend, lastID, memory, sqlite, live, reader, restarts>>

(* memoryBackend.Add: a full ring overwrites its oldest place.             *)
MutStartAfter == start
StartAfter == IF count = Capacity THEN (start + 1) % Capacity ELSE start

MutCountAfter == count + 1
CountAfter == IF count = Capacity THEN count ELSE count + 1

AddMemory(w) ==
    /\ phase[w] = "adding"
    /\ backend = "memory"
    /\ LET x == [item[w] EXCEPT !.id = lastID + 1]
       IN  /\ ring' = [ring EXCEPT ![(start + count) % Capacity] = x]
           /\ item' = [item EXCEPT ![w] = x]
    /\ start' = StartAfter
    /\ count' = CountAfter
    /\ lastID' = lastID + 1
    /\ phase' = [phase EXCEPT ![w] = "publishing"]
    /\ UNCHANGED <<backend, sqlite, taken, live, reader, restarts>>

(* sqliteStore.Add: insert and trim in one transaction.  The table grows   *)
(* by a batch over the capacity before the oldest rows are deleted.        *)
MutTrimCount(n) == n - Capacity + 1
TrimCount(n)    == n - Capacity

AddSQLite(w) ==
    /\ phase[w] = "adding"
    /\ backend = "sqlite"
    /\ LET x    == [item[w] EXCEPT !.id = lastID + 1]
           rows == table \cup {x}
           full == retained + 1 >= Capacity + Batch
       IN  /\ table' = IF full THEN rows \ Oldest(rows, TrimCount(retained + 1))
                               ELSE rows
           /\ retained' = IF full THEN Capacity ELSE retained + 1
           /\ item' = [item EXCEPT ![w] = x]
    /\ lastID' = lastID + 1
    /\ phase' = [phase EXCEPT ![w] = "publishing"]
    /\ UNCHANGED <<backend, memory, taken, live, reader, restarts>>

(* A statement or the commit fails: the transaction is rolled back, with   *)
(* the AUTOINCREMENT counter, and retained was not assigned yet.           *)
MutRetainedAfterFailure == retained + 1
RetainedAfterFailure    == retained

FailSQLite(w) ==
    /\ phase[w] = "adding"
    /\ backend = "sqlite"
    /\ retained' = RetainedAfterFailure
    /\ phase' = [phase EXCEPT ![w] = "idle"]
    /\ item' = [item EXCEPT ![w] = NoItem]
    /\ UNCHANGED <<backend, lastID, memory, table, taken, live, reader,
                   restarts>>

(* The second half of Store.Add: a subscriber whose channel is full misses *)
(* the flow.                                                               *)
Publish(w) ==
    /\ phase[w] = "publishing"
    /\ channel' = [s \in Subscribers |->
           IF s \in open /\ Len(channel[s]) < Buffer
           THEN Append(channel[s], item[w].flow) ELSE channel[s]]
    /\ phase' = [phase EXCEPT ![w] = "idle"]
    /\ item' = [item EXCEPT ![w] = NoItem]
    /\ UNCHANGED <<backend, lastID, memory, sqlite, taken, open, reader,
                   restarts>>

Subscribe(s) ==
    /\ s \notin open
    /\ open' = open \cup {s}
    /\ channel' = [channel EXCEPT ![s] = <<>>]
    /\ UNCHANGED <<backend, lastID, memory, sqlite, workers, reader, restarts>>

(* The event stream takes one flow from its channel.                       *)
Hear(s) ==
    /\ s \in open
    /\ channel[s] # <<>>
    /\ channel' = [channel EXCEPT ![s] = Tail(@)]
    /\ UNCHANGED <<backend, lastID, memory, sqlite, workers, open, reader,
                   restarts>>

Cancel(s) ==
    /\ s \in open
    /\ open' = open \ {s}
    /\ channel' = [channel EXCEPT ![s] = <<>>]
    /\ UNCHANGED <<backend, lastID, memory, sqlite, workers, reader, restarts>>
-----------------------------------------------------------------------------
(* The first query of listPage.                                            *)
ListFlows ==
    /\ reader.phase = "between"
    /\ reader.more
    /\ LET wanted == {x \in Stored : /\ Matches(x, reader.requestsOnly)
                                     /\ Older(x, reader.before)}
       IN  reader' = [reader EXCEPT
               !.phase = "parents",
               !.page = List(wanted, Limit),
               !.promised = IF reader.before # 0 THEN @
                            ELSE {x.flow : x \in Stored}]
    /\ UNCHANGED <<backend, lastID, memory, sqlite, workers, live, restarts>>

(* Sessions with rows on the page and no CONNECT among them.               *)
SessionsOf(rows) == {Queue[x.flow].session : x \in rows}
Missing(rows) ==
    SessionsOf(rows) \ SessionsOf({x \in rows : Queue[x.flow].connect})

MutMayHaveMore(rows) == Cardinality(rows) > Limit
MayHaveMore(rows)    == Cardinality(rows) = Limit

(* The second query, for CONNECT rows older than the page; the mode filter *)
(* does not apply to it.  The browser receives both, and the cursor.       *)
ListParents ==
    /\ reader.phase = "parents"
    /\ LET rows   == reader.page
           wanted == {x \in Stored : /\ Queue[x.flow].connect
                                     /\ Queue[x.flow].session \in Missing(rows)
                                     /\ Older(x, MinID(rows))}
       IN  reader' = [reader EXCEPT
               !.phase = "between",
               !.page = {},
               !.more = MayHaveMore(rows),
               !.got = @ \cup {x.flow : x \in rows},
               !.before = IF rows = {} THEN @ ELSE MinID(rows),
               !.parents = IF rows = {} THEN @ ELSE @ \cup
                   {x.flow : x \in List(wanted, Cardinality(Missing(rows)))}]
    /\ UNCHANGED <<backend, lastID, memory, sqlite, workers, live, restarts>>

(* The process ends and starts again: the ring is lost, the table is       *)
(* trimmed and counted by openSQLite, workers and subscribers are gone.    *)
(* A page in progress fails; the browser keeps its rows and its cursor.    *)
Restart ==
    /\ restarts < MaxRestarts
    /\ restarts' = restarts + 1
    /\ lastID' = IF backend = "memory" THEN 0 ELSE lastID
    /\ ring' = EmptyRing /\ start' = 0 /\ count' = 0
    /\ table' = Newest(table, Capacity)
    /\ retained' = Cardinality(Newest(table, Capacity))
    /\ phase' = [w \in Workers |-> "idle"]
    /\ item' = [w \in Workers |-> NoItem]
    /\ channel' = [s \in Subscribers |-> <<>>]
    /\ open' = {}
    /\ reader' = IF reader.phase = "parents"
                 THEN [reader EXCEPT !.phase = "between", !.page = {}]
                 ELSE reader
    /\ UNCHANGED <<backend, taken>>

WorkerStep(w) ==
    Take(w) \/ AddMemory(w) \/ AddSQLite(w) \/ FailSQLite(w) \/ Publish(w)

Next ==
    \/ \E w \in Workers : WorkerStep(w)
    \/ \E s \in Subscribers : Subscribe(s) \/ Hear(s) \/ Cancel(s)
    \/ ListFlows
    \/ ListParents
    \/ Restart

Spec == Init /\ [][Next]_vars
-----------------------------------------------------------------------------
(* Every variable has its type.                                            *)
TypeOK ==
    /\ backend \in {"memory", "sqlite"}
    /\ lastID \in 0..Len(Queue)
    /\ ring \in [0..Capacity - 1 -> Items \cup {NoItem}]
    /\ start \in 0..Capacity - 1 /\ count \in 0..Capacity
    /\ table \subseteq Items /\ retained \in Nat
    /\ taken \in 0..Len(Queue)
    /\ phase \in [Workers -> {"idle", "adding", "publishing"}]
    /\ \A w \in Workers : phase[w] # "idle" => item[w] \in Items
    /\ open \subseteq Subscribers
    /\ channel \in [Subscribers -> Seq(Flows)]
    /\ \A s \in Subscribers : Len(channel[s]) <= Buffer
    /\ reader.page \subseteq Items
    /\ reader.got \cup reader.parents \cup reader.promised \subseteq Flows
    /\ restarts \in 0..MaxRestarts

(* Both backends keep the newest flows without a gap, however the ring has *)
(* wrapped or the table was trimmed, at insert and at open: at least       *)
(* Capacity of them, exactly so many in the ring (store.go:308), less than *)
(* a batch more in the table.  The row count that decides about trimming   *)
(* (store.go:663) is never off, after failed inserts, rolled back trims    *)
(* and restarts.                                                           *)
RetentionExact ==
    LET n == Cardinality(Stored)
        all == IF lastID < Capacity THEN lastID ELSE Capacity
    IN  /\ TypeOK
        /\ {x.id : x \in Stored} = lastID - n + 1..lastID
        /\ backend = "memory" => n = all
        /\ backend = "sqlite" => /\ n \in all..Capacity + Batch - 1
                                 /\ n = retained

(* A reader that reaches the end of the history has every matching flow    *)
(* that was stored when it began and still is, whatever was added, trimmed *)
(* or restarted between its pages (store.go:226-242), and no flow is on    *)
(* two pages.                                                              *)
PagesExact ==
    /\ reader.phase = "between" /\ ~reader.more =>
           \A x \in Stored :
               x.flow \in reader.promised /\ Matches(x, reader.requestsOnly)
               => x.flow \in reader.got
    /\ \A x \in reader.page : x.flow \notin reader.got

(* DESIGN.md:276-277: CONNECT sessions form parent rows with their         *)
(* requests beneath them.  A reader at the end of the history has, for     *)
(* every request it got, the stored CONNECT of its session.                *)
GroupsHaveParents ==
    reader.phase = "between" /\ ~reader.more =>
        \A f \in reader.got, c \in Flows :
            /\ Queue[c].connect /\ Queue[c].session = Queue[f].session
            /\ c \in reader.promised
            /\ c \in {x.flow : x \in Stored}
            => c \in reader.got \cup reader.parents
=============================================================================
