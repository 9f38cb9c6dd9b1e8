----------------------------- MODULE ConsoleFeed -----------------------------
(***************************************************************************)
(* The traffic list of the console page, internal/console/static/app.js:   *)
(* filters, pages of history, the live event source, and the pauses that   *)
(* the operator or the detail drawer asks for.                             *)
(*                                                                         *)
(* The page runs one callback at a time, so every action is atomic, but    *)
(* requests and events answer later: an operator acts between the start of *)
(* loadPage and its answer, and resumeFeed goes on after that answer.      *)
(*                                                                         *)
(* Flows are their ids.  The server side is external: a request for a page *)
(* is answered from the flows stored at that time, an event source is      *)
(* subscribed some time after it was opened, is told of matching flows in  *)
(* any order (flow/store.go) and may miss some, or it is refused.  No flow *)
(* is trimmed.                                                             *)
(***************************************************************************)
EXTENDS Integers, FiniteSets

CONSTANTS
    Filters,    \* values of the filter form
    Matching,   \* the flows each filter matches
    PageSize,   \* PAGE_SIZE, 100 in the code
    MaxRows,    \* MAX_ROWS, 2000 in the code
    MaxFlows,   \* bound: flows that are ever stored
    MaxStreams, \* bound: event sources open at a time
    None        \* no request, no answer, no selection, no stream

Ids == 1..MaxFlows
Request == [params: Filters, before: 0..MaxFlows,
            resume: BOOLEAN, page: (SUBSET Ids) \cup {None}, asOf: 0..MaxFlows]
Stream == [params: Filters, subscribed: BOOLEAN, pending: SUBSET Ids]

(* What events refers to when the server refused its source.               *)
Refused == 0

ASSUME FeedAssumption ==
    /\ PageSize \in Nat \ {0} /\ MaxRows \in Nat \ {0}
    /\ MaxFlows \in Nat /\ MaxStreams \in Nat \ {0}
    /\ Matching \in [Filters -> SUBSET Ids]
    /\ None \notin Ids \cup 0..MaxStreams \cup Request \cup Stream

VARIABLES
    newest,         \* the server stores flows 1..newest
    form,           \* the values in the filter form
    filter,         \* the active filter, in the URL's query
    rows,           \* ids in rows and flowItems
    nextBeforeID, hasMore,
    loading,        \* the one request of loadPage, or None
    streams,        \* event sources that are not closed
    events,         \* the stream of the variable events, None if the page
                    \* closed it
    isPaused, pausedByDetail,
    selectedID,
    wantsPause,     \* history: the operator paused the feed
    promised,       \* history: newest when the list was last read from its top
    disturbed       \* history: rows were evicted, or pages of another filter
                    \* than the active one were read, since the list was cleared

list    == <<rows, nextBeforeID, hasMore>>
live    == <<streams, events>>
pause   == <<isPaused, pausedByDetail, wantsPause>>
history == <<promised, disturbed>>
vars == <<newest, form, filter, list, loading, live, pause, selectedID, history>>
-----------------------------------------------------------------------------
NewestOf(ids, n) == {i \in ids : Cardinality({j \in ids : j > i}) < n}
OldestOf(ids, n) == {i \in ids : Cardinality({j \in ids : j < i}) < n}
MinID(ids) == CHOOSE i \in ids : \A j \in ids : i <= j

(* evictOverflow spares the flow whose drawer is open.                     *)
MutEvictable(ids) == ids
Evictable(ids)    == ids \ {selectedID}

MutRemovable(ids) == Cardinality(ids) - MaxRows - 1
Removable(ids)    == Cardinality(ids) - MaxRows

Evict(ids) ==
    IF Cardinality(ids) <= MaxRows THEN ids
    ELSE ids \ OldestOf(Evictable(ids), Removable(ids))

(* loadPage while no request is under way; filterParams reads the form,    *)
(* not the active filter.  From the top, before is 0.  resume: resumeFeed  *)
(* awaits it.  asOf is history, newest when the server answered.           *)
Load(before, resume) ==
    [params |-> form, before |-> before, resume |-> resume, page |-> None,
     asOf |-> 0]

(* events.close().                                                         *)
Closed == IF events \in {None, Refused} THEN streams
          ELSE [streams EXCEPT ![events] = None]

(* connectEvents(filterParams()), which leaves alone what events held.     *)
Connect(open) ==
    \E s \in 1..MaxStreams :
        /\ open[s] = None
        /\ \A t \in 1..s - 1 : open[t] # None
        /\ streams' = [open EXCEPT ![s] =
               [params |-> form, subscribed |-> FALSE, pending |-> {}]]
        /\ events' = s

(* resumeFeed awaits loadPage(true), which returns at once while another   *)
(* request is under way.                                                   *)
MutConnectsAtOnce == FALSE
ConnectsAtOnce    == loading # None

ResumeFeed ==
    /\ isPaused' = FALSE /\ pausedByDetail' = FALSE
    /\ loading' = IF loading = None THEN Load(0, TRUE) ELSE loading
    /\ IF ConnectsAtOnce THEN Connect(streams) ELSE UNCHANGED live

PauseFeed == isPaused' = TRUE /\ streams' = Closed /\ events' = None
-----------------------------------------------------------------------------
Init ==
    /\ newest \in 0..MaxFlows
    /\ form \in Filters /\ filter = form
    /\ rows = {} /\ nextBeforeID = 0 /\ hasMore = TRUE
    /\ loading = Load(0, FALSE)
    /\ streams = [s \in 1..MaxStreams |-> IF s > 1 THEN None ELSE
           [params |-> form, subscribed |-> FALSE, pending |-> {}]]
    /\ events = 1
    /\ isPaused = FALSE /\ pausedByDetail = FALSE /\ wantsPause = FALSE
    /\ selectedID = None
    /\ promised = 0 /\ disturbed = FALSE

(* The operator changes a field of the form.                               *)
Edit ==
    /\ form' \in Filters \ {form}
    /\ UNCHANGED <<newest, filter, list, loading, live, pause, selectedID,
                   history>>

(* applyFilters, by "Apply" and, after the form is emptied, by "Reset".    *)
ApplyFilters ==
    /\ filter' = form
    /\ selectedID' = None
    /\ rows' = {} /\ nextBeforeID' = 0 /\ hasMore' = TRUE
    /\ wantsPause' = FALSE
    /\ disturbed' = /\ loading # None
                    /\ loading.params # form \/ loading.before # 0
    /\ IF isPaused THEN ResumeFeed
       ELSE /\ loading' = IF loading = None THEN Load(0, FALSE)
                                            ELSE loading
            /\ Connect(Closed)
            /\ UNCHANGED <<isPaused, pausedByDetail>>
    /\ UNCHANGED <<newest, form, promised>>

(* The button or the sentinel at the end of the list: loadPage(false).     *)
LoadOlder ==
    /\ hasMore /\ loading = None
    /\ loading' = Load(nextBeforeID, FALSE)
    /\ UNCHANGED <<newest, form, filter, list, live, pause, selectedID, history>>

(* GET /api/v1/flows is answered by the server.                            *)
Answer ==
    /\ loading # None /\ loading.page = None
    /\ loading' = [loading EXCEPT !.page = NewestOf(
           {i \in 1..newest : /\ i \in Matching[loading.params]
                              /\ loading.before = 0 \/ i < loading.before},
           PageSize), !.asOf = newest]
    /\ UNCHANGED <<newest, form, filter, list, live, pause, selectedID,
                   history>>

(* What follows the request, whether it succeeded or not.                  *)
AfterLoad ==
    /\ loading' = None
    /\ IF loading.resume /\ ~isPaused THEN Connect(streams)
                                      ELSE UNCHANGED live

MutNextBefore(page) == MinID(page) - 1
NextBefore(page)    == MinID(page)

(* loadPage renders the answer.                                            *)
Receive ==
    /\ loading # None /\ loading.page # None
    /\ rows' = Evict(rows \cup loading.page)
    /\ nextBeforeID' = IF loading.page = {} THEN nextBeforeID
                       ELSE NextBefore(loading.page)
    /\ hasMore' = (Cardinality(loading.page) = PageSize)
    /\ disturbed' = \/ disturbed
                    \/ loading.params # filter
                    \/ rows' # rows \cup loading.page
    /\ promised' = IF loading.before = 0 THEN loading.asOf ELSE promised
    /\ AfterLoad
    /\ UNCHANGED <<newest, form, filter, pause, selectedID>>

(* The request fails: "History unavailable".                               *)
FailLoad ==
    /\ loading # None
    /\ AfterLoad
    /\ UNCHANGED <<newest, form, filter, list, pause, selectedID, history>>

(* toggleFeed.                                                             *)
ToggleFeed ==
    /\ wantsPause' = ~isPaused
    /\ IF isPaused
       THEN ResumeFeed
       ELSE PauseFeed /\ pausedByDetail' = FALSE /\ UNCHANGED loading
    /\ UNCHANGED <<newest, form, filter, list, selectedID, history>>

(* selectFlow opens the drawer of another flow.                            *)
MutPausedBySelect == TRUE
PausedBySelect    == IF isPaused THEN pausedByDetail ELSE TRUE

SelectFlow ==
    /\ selectedID' \in rows \ {selectedID}
    /\ pausedByDetail' = PausedBySelect
    /\ IF isPaused THEN UNCHANGED <<isPaused, live>> ELSE PauseFeed
    /\ UNCHANGED <<newest, form, filter, list, loading, wantsPause, history>>

(* dismissDetail, by the drawer's button or by its row.                    *)
DismissDetail ==
    /\ selectedID # None
    /\ selectedID' = None
    /\ IF isPaused /\ pausedByDetail
       THEN ResumeFeed
       ELSE UNCHANGED <<loading, live, isPaused, pausedByDetail>>
    /\ UNCHANGED <<newest, form, filter, list, wantsPause, history>>

(* The selected row's session is collapsed: rebuildFlowOrder closes the    *)
(* drawer, and the feed stays as it is.                                    *)
Collapse ==
    /\ selectedID # None
    /\ selectedID' = None
    /\ UNCHANGED <<newest, form, filter, list, loading, live, pause, history>>
-----------------------------------------------------------------------------
(* A flow is stored; each subscribed stream it matches is told or skipped. *)
Store ==
    /\ newest < MaxFlows
    /\ newest' = newest + 1
    /\ \E told \in SUBSET {s \in 1..MaxStreams :
              streams[s] # None /\ streams[s].subscribed
              /\ newest' \in Matching[streams[s].params]} :
           streams' = [s \in 1..MaxStreams |->
               IF s \in told THEN [streams[s] EXCEPT !.pending = @ \cup {newest'}]
               ELSE streams[s]]
    /\ UNCHANGED <<form, filter, list, loading, events, pause, selectedID,
                   history>>

(* GET /api/v1/events reaches the server, or the connection breaks and the *)
(* browser connects again.                                                 *)
Subscription(s) ==
    /\ streams[s] # None
    /\ streams' = [streams EXCEPT ![s].subscribed = ~@, ![s].pending = {}]
    /\ UNCHANGED <<newest, form, filter, list, loading, events, pause,
                   selectedID, history>>

(* GET /api/v1/events is answered with an error: the filter is too long    *)
(* (400), the credentials are no longer right (401), or no stream is to be *)
(* had (500).  The browser closes the source for good, and onerror, which  *)
(* shows "Reconnecting", does not open another.                            *)
RefuseEvents(s) ==
    /\ streams[s] # None /\ ~streams[s].subscribed
    /\ streams' = [streams EXCEPT ![s] = None]
    /\ events' = IF events = s THEN Refused ELSE events
    /\ UNCHANGED <<newest, form, filter, list, loading, pause, selectedID,
                   history>>

(* The listener of a stream, of whichever is open.                         *)
FlowEvent(s) ==
    /\ streams[s] # None
    /\ \E i \in streams[s].pending :
           /\ streams' = [streams EXCEPT ![s].pending = @ \ {i}]
           /\ rows' = Evict(rows \cup {i})
           /\ disturbed' = (disturbed \/ rows' # rows \cup {i})
    /\ UNCHANGED <<newest, form, filter, nextBeforeID, hasMore, loading, events,
                   pause, selectedID, promised>>

Next ==
    \/ Edit \/ ApplyFilters \/ LoadOlder \/ Answer \/ Receive \/ FailLoad
    \/ ToggleFeed \/ SelectFlow \/ DismissDetail \/ Collapse \/ Store
    \/ \E s \in 1..MaxStreams :
           Subscription(s) \/ RefuseEvents(s) \/ FlowEvent(s)

Spec == Init /\ [][Next]_vars
-----------------------------------------------------------------------------
(* Every variable has its type; the list is never longer than MAX_ROWS     *)
(* (app.js:207-217); events refers to one of the streams unless it was     *)
(* closed or refused.                                                      *)
TypeOK ==
    /\ newest \in 0..MaxFlows
    /\ form \in Filters /\ filter \in Filters
    /\ rows \subseteq Ids /\ Cardinality(rows) <= MaxRows
    /\ nextBeforeID \in 0..MaxFlows /\ hasMore \in BOOLEAN
    /\ loading \in Request \cup {None}
    /\ streams \in [1..MaxStreams -> Stream \cup {None}]
    /\ events \in 0..MaxStreams \cup {None}
    /\ events \in 1..MaxStreams => streams[events] # None
    /\ {isPaused, pausedByDetail, wantsPause, disturbed} \subseteq BOOLEAN
    /\ selectedID \in Ids \cup {None}
    /\ promised \in 0..MaxFlows

(* The flow under inspection stays in the list, however many rows arrive   *)
(* and are evicted while its drawer is open (app.js:212).                  *)
SelectedKept ==
    /\ TypeOK
    /\ selectedID # None => selectedID \in rows

(* DESIGN.md:356: a pause the operator requested survives opening and      *)
(* closing drawers, in any order with answers and resumes under way.       *)
ExplicitPauseSurvives == wantsPause => isPaused

(* A feed that is not paused has an event source that is connecting or     *)
(* connected, or resumeFeed is still waiting for its page and will open    *)
(* one, also when that request was overtaken, started by somebody else, or *)
(* fails (app.js:875-886).  Only a source that the server has refused      *)
(* leaves it without: nothing opens another until the filters are applied  *)
(* or the feed is paused and resumed (app.js:848-850).                     *)
LiveWhenRunning ==
    \/ isPaused
    \/ events # None /\ events # Refused /\ streams[events] # None
    \/ loading # None /\ loading.resume
    \/ events = Refused

(* "End of retained history." is true of a list that was read with the     *)
(* active filter and lost no rows to MAX_ROWS: it has every matching flow  *)
(* stored when it was last read from its top (app.js:812-814, 322).        *)
EndIsComplete ==
    ~hasMore /\ loading = None /\ ~disturbed =>
        {i \in 1..promised : i \in Matching[filter]} \subseteq rows

(* DESIGN.md:361-362: new rows appear only when they match the active      *)
(* filters.                                                                *)
RowsMatchFilter ==
    [][\A i \in rows' \ rows : i \in Matching[filter']]_vars
=============================================================================
