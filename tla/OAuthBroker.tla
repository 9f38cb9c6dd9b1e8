----------------------------- MODULE OAuthBroker -----------------------------
(***************************************************************************)
(* The OAuth token broker of internal/oauth/broker.go: token responses are *)
(* virtualised by ObserveTokenResponse, the real tokens are kept in memory *)
(* (records, virtual) and in an auth file (disk), and the placeholders     *)
(* handed to the sandbox are exchanged for real tokens by Apply,           *)
(* SubstituteQuery and SubstituteBody.                                     *)
(*                                                                         *)
(* Concurrency follows the code: records and virtual change in one critical *)
(* section of b.mu (Install); the file is written under stateMu from a      *)
(* snapshot taken inside it (LockState, TakeSnapshot, ReplaceFile or       *)
(* FailWrite); the response leaves only afterwards (Deliver).  Every value *)
(* of a request is substituted under a read lock of its own, so a rotation *)
(* may fall between two values of one request.                             *)
(*                                                                         *)
(* A token is named by the number of the grant that carried it, and a      *)
(* placeholder by the kind and the grant it was generated for: generated   *)
(* placeholders are 24 random bytes and never collide.  0 is Go's "".      *)
(***************************************************************************)
EXTENDS Integers, FiniteSets

CONSTANTS
    Keys,        \* the (broker, client) pairs of the policy; a records key
    Clients,     \* authenticated sandbox clients
    Hosts,       \* upstream hosts
    ClientOf,    \* the client of a key
    IssuerOf,    \* the issuer_host of a key's broker
    ApiHostsOf,  \* the api_hosts of a key's broker
    Handlers,    \* goroutines that mediate token responses
    Requests,    \* goroutines that mediate requests carrying placeholders
    NoHandler,   \* stateMu is free
    NoResponse,  \* the handler has no response in hand
    NoRef,       \* the placeholder is not in b.virtual
    MaxGrants,   \* bound: token responses the issuers produce
    MaxCrashes   \* bound: process crashes

ASSUME PolicyAssumption ==
    /\ Clients # {} /\ Hosts # {}
    /\ ClientOf \in [Keys -> Clients]
    /\ IssuerOf \in [Keys -> Hosts]
    /\ ApiHostsOf \in [Keys -> SUBSET Hosts]

ASSUME BoundAssumption ==
    /\ MaxGrants \in Nat
    /\ MaxCrashes \in Nat

ASSUME NoneAssumption ==
    /\ NoHandler \notin Handlers
    /\ NoResponse \notin
         [key: Keys, grant: 1..MaxGrants, refresh: {"absent", "empty", "new"}]
    /\ NoRef \notin [key: Keys, kind: {"access", "refresh"}]

VARIABLES
    up,         \* the process is running
    crashes,    \* crashes so far
    issued,     \* grants issued by the upstream issuers so far
    clock,      \* installs so far; the time behind UpdatedAt
    records,    \* b.records
    virtual,    \* b.virtual
    disk,       \* contents of the auth file
    stateMu,    \* holder of b.stateMu
    pc,         \* where each handler is in ObserveTokenResponse
    response,   \* the parsed token response of each handler
    installed,  \* the record each handler installed
    snapshot,   \* the state a handler is writing
    delivered,  \* history: the virtualised responses the sandbox received
    retired,    \* history: refresh tokens replaced or revoked by a response
    req         \* the requests being substituted

memory   == <<records, virtual, clock>>
handlers == <<pc, response, installed, snapshot>>
history  == <<delivered, retired>>
vars == <<up, crashes, issued, clock, records, virtual, disk, stateMu, pc,
          response, installed, snapshot, delivered, retired, req>>
-----------------------------------------------------------------------------
Kinds        == {"access", "refresh"}
Grants       == 1..MaxGrants
Placeholders == [kind: Kinds, grant: Grants]
Ref          == [key: Keys, kind: Kinds]
Response     == [key: Keys, grant: Grants, refresh: {"absent", "empty", "new"}]

(* A tokenRecord; NoRecord is its zero value, what a map read of a missing *)
(* key returns.                                                            *)
Record   == [access: 0..MaxGrants, accessPh: 0..MaxGrants,
             refresh: 0..MaxGrants, refreshPh: 0..MaxGrants,
             updated: Nat]
NoRecord == [access |-> 0, accessPh |-> 0, refresh |-> 0, refreshPh |-> 0,
             updated |-> 0]
File     == [Keys -> Record]
NoFile   == [k \in Keys |-> NoRecord]

Delivery == [key: Keys, rec: Record]

(* One substituted credential: the placeholder and the token put in its    *)
(* place.                                                                  *)
Substitution == [ph: Placeholders, key: Keys, kind: Kinds, token: Grants]
Phases  == {"idle", "substituting", "forwarded", "refused"}
Request == [phase: Phases, client: Clients, host: Hosts, secure: BOOLEAN,
            site: {"credential", "body"}, todo: SUBSET Placeholders,
            out: SUBSET Substitution]
NoRequest ==
    [phase |-> "idle", client |-> CHOOSE c \in Clients : TRUE,
     host |-> CHOOSE h \in Hosts : TRUE, secure |-> TRUE,
     site |-> "credential", todo |-> {}, out |-> {}]

(* The placeholders a record puts in b.virtual.                            *)
Holds(rec, p) ==
    p.grant = (IF p.kind = "access" THEN rec.accessPh ELSE rec.refreshPh)

(* b.virtual as loadState builds it from a file.                           *)
IndexOf(file) ==
    [p \in Placeholders |->
        IF \E k \in Keys : Holds(file[k], p)
        THEN [key |-> CHOOSE k \in Keys : Holds(file[k], p), kind |-> p.kind]
        ELSE NoRef]
-----------------------------------------------------------------------------
(* Init is a process start with no auth file.                              *)
Init ==
    /\ up = TRUE
    /\ crashes = 0
    /\ issued = 0
    /\ clock = 0
    /\ records = NoFile
    /\ virtual = IndexOf(NoFile)
    /\ disk = NoFile
    /\ stateMu = NoHandler
    /\ pc = [h \in Handlers |-> "idle"]
    /\ response = [h \in Handlers |-> NoResponse]
    /\ installed = [h \in Handlers |-> NoRecord]
    /\ snapshot = [h \in Handlers |-> NoFile]
    /\ delivered = {}
    /\ retired = {}
    /\ req = [r \in Requests |-> NoRequest]

(* An issuer answers a token request with a new grant; refresh_token is    *)
(* missing or null, the empty string, or a new token.  Responses that do   *)
(* not match a definition, or do not parse, change nothing and are left    *)
(* out.                                                                    *)
Receive(h, k, refresh) ==
    /\ up
    /\ pc[h] = "idle"
    /\ issued < MaxGrants
    /\ issued' = issued + 1
    /\ response' = [response EXCEPT ![h] =
                        [key |-> k, grant |-> issued + 1, refresh |-> refresh]]
    /\ pc' = [pc EXCEPT ![h] = "received"]
    /\ UNCHANGED <<up, crashes, memory, disk, stateMu, installed, snapshot,
                   history, req>>

(* The refresh token and placeholder of the new record: a response that    *)
(* omits refresh_token keeps the old pair.                                 *)
MutKeepsNoRefresh(old, resp) == FALSE
KeepsRefresh(old, resp) ==
    resp.refresh = "absent" /\ old.refresh # 0 /\ old.refreshPh # 0

MutNextRefreshDropped(old, resp) ==
    IF resp.refresh = "new" THEN resp.grant ELSE 0
NextRefresh(old, resp) ==
    IF KeepsRefresh(old, resp) THEN old.refresh
    ELSE IF resp.refresh = "new" THEN resp.grant ELSE 0

MutNextRefreshPhSticky(old, resp) ==
    IF old.refreshPh # 0 THEN old.refreshPh
    ELSE IF resp.refresh = "new" THEN resp.grant ELSE 0
NextRefreshPh(old, resp) ==
    IF KeepsRefresh(old, resp) THEN old.refreshPh
    ELSE IF resp.refresh = "new" THEN resp.grant ELSE 0

NextRecord(old, resp) ==
    [access |-> resp.grant, accessPh |-> resp.grant,
     refresh |-> NextRefresh(old, resp), refreshPh |-> NextRefreshPh(old, resp),
     updated |-> clock + 1]

(* The update of b.virtual: the old placeholders are deleted, then the new *)
(* ones are inserted.                                                      *)
MutReindexKeepsOld(k, old, new) ==
    [p \in Placeholders |->
        IF Holds(new, p) THEN [key |-> k, kind |-> p.kind] ELSE virtual[p]]
Reindex(k, old, new) ==
    [p \in Placeholders |->
        IF Holds(new, p) THEN [key |-> k, kind |-> p.kind]
        ELSE IF Holds(old, p) THEN NoRef
        ELSE virtual[p]]

(* The critical section of b.mu in ObserveTokenResponse.                   *)
Install(h) ==
    /\ pc[h] = "received"
    /\ LET k   == response[h].key
           old == records[k]
           new == NextRecord(old, response[h])
       IN  /\ records' = [records EXCEPT ![k] = new]
           /\ virtual' = Reindex(k, old, new)
           /\ installed' = [installed EXCEPT ![h] = new]
           /\ retired' = IF response[h].refresh # "absent"
                         THEN retired \cup ({old.refresh} \ {0}) ELSE retired
    /\ clock' = clock + 1
    /\ pc' = [pc EXCEPT ![h] = "installed"]
    /\ UNCHANGED <<up, crashes, issued, disk, stateMu, response, snapshot,
                   delivered, req>>

(* writeState: stateMu is taken first, the snapshot inside it, and a       *)
(* deferred unlock releases it on every return.                            *)
MutStateMuAbsent == TRUE
StateMuFree      == stateMu = NoHandler
MutStateMuKept   == UNCHANGED stateMu
ReleaseStateMu   == stateMu' = NoHandler

LockState(h) ==
    /\ pc[h] = "installed"
    /\ StateMuFree
    /\ stateMu' = h
    /\ pc' = [pc EXCEPT ![h] = "locked"]
    /\ UNCHANGED <<up, crashes, issued, memory, disk, response, installed,
                   snapshot, history, req>>

TakeSnapshot(h) ==
    /\ pc[h] = "locked"
    /\ snapshot' = [snapshot EXCEPT ![h] = records]
    /\ pc' = [pc EXCEPT ![h] = "writing"]
    /\ UNCHANGED <<up, crashes, issued, memory, disk, stateMu, response,
                   installed, history, req>>

(* The temporary file is complete and synced; the rename replaces the auth *)
(* file atomically and writeState returns nil.                             *)
ReplaceFile(h) ==
    /\ pc[h] = "writing"
    /\ disk' = snapshot[h]
    /\ snapshot' = [snapshot EXCEPT ![h] = NoFile]
    /\ ReleaseStateMu
    /\ pc' = [pc EXCEPT ![h] = "written"]
    /\ UNCHANGED <<up, crashes, issued, memory, response, installed, history,
                   req>>

(* The handler returns from ObserveTokenResponse and from mediateResponse. *)
Finish(h) ==
    /\ response' = [response EXCEPT ![h] = NoResponse]
    /\ installed' = [installed EXCEPT ![h] = NoRecord]
    /\ pc' = [pc EXCEPT ![h] = "idle"]
    /\ UNCHANGED <<up, crashes, issued, memory, disk, retired, req>>

(* Any step of writeState before the rename fails: the temporary file is   *)
(* removed, the sandbox gets a 502 and the installed record stays.         *)
FailWrite(h) ==
    /\ pc[h] = "writing"
    /\ snapshot' = [snapshot EXCEPT ![h] = NoFile]
    /\ ReleaseStateMu
    /\ Finish(h)
    /\ UNCHANGED delivered

(* The virtualised response reaches the sandbox, or is lost on the way: a  *)
(* later step of mediateResponse fails, or the sandbox hung up.            *)
MutPersisted(h)    == pc[h] \in {"installed", "written"}
Persisted(h)       == pc[h] = "written"

Deliver(h) ==
    /\ Persisted(h)
    /\ delivered' = delivered \cup
           {[key |-> response[h].key, rec |-> installed[h]]}
    /\ Finish(h)
    /\ UNCHANGED <<stateMu, snapshot>>

Lose(h) ==
    /\ Persisted(h)
    /\ Finish(h)
    /\ UNCHANGED <<stateMu, snapshot, delivered>>
-----------------------------------------------------------------------------
(* The process dies: memory and every goroutine are gone, the auth file    *)
(* stays as the last rename left it.                                       *)
Crash ==
    /\ up
    /\ crashes < MaxCrashes
    /\ up' = FALSE
    /\ crashes' = crashes + 1
    /\ records' = NoFile
    /\ virtual' = IndexOf(NoFile)
    /\ stateMu' = NoHandler
    /\ pc' = [h \in Handlers |-> "idle"]
    /\ response' = [h \in Handlers |-> NoResponse]
    /\ installed' = [h \in Handlers |-> NoRecord]
    /\ snapshot' = [h \in Handlers |-> NoFile]
    /\ req' = [r \in Requests |-> NoRequest]
    /\ UNCHANGED <<issued, clock, disk, history>>

(* The checks loadState makes of every token of the file: New fails, and   *)
(* with it the start of the daemon, when one of them does not hold.        *)
Loadable(file) ==
    /\ \A k \in Keys : file[k] # NoRecord =>
           /\ file[k].access # 0 /\ file[k].accessPh # 0
           /\ file[k].refreshPh # 0 => file[k].refresh # 0
    /\ \A p \in Placeholders, j, k \in Keys :
           Holds(file[j], p) /\ Holds(file[k], p) => j = k

Restart ==
    /\ ~up
    /\ Loadable(disk)
    /\ up' = TRUE
    /\ records' = disk
    /\ virtual' = IndexOf(disk)
    /\ UNCHANGED <<crashes, issued, clock, disk, stateMu, handlers, history,
                   req>>
-----------------------------------------------------------------------------
(* A request with one or two placeholder-shaped values, each in a          *)
(* credential site (header or query value) or in a body.  The sandbox may  *)
(* send any placeholder it or another sandbox was ever given.              *)
NewRequests ==
    {q \in [phase: {"substituting"}, client: Clients, host: Hosts,
            secure: BOOLEAN, site: {"credential", "body"},
            todo: {{p1, p2} : p1, p2 \in Placeholders}, out: {{}}] :
        \A p \in q.todo : p.grant <= issued}

BeginRequest(r) ==
    /\ up
    /\ req[r].phase = "idle"
    /\ \E q \in NewRequests : req' = [req EXCEPT ![r] = q]
    /\ UNCHANGED <<up, crashes, issued, memory, disk, stateMu, handlers,
                   history>>

(* tokenHostAllowed.                                                       *)
HostAllowed(ref, host) ==
    IF ref.kind = "refresh" THEN host = IssuerOf[ref.key]
                            ELSE host \in ApiHostsOf[ref.key]
IsIssuerHost(host) == \E k \in Keys : IssuerOf[k] = host

(* What replaceRequestValue puts in place of a live placeholder.           *)
MutTokenOfAccessOnly(ref) == records[ref.key].access
TokenOf(ref) ==
    IF ref.kind = "refresh" THEN records[ref.key].refresh
                            ELSE records[ref.key].access

MutAuthorizedAnyClient(q, ref) ==
    /\ q.secure
    /\ HostAllowed(ref, q.host)
    /\ TokenOf(ref) # 0
Authorized(q, ref) ==
    /\ q.secure
    /\ ClientOf[ref.key] = q.client
    /\ HostAllowed(ref, q.host)
    /\ TokenOf(ref) # 0

(* A value replaceRequestValue leaves alone: a body bound for a host that  *)
(* issues no tokens, or a body text that is not a live placeholder.        *)
Inert(q, p) ==
    q.site = "body" /\ (~IsIssuerHost(q.host) \/ virtual[p] = NoRef)

(* One value, under one read lock of b.mu.                                 *)
SubstituteValue(r) ==
    /\ req[r].phase = "substituting"
    /\ \E p \in req[r].todo :
          /\ \/ Inert(req[r], p) /\ req' = [req EXCEPT ![r].todo = @ \ {p}]
             \/ /\ ~Inert(req[r], p)
                /\ virtual[p] # NoRef
                /\ Authorized(req[r], virtual[p])
                /\ req' = [req EXCEPT
                      ![r].todo = @ \ {p},
                      ![r].out = @ \cup {[ph |-> p, key |-> virtual[p].key,
                                          kind |-> virtual[p].kind,
                                          token |-> TokenOf(virtual[p])]}]
    /\ UNCHANGED <<up, crashes, issued, memory, disk, stateMu, handlers,
                   history>>

(* A credential that resolves to no live token, is used outside its scope, *)
(* or, for an access token, is past AccessExpiresAt (the clock may have    *)
(* reached it at any time).  The whole request fails.                      *)
RefuseRequest(r) ==
    /\ req[r].phase = "substituting"
    /\ \E p \in req[r].todo :
          /\ ~Inert(req[r], p)
          /\ virtual[p] # NoRef /\ Authorized(req[r], virtual[p])
                => virtual[p].kind = "access"
    /\ req' = [req EXCEPT ![r].phase = "refused", ![r].todo = {},
                          ![r].out = {}]
    /\ UNCHANGED <<up, crashes, issued, memory, disk, stateMu, handlers,
                   history>>

Forward(r) ==
    /\ req[r].phase = "substituting"
    /\ req[r].todo = {}
    /\ req' = [req EXCEPT ![r].phase = "forwarded"]
    /\ UNCHANGED <<up, crashes, issued, memory, disk, stateMu, handlers,
                   history>>

EndRequest(r) ==
    /\ req[r].phase \in {"forwarded", "refused"}
    /\ req' = [req EXCEPT ![r] = NoRequest]
    /\ UNCHANGED <<up, crashes, issued, memory, disk, stateMu, handlers,
                   history>>
-----------------------------------------------------------------------------
HandlerStep(h) ==
    \/ Install(h) \/ LockState(h) \/ TakeSnapshot(h)
    \/ ReplaceFile(h) \/ FailWrite(h) \/ Deliver(h) \/ Lose(h)

RequestStep(r) ==
    \/ BeginRequest(r) \/ SubstituteValue(r) \/ RefuseRequest(r)
    \/ Forward(r) \/ EndRequest(r)

Next ==
    \/ \E h \in Handlers, k \in Keys, refresh \in {"absent", "empty", "new"} :
          Receive(h, k, refresh)
    \/ \E h \in Handlers : HandlerStep(h)
    \/ \E r \in Requests : RequestStep(r)
    \/ Crash
    \/ Restart

(* Go schedules every runnable goroutine, and sync.Mutex hands a waiter    *)
(* the lock in starvation mode.  Nothing makes an issuer answer, a request *)
(* start, or an operator restart the process.                              *)
Fairness ==
    \A h \in Handlers :
        /\ WF_vars(Install(h))
        /\ SF_vars(LockState(h))
        /\ WF_vars(TakeSnapshot(h))
        /\ WF_vars(ReplaceFile(h) \/ FailWrite(h))
        /\ WF_vars(Deliver(h) \/ Lose(h))

Spec     == Init /\ [][Next]_vars
FairSpec == Spec /\ Fairness
-----------------------------------------------------------------------------
(* Every variable has its type, and at most one handler is inside the      *)
(* critical section of stateMu.                                            *)
TypeOK ==
    /\ up \in BOOLEAN
    /\ crashes \in 0..MaxCrashes
    /\ issued \in 0..MaxGrants
    /\ clock \in Nat
    /\ records \in File
    /\ virtual \in [Placeholders -> Ref \cup {NoRef}]
    /\ disk \in File
    /\ stateMu \in Handlers \cup {NoHandler}
    /\ pc \in [Handlers -> {"idle", "received", "installed", "locked",
                            "writing", "written"}]
    /\ \A h \in Handlers : stateMu = h <=> pc[h] \in {"locked", "writing"}
    /\ response \in [Handlers -> Response \cup {NoResponse}]
    /\ installed \in [Handlers -> Record]
    /\ snapshot \in [Handlers -> File]
    /\ delivered \subseteq Delivery
    /\ retired \subseteq Grants
    /\ req \in [Requests -> Request]

(* broker.go:294-304 keeps b.virtual up to date by deleting and inserting  *)
(* placeholders, loadState builds it anew: the two agree after any         *)
(* sequence of rotations, crashes and restarts, so no placeholder of a     *)
(* replaced record stays live and none of a current record is lost.        *)
IndexConsistent == virtual = IndexOf(records)

(* The token a live placeholder resolves to is the one it was generated    *)
(* for, in memory and in the file: broker.go:276-290 may carry an old      *)
(* refresh token over to a new record, but only together with its          *)
(* placeholder.                                                            *)
PlaceholderFaithful ==
    \A k \in Keys : \A rec \in {records[k], disk[k]} :
        rec.accessPh = rec.access /\ rec.refreshPh = rec.refresh

(* No two handlers hold stateMu (broker.go:725), so a rotation never       *)
(* replaces the file by an older snapshot of any key: the comment at       *)
(* broker.go:721-723.                                                      *)
DiskNeverOlder == [][\A k \in Keys : disk'[k].updated >= disk[k].updated]_vars

(* A placeholder the sandbox received is live, in memory and in the file a *)
(* restart would load, unless a later response for its key was installed:  *)
(* writeState runs before the response leaves (broker.go:306-308), and     *)
(* neither a crash nor a failed write of another handler undoes it.        *)
DeliveredStaysLive ==
    \A d \in delivered :
        /\ disk[d.key] = d.rec \/ disk[d.key].updated > d.rec.updated
        /\ up => \/ records[d.key] = d.rec
                 \/ records[d.key].updated > d.rec.updated

(* README.md:627-628: a delivered refresh placeholder survives every later *)
(* response that omits refresh_token, also across restarts; only a response *)
(* with a refresh_token of its own ends it.                                *)
RefreshPreserved ==
    \A d \in delivered : d.rec.refresh # 0 =>
        \/ d.rec.refresh \in retired
        \/ /\ disk[d.key].refresh = d.rec.refresh
           /\ up => virtual[[kind |-> "refresh", grant |-> d.rec.refreshPh]]
                        = [key |-> d.key, kind |-> "refresh"]

(* The daemon can always start from the file it wrote: no interleaving of  *)
(* rotations leaves a state loadState (broker.go:699-716) rejects.         *)
FileLoadable == Loadable(disk)

(* A forwarded request carries, for each placeholder, the token that was   *)
(* issued with it, of the request's own client, even when rotations fall   *)
(* between its values (one read lock per value, broker.go:391).            *)
SubstitutionFaithful ==
    \A r \in Requests : \A s \in req[r].out :
        /\ s.token = s.ph.grant /\ s.kind = s.ph.kind
        /\ ClientOf[s.key] = req[r].client

(* No token response waits for ever: stateMu is released on every path out *)
(* of writeState (broker.go:724-725), also when the write fails.           *)
ResponseCompletes ==
    \A h \in Handlers : pc[h] = "received" ~> pc[h] = "idle"
=============================================================================
