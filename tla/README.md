# Veilgate in TLA+

Veilgate (`veilgated`) is an egress gateway for agent sandboxes: an HTTPS
forward proxy that authenticates its clients, allows or refuses destinations,
terminates TLS where it may, exchanges placeholders for secrets and OAuth
tokens, and records every flow for a console. This directory holds its
specifications: the modules, the TLC configurations that check them on small
instances, and theorems about them that TLAPS checks for every instance.
All paths below are relative to the repository; `proxy/` stands for
`internal/proxy/`, and so on.

## The system

The process is one Go binary. `cmd/veilgated/main.go` reads the environment,
builds one `proxy.Handler`, one flow store, one secret broker, one OAuth broker
and one interception authority, and serves the proxy and the console from two
HTTP servers. Everything after that is goroutines that share those objects:
one per client connection, one per HTTP/2 stream, two per tunnel or WebSocket,
the recorder's workers, and the reload loop.

### Inventory

| Component | State | Operations | Talks to |
|---|---|---|---|
| OAuth token broker, `oauth/broker.go` | `records`, `virtual` under `mu`; the auth file under `stateMu` | `ObserveTokenResponse`, `Apply`, `SubstituteQuery`, `SubstituteBody`, `Scrub`, `Sanitize`, `loadState`, `writeState` | mediation of requests and responses (`proxy/capture.go`), the file system |
| Flow recorder, `proxy/proxy.go`, `proxy/transport.go` | queue, workers, `recordClosed`, drop count, submit and worker wait groups | `recordFlow`, `recordFlowJob`, the first half of `Close` | every request's goroutine, flow store, audit sink |
| Upstream transport pool, `proxy/transport.go` | `transports`, `drainingTransports`, `transportClosed`, per transport `active`, `lastUsed`, `draining` | acquire, release, evict, the second half of `Close` | `roundTrip`, `net/http.Transport` |
| Admission, `proxy/proxy.go`, `proxy/http2.go`, `proxy/inspect.go` | the running policy (an atomic pointer); per session the client's entry and host | authentication, destination check, handling, request rules, CONNECT, interception, plain HTTP | configuration, resolver, brokers |
| Policy reload, `cmd/veilgated/main.go` | a signal channel of capacity one | read, validate and install the policy on `SIGHUP` | the policy file, `Handler.SetPolicy` |
| Client policy, `config/`, `hostpattern/` | none after loading | parsing, validation, host and rule matching | admission |
| Flow store, `flow/store.go` | SQLite table or memory ring, subscribers | `Add`, `ListPage`, `Get`, `Subscribe`, retention | recorder, console |
| Interception authority, `intercept/authority.go` | CA and proxy certificate files; leaf certificates by host, under one mutex | `Generate`, `GenerateProxyCertificate`, `Load`; `TLSConfig`, `certificateFor` | the file system, every intercepted CONNECT |
| Process, `cmd/veilgated/main.go` | what `runServe` has opened, its deferred calls | start, serve, signals, graceful stop, exit | all of the above |
| WebSocket relay, `proxy/websocket.go` | per direction fragmentation, capture, close | `relay`, `read`, `write` in two goroutines | brokers, recorder |
| Static secret broker, `secret/` | none after loading | `Apply`, substitution, `Scrub`, `Sanitize` | mediation |
| Streaming responses, `proxy/streaming.go` | the record being read, the capture so far | scrub and flush record by record | mediation |
| Destination resolver, `proxy/destination.go` | none | resolve a host, refuse addresses that are not public | admission |
| Console API, `console/console.go` | event streams | pages of flows, server-sent events | flow store |
| Console page, `console/static/app.js` | loaded rows, filters, the event source, pause | load, filter, pause, resume, select | console API |
| Message capture, `proxy/capture.go`, `proxy/compression.go` | none | the order of mediation, decoding, redaction, truncation | all of the above |
| Audit events, `audit/` | none | a record type | recorder |

What makes each correct, and where it is hard:

* **OAuth broker.** A placeholder stands for one token of one client and is
  usable from the moment the sandbox has it until a later response replaces
  it. Token responses run in parallel; memory is updated in one critical
  section, the file in another, the response leaves after both, any of the
  file operations may fail, and the process may die between any two of them.
* **Flow recorder.** Serving never waits for the store. No flow is lost
  uncounted or stored twice. Shutdown closes a channel on which goroutines may
  still be sending, races with timers, and is bounded in time when the store
  hangs.
* **Transport pool.** Its use counts and its list of draining transports
  decide when connections are closed; evictions, releases and `Close` reach
  the same transport from different critical sections, while connections
  become idle on their own, those of HTTP/2 even after the last use has ended.
* **Admission and reload.** Sessions outlive the policy they were opened
  under; a request may see a reload between two of its checks. Seven sources
  select the handling of a host, with a precedence that the documentation
  states as guarantees.
* **Flow store.** Pages are read while flows are inserted and trimmed, and a
  session's CONNECT is stored after its requests.
* **Interception authority.** A leaf must not be served near its expiry nor
  before its validity begins, also when the wall clock is stepped, and the
  cache is bounded. Certificate and key are two files, written and read one
  after the other by commands and a daemon that may fail or be killed between.
* **Process.** `runServe` may fail at each of its stages, hijacked connections
  outlive the servers, and its deferred calls close the recorder, the store
  and the audit sink underneath them.
* **WebSocket relay.** Two goroutines end at different times, fragments and
  control frames interleave, and capture is bounded.
* **Console page.** Requests and events arrive in any order around a change
  of filters, a pause and a resume.
* **Mediation.** No credential comes back to the sandbox or into the console.
  Substitution, scrubbing and capture of one exchange take place under
  separate locks while tokens rotate, with three different scopes; values
  overlap, appear encoded or masked, and are cut by read buffers, records and
  limits.
* **Resolver, policy.** Pure functions, hard at their boundaries.

`PROJECT.json` lists the hazards of the code one by one, each at its line, with
the properties that watch it.

## The modules

| Module | Models | Runs |
|---|---|---|
| `OAuthBroker` | the token broker with its auth file, crashes and restarts | `oauth_rotation`, and inside `mediation` |
| `Mediation` | EXTENDS `OAuthBroker`: whole exchanges over both brokers, with streaming and capture | `mediation` |
| `Mediation_proofs` | theorems about both: the token broker's type correctness and safety; what scrubbing does to a text; that no credential returns or is captured | |
| `FlowRecorder` | the recorder with its queue, workers and shutdown | inside `daemon` |
| `Daemon` | EXTENDS `FlowRecorder`: the process from start to exit | `daemon` |
| `Daemon_proofs` | theorems about both, and that `FlowRecorder` implements `FlowSink` | |
| `CertAuthority` | CA files and commands, the daemon's load, the leaf cache | `cert_authority` |
| `CertAuthority_proofs` | theorems about it: files, leaves | |
| `FlowSink` | what the recorder promises | (property of `daemon`) |
| `TransportPool` | the upstream transport pool | `pool_drain` |
| `TransportPool_proofs` | theorems about it: accounts, leaks | |
| `Gateway` | admission, sessions and the policy reload | `gateway_reload`, `no_ca` |
| `Gateway_proofs` | theorems about it: types, admission, handling, reload | |
| `FlowStore` | the flow store: retention, paging, subscribers, restarts | `flow_store`, `store_parents` |
| `FlowStore_proofs` | theorems about it: retention, pages | |
| `WebSocketRelay` | one intercepted WebSocket with its two relays | `websocket` |
| `WebSocketRelay_proofs` | theorems about it: delivery, mediation, capture, outcome | |
| `ConsoleFeed` | the traffic list of the console page with its requests and event sources | `console_feed`, `console_filters` |
| `ConsoleFeed_proofs` | theorems about it: selection, pauses, the end of the list | |
| `MC...` | model values of the runs | |

Operators whose name begins with `Mut` are plausible mistakes in the code. Each
stands directly before the definition it would replace; no specification uses
one. Every checked property is broken by at least one of them
(`PROJECT.json`, `mutants`).

### OAuthBroker

`records`, `virtual` and `disk` are the maps of the broker and the contents of
the auth file. A token is the number of the grant that carried it, a
placeholder the kind and grant it was generated for: generated placeholders are
24 random bytes and taken as distinct. `updated` orders installs in place of
wall-clock `UpdatedAt`. `delivered` and `retired` are history: what the sandbox
was sent, and the refresh tokens a response replaced.

A handler goes through `ObserveTokenResponse` in the steps the locks cut it
into: `Receive` (parse), `Install` (critical section of `mu`), `LockState`
(`stateMu`), `TakeSnapshot` (read lock of `mu`), `ReplaceFile` (temporary file,
sync, rename) or `FailWrite` (any of the nine error returns), then `Deliver`
or `Lose` (a later step of `mediateResponse` fails or the client hung up).
The rename is atomic; a crash leaves the old file or the new one. Loss of the
directory entry at power failure is not modelled (the code does not sync the
directory).

A request is substituted value by value (`SubstituteValue`), each under a read
lock of its own; `RefuseRequest` has the error returns of
`replaceRequestValue`, with the expiry of access tokens as a choice because the
clock may pass it at any time. JWT-shaped placeholders, which differ in shape
only, are not distinguished. `Scrub` and `Sanitize`, which only read the
broker, are operators of `Mediation`.

### Mediation

One exchange per request goroutine (`ex`), over the state of `OAuthBroker`. A
request carries placeholders of OAuth tokens, substituted by the actions of
that module, and one of a static secret, for which `Treatment` says by its
place what the static broker does: the value, a refusal, or inert text
(`Apply`, `SubstituteQuery`, `SubstituteBody`). The upstream then answers with
any body of `Bodies`, as an SSE stream, as NDJSON or as one body, and completes it,
resets the connection or falls silent. The body may hold any token, also one whose
response the broker has received and not yet installed, or not even received: an
issuer knows its tokens. A placeholder is different: it is 24 random bytes that the
broker draws, so no record can hold one before its response was installed
(`Seen`). Each record goes through `TakeRecord` (read and scrubbed),
`CaptureRecord` (sanitised under read locks of its own, and cut) and
`WriteRecord`; token responses of other requests may be installed before,
between and after.

The broker knows a token from the critical section of
oauth/broker.go:274-305 until another replaces it. What an issuer echoes of a token before
that, the code neither scrubs nor sanitises, and the token is live
afterwards: the sandbox then has it, and the console shows it. The model has these
behaviours, and `Veiled` and `CaptureSound` say what the code guarantees: a token
that was installed when a record went through `Scrub` or `Sanitize` is not in what
came out. What is secret for other reasons (static secrets, a token the request
itself carried) never comes back.

Text is a sequence of symbols. A static secret is several bytes, because it
must be possible to overlap, contain, cut and mask it; an OAuth token, a
placeholder and a marker are one symbol each, so a token is never split. A rune
of two bytes (`Wide`) is there for the cut of the capture. `Symbols` is the
alphabet; `Plain`, its bytes, masking characters and wide runes, is what values
and their encodings are made of, as a value has no line break
(secret/broker.go:127). `ScanRecord` is
`readStreamingRecord` over `ReadSlice` of a buffer of `BufferSize`, `Longest`
and `MaskedAt` are the trie's scan and `maskedSecretLength` with its caps of 16
visible bytes before the mask and 8 after it (`MaxPrefix`, `MaxSuffix`; what shows
more is no masked rendering to the code), `Rewrite` the
single pass over a text. The redaction of sensitive header values, query and
header capture, and content encodings are left out.

`carried`, `read`, `sent` and `total` are history: the credentials the request
was given, and the bytes read, delivered and offered to the capture. So are
`passed` and `copied`: the tokens that were installed when `Scrub` or `Sanitize`
saw them and that were left in a record or in its capture.

### FlowRecorder and FlowSink

One action per step between two scheduling points of `recordFlow`: the
critical section (`Refuse`, `Submit`), the `select` (`Send`, `Block`, `Drop`),
the timer of a denied record (`DeniedTimeout`), the drop count and the deferred
`Done`. The channel is Go's: a receive from a full channel lets the longest
blocked sender in within the same step (`Take`). `Process` is
`recordFlowJob`; its store call succeeds or fails. `Close` closes the queue
after the submitters are gone and waits for the workers for a limited time; the
module allows several callers, of which the first closes the queue, and the
daemon has one.

`FlowSink` has six fates of a flow and knows neither queue nor worker. The
refinement maps a flow past the `recordClosed` check to "accepted" and "some
`Close` returned nil" to "drained".

### Daemon

`stage` is where `runServe` is: its stages up to "serving", each of which but
the construction of the handler may fail, then "stopping" (a signal or a listen
error has ended `run.Group`), "unwinding" and "exited". `defers` is the stack of
deferred `Close` calls of the resources opened so far. `Shutdown` is
`http.Server.Shutdown` as the code calls it: it returns when no plain request is
left or after ten seconds, and does not wait for `Hijacked` connections, which go
on to submit flows until the process exits. `CloseHandler` is the `Close` of
`FlowRecorder`, by the main goroutine; a store waits for the calls it works on;
after the exit nothing happens. A flow that a worker writes while the store is
closed fails (`Recording`).

`SinksOutlive` excepts a `Close` that gave up after its timeout: the store is then
closed under a worker that hangs in it, as the code accepts.

### CertAuthority

`files` are the four files of the default paths, each absent, whole or not, and
by which command. A command of `target` "ca" is `Generate`, one of "proxy" is
`GenerateProxyCertificate`, which first loads the CA; `Open` and `Write` are the
two halves of `writeExclusive`, `Undo` the removal of the certificate when the
key cannot be written, `Kill` the end of the process at any point. The daemon
starts without a CA if neither file is there (`NoCA`, as `runServe` without the
environment variables), else reads the certificate, then the key
(`DaemonReadsCert`, `DaemonReadsKey`), with commands in between. The initial
files are what an earlier command, finished or killed, may have left.

`cache` is `Authority.cache`; `certificateFor` runs under one mutex, so a call is
one step (`CertificateFor`): a hit, or a new leaf after `Purged` and `Evicted`.
`Connect` is `TLSConfig` and `Handshake` the later `GetCertificate` of that config.
Times are small numbers in proportion to the constants of the code; `clock` is
the wall clock, which also jumps back (`StepBack`) and stands for a host that
slept when it runs on between two steps. `shown` is history: the last leaf a
client was shown. In reality two commands do not share a path with a daemon for
long; that commands begin before the daemon is up is a bound. The removals of what
a command wrote (authority.go:298, 370, 439, 443) are taken to succeed; the code
ignores their errors, and a removal that fails leaves half a pair, as a command
that is killed does.

### TransportPool

`cache`, `active`, `draining`, `drainList`, `lastUsed` and `closed` are the
code's; `idle`, `closeIdle`, `dialing`, `multiplexed` and `ending` are the external
part: whether a `net/http.Transport` holds an idle connection, whether it closes
connections that become idle (`CloseIdleConnections` was called after the last
request), whether a dial is under way that its request no longer needs, whether
the host has negotiated HTTP/2 (transport.go:102, 123), and whether a stream has
ended for its reader but not for its connection. `Acquire`,
`Release` and `Close` are critical sections of `transportMu`; `CloseReleased`
and `CloseTransport` follow after it is released, as in the code. The pool's
limit of the code (64) is `MaxCached`.

The two protocols differ where it matters. An HTTP/1 connection becomes idle before
its reader sees the end of the body, is closed when the body is abandoned, and
is closed when it becomes idle after `CloseIdleConnections`. An HTTP/2
connection outlives its streams, forgets one some time after its reader has seen
the end (`ForgetStream`), and `CloseIdleConnections` passes over it while it has
streams, without remembering to close it later. So the last
`CloseIdleConnections` of a release (transport.go:167) may come too early for it,
and a transport that nobody can reach may keep one until its
`upstreamIdleConnTimeout` (`IdleTimeout`). `NoIdleLeak` states the difference:
over HTTP/1 a transport out of reach has no idle connection and gets none, over
HTTP/2 it has none when it gets out of reach, and nothing but that timeout is
promised for what becomes idle later.

### Gateway

`policy` is the installed policy, `file` what the operator has written,
`hup` the signal channel of capacity one, `loaded` what the reload loop has
read and not yet installed. A CONNECT holds the client entry of the policy it
was admitted under; a request inside a session takes the entry of the policy in
force at its recheck and keeps it through resolution, rules and choice of
mediation (`Recheck`, `Forward`). HTTP/1.1 sessions serve one request at a
time, HTTP/2 sessions any number. `Handling` is `handlingFor`, `RulesPermit`
is `enforceRequestRules` with methods, paths and body sizes abstracted to three
classes of requests: a read, a write, and a read with a method-override header.
A policy is any function from clients to entries; host patterns are expanded to
sets of hosts, and a host stands for a host and port.

`during` is history: the policies in force since a request arrived.

### FlowStore

One variable per field of the two backends: `ring`, `start`, `count` of the
memory ring, `table` and `retained` of SQLite, `lastID` for `nextID` and the
AUTOINCREMENT counter; `backend` says which of them `Open` chose. `Store.Add`
is two steps, because it has two critical sections: the backend assigns the id
(`AddMemory`, `AddSQLite`, or `FailSQLite` for any error before the commit),
then the subscribers are notified (`Publish`). Between the two another worker
may add and notify. `listPage` is two steps as well, one per query
(`ListFlows`, `ListParents`). `Restart` is the end of the process at any point
followed by `openSQLite` with its trim and count. A subscriber's channel is a
sequence of at most `Buffer` flows.

The attributes of a flow are its session and whether it is a CONNECT; filters
are reduced to "all flows" and "requests only", the effect of a mode filter on
a session. Flows outside any session, which have no parent, are left out.
`Queue` is the order in which the proxy records flows: a CONNECT after the
requests of its session, as it is recorded by the deferred function of
`ServeHTTP` (proxy.go:296-298). `got`, `parents` and `promised` of the reader
are history: what it was given, and what was stored when it began.

### WebSocketRelay

`Upgrade` is the handshake of `proxyWebSocket` with all its error returns. After
it each direction has a relay, "up" to the upstream and "down" to the client,
that is reading, inspecting, writing or done (`pc`): between the three it can
block or be overtaken by the other relay. A payload is a sequence of two parts
whose adjacency "a", "b" stands for what the secret broker finds, so that
fragmentation can split it. `mediated` says that a message was changed; on the
way up a placeholder inside a longer JSON string is ordinary content
(README.md:575-577). Out-of-order frames and messages above the limit are
refused; what depends on text (UTF-8, JSON, decompression, growth by
substitution) is a choice. Capture and names are recorded in `Mediate`, before
`Write`. `First` and `Second` are the two receives of `results`,
`CloseOnContext` the watcher of the session's context.

`received`, `delivered` and `refused` are history. `DeliveredFaithful` compares
what was written with the log of frames accepted: the message that a frame ends
(`IsMessage`) is a control frame, or the text in which every part of the data
frames since the first of the message has its place (`Joins`). It knows nothing
of the relay's buffer. Places are counted and nothing is defined by recursion, so
that the property can be proved.

### ConsoleFeed

The page is single-threaded, so each callback of `app.js` is one action, and
what happens between them is the point: `loading` is the one request
`loadPage` allows (with the filter values it was sent with, and whether a
`resumeFeed` awaits it), `streams` are all event sources that are not closed,
`events` the one the variable of that name holds. `form` is what the filter
controls contain and `filter` what was applied; `filterParams` reads the
former. The server answers a page at some point between its request and its
rendering (`Answer`), subscribes an event source some time after it was opened
(`Subscription`, which also breaks the connection) or refuses it with an error
(`RefuseEvents`: 400 for a filter that is too long, 401, 500), and tells a stream of a
flow or skips it (`Store`). A browser closes a refused source for good, and the
page, whose `onerror` only shows "Reconnecting" (app.js:848-850), opens no other
until the filters are applied or the feed is paused and resumed; `events` is then
`Refused`. `LiveWhenRunning` therefore promises a source, one to come, or a
refused one. Retention is left to `FlowStore`; CONNECT parents,
grouping, order on screen and scrolling are left out. `Collapse` is the part of
`rebuildFlowOrder` that closes the drawer of a hidden row.

`promised` and `disturbed` are history. A list is disturbed when it received
pages of another filter or another place than it was cleared for, or lost rows
to `MAX_ROWS`; `EndIsComplete` then says nothing about it. `EndIsComplete`
together with `RowsMatchFilter` thus delimits when "End of retained history."
can be relied on. The model also reaches states in which two event sources are
open after overlapping resumes; the one the page no longer knows of is not
closed by a pause.

## What TLC checks

| Run | Bounds | Shows |
|---|---|---|
| `oauth_rotation` | 2 clients, 2 handlers, 3 responses, 1 crash | memory, index and file agree in every state; the file never goes back (`DiskNeverOlder`); a delivered placeholder stays live until replaced, over crashes and failed writes (`DeliveredStaysLive`); a refresh token survives responses that omit it (`RefreshPreserved`); the daemon can load any file it wrote; every response completes |
| `mediation` | 2 clients, 2 hosts, 1 key, 2 responses, 1 exchange at a time; 2 static secrets, one containing the other, encoded and masked, with at most 2 and 1 visible bytes; 10 bodies; buffer of 2 bytes, mediation limit 6, capture limit 3 | substitution never mixes up tokens or clients; no credential the brokers know is delivered or captured, also one echoed before its installation and again after; scrubbing record by record equals scrubbing the whole; the capture's limit and flag are exact |
| `daemon` | 4 flows (2 denied; 2 of hijacked connections), 1 worker, queue of 1 | no send on a closed channel, no flow lost or doubled, a final drop count, `FlowSink` implemented, nothing recorded to a closed store, a graceful stop loses no record of a plain request; submitters and shutdown end with a store that hangs, accepted flows settle with one that answers |
| `cert_authority` | 2 commands, 2 hosts, 2 sessions, a cache of 1, clock 0..5 set back once | leaves verify, also after a clock step and from an old config; commands leave both files or none; no daemon runs with half a pair or passes over a damaged CA |
| `pool_drain` | 3 requests, 2 keys, one of them HTTP/2, room for 1, 3 transports | the limit holds, exact use counts, an exact draining list, no idle connection on a transport that gets out of reach, and none later over HTTP/1 |
| `gateway_reload` | 4 policies, 2 edits, 1 CONNECT, 1 request | each forwarded request was permitted by one policy of its lifetime; hosts with rules are not tunnelled; brokered hosts are mediated; an invalid file changes nothing; the file signalled last takes effect |
| `no_ca` | 1 policy with rules, no CA, no broker | a disagreement, see below |
| `flow_store` | 5 flows of 2 sessions, 2 workers, capacity 3, trim batch 2, pages of 2, channel of 1, 1 restart | both backends keep the newest flows without a gap, the cached row count is exact, pages skip and repeat nothing that stays stored |
| `store_parents` | the same flows, 1 worker, all retained | a disagreement, see below |
| `websocket` | 3 frames per session out of 10, messages of at most 2 parts, a capture of 3 | messages arrive whole, in order and mediated, the capture has them first, a refusal is reported, one relay's end ends the session |
| `console_feed` | 3 flows, 2 filters, a list of 2 rows, pages of 1, 2 event sources at a time | the selected row and the operator's pause survive every order of answers, a running feed has an event source unless the server refused it, an undisturbed list is complete at its end |
| `console_filters` | the same with 2 flows | a disagreement, see below |

Why these bounds are enough for what the properties say:

* A file that goes back takes two handlers, one snapshot each; a lost
  placeholder takes a rotation, a failed or missing write and a crash; a
  refresh token carried over takes three responses of one key. Three
  responses, two handlers and one crash cover each, and two clients let an
  error of one key show in the other.
* Two blocked senders, a full queue and a busy worker occur with four flows and
  a queue of one; a store that hangs the worker with the queue full leaves both
  denied flows to wait for their timers. The process exits once, has one caller of
  `Close`, and its workers are alike: they share nothing but the queue and the
  wait group. The run was also made with two workers (280,049 states), which
  adds no behaviour that a property tells apart and takes three times as long.
* The secrets of `mediation` have values of which one is a prefix of the other and
  is in scope where that is not; a buffer of two bytes puts every value across two
  reads and lets a line fill the buffer exactly; records of up to seven symbols lie
  on both sides of both limits, and one masked value shows more than the caps allow.
  An echo of either token, twice in one body, is read before, at and after its
  installation. Two responses rotate the token of an exchange at each of its steps.
* Two commands are enough for one to fail on, or remove, the files of the other,
  and with the files of an earlier one for a pair to change between two
  reads. In the cache of one the second host always evicts the first, also
  when the entry to be renewed is itself the one cached.
* A transport that is evicted while two responses use it, whose key is requested
  again while it drains, takes three requests and two keys; one key is of a host
  that speaks HTTP/2, so each protocol evicts the other. With room for one the
  choice of what to evict is none, and the clock behind `lastUsed` stands still.
  `MaxTransports` bounds creations, not the pool; a run that has used them up only
  stops asking for new keys.
* Two edits put a second reload into the lifetime of a request that already
  saw one; the four policies remove a client, move a token, open a host, add
  rules and turn a host read-only.

* Five flows in a store of three wrap the ring twice and make the table reach
  capacity plus batch, where it is trimmed; with a page size of two a trim, an
  insert or the restart falls before, between and inside the pages.
* Three frames make a fragmented message with a control frame inside it or a
  message after it, or one message each way and a third that exceeds the
  capture; the ten frames carry the sensitive value whole, split and not at all.
* In a list of two rows every third flow evicts one, also the oldest while
  its drawer is open; pages of one flow make a history of two take three
  requests, with a filter that skips one. A second event source is what
  overlapping resumes open; a third would repeat the second's situation. The
  operator's actions are not bounded.

`CHECK_DEADLOCK FALSE` is set where a bounded number of responses, flows or
edits lets the system come to rest.

### Fairness

* `oauth_rotation`: a handler past `Receive` is scheduled, and
  `sync.Mutex` does not starve a waiter (its starvation mode hands the lock
  over after 1 ms), hence strong fairness of `LockState`. Issuers, requests,
  crashes and restarts are not fair.
* `daemon`: the main goroutine is scheduled except that nobody needs to stop the
  daemon; goroutines inside `recordFlow` are scheduled and their timers fire; a
  worker is scheduled, but a store call is only assumed to return once its
  context is cancelled. `AcceptedSettles` has the additional assumption, stated in
  the property, that the store answers. Requests are not fair.
* `mediation`, `cert_authority` and the other runs check safety only.
* `websocket`: goroutines are scheduled, and a read or write returns once its
  own connection was closed. Peers are not fair: they may be silent or not read.

### Disagreements

`no_ca`: README.md:407-408 promises that a host with rules is never an opaque
tunnel and that a CONNECT to it fails with 503 when no interception CA is
configured; `config/rules.go:17-18` says the same of the tunnel. In
`ServeHTTP`, a host with rules that follows `intercept_mode` "intercept" has
`handlingFull`; without a CA the first branch (proxy.go:355) is not taken, and
without a broker the second (proxy.go:366) refuses only `handlingInspect`. The
CONNECT becomes an opaque tunnel and the rules are not enforced. The daemon
starts in this configuration, as a CA is required only by the brokers.

`store_parents`: DESIGN.md:276-277 says that CONNECT sessions form parent rows
with their requests beneath them, and `Page` (store.go:112-115) that
`SessionParents` completes groups whose parent falls before the page.
`listPage` looks for parents below the lowest id of the page (store.go:255),
but a CONNECT is recorded when its session ends and has a higher id than its
requests. Without a mode filter the CONNECT comes on an earlier page, so
nothing is missing. With one, which the CONNECT does not match, it is on no
page, and the query that was to add it cannot find it: the requests are
listed without their parent although it is stored.

`console_filters`: DESIGN.md:361-362 says that new rows appear only when they
match the active filters, and DESIGN.md:356 that applying filters refetches
history. `applyFilters` clears the list and calls `loadPage(true)`, which
returns at once while another request is under way (app.js:800). The answer to
that request, sent with the old filters, is rendered into the cleared list and
sets its cursor; the first page of the new filters is never requested.

## What is proved

The theorems hold for every value of the constants that satisfies the named
assumptions of the modules: `PolicyAssumption` (the policy maps keys to
clients, issuers and API hosts), `BoundAssumption` (the bounds are numbers) and
`NoneAssumption` (the markers for "no handler", "no response" and "no
reference" are none of the real ones) for `OAuthBroker`; `SecretAssumption`
(finitely many secrets in the order of the configuration, with distinct values
that are long enough to be masked), `LimitAssumption` (buffer and limits are
numbers), `ByteAssumption` (a byte is none of the broker's symbols),
`NeedleAssumption` (a value and its encodings are not empty and hold no line
break, which `New` enforces) and `BodyAssumption` (bodies are finite texts, of any
symbols and length) for `Mediation`; `GatewayAssumption`
(policies are functions from clients to entries, the markers differ from them,
a broker scope exists only with a secret broker) for `Gateway`;
`CommandAssumption` (the earlier command and "nobody" are none of the present
ones), `CacheAssumption` (hosts are ordered and finitely many, the cache has
room for one) and `TimeAssumption` (times are numbers; how they compare does
not matter) for `CertAuthority`; `RecorderAssumption` (a queue with room for one,
at least one worker, which is what `recordWorkerCount` returns) and
`DaemonAssumption` (one caller of `Close`, hijacked flows are flows) for
`FlowRecorder` and `Daemon`; `PoolAssumption` (room for one transport) for
`TransportPool` (and HTTP/2 for some of the keys); `StoreAssumption` (capacity, batch, page and channel are not
zero, the queue is a sequence of flows) for `FlowStore`; `FeedAssumption` (a list
and pages with room for one row, filters match sets of ids) for `ConsoleFeed`;
`RelayAssumption` (a frame has a kind, a payload and a final flag, control frames
are final, limits are numbers) for `WebSocketRelay`. The
markers for "none" differ from the real values in all of them. Bounds on grants,
crashes, edits, restarts, transports, flows and the clock stay parameters.

The inductive invariants were checked with TLC, on the instance of the
component's run or a smaller one, before they were proved.

Two habits of the proofs have a reason in the tools. The translation to SMT of
tlapm 1.4.5 is not sound for CHOOSE (it proves that `CHOOSE x : x \in {1, 2}`
is 2), so every leaf that opens a CHOOSE is left to Zenon: `Holder` and `IndexIs`
of the token broker, `Oldest` of the certificate cache, the smallest or newest
id of the store and the page. And the induction theorems of the library take an
operator as a parameter, which no prover here can instantiate; where induction
over data is needed, as over the texts of `Mediation`, it is done over sets: a set
of naturals that is not everything has a least element outside it (`LeastNat`,
from the well-foundedness of the naturals), and this gives `NatInduct` and
`Backward`, of which the second goes from the end of a text to its start.

### OAuthBroker

| Theorem | Property | Rests on |
|---|---|---|
| `TypeCorrect` | `TypeOK` | `HandlersBusy` |
| `Faithfulness` | `PlaceholderFaithful` | `FaithInv` |
| `Durability` | `DeliveredStaysLive` | `OrderInv` |
| `FileMonotone` | `DiskNeverOlder` | `OrderInv` |
| `RefreshSurvives` | `RefreshPreserved` | `OrderInv`, `GrantInv`, `IndexAgrees` |
| `IndexAgrees` | `IndexConsistent` | `FaithInv`, `GrantInv` |
| `Restartable` | `FileLoadable` | `FaithInv`, `GrantInv` |
| `SubstitutesFaithfully` | `SubstitutionFaithful` | `IndexAgrees`, `FaithInv` |

* `TypeOK` is inductive only together with `HandlersBusy`: a handler that is
  not idle holds a parsed response. It contains the mutual exclusion of
  `stateMu`.
* `FaithInv` is `PlaceholderFaithful` extended to every copy of a record
  (memory, file, snapshots, what handlers installed, what was delivered),
  because `ReplaceFile` and `Restart` move one copy over another. It also says
  that only the zero record has no access token.
* `OrderInv` says how the copies of a key's record follow one another. `Follows(a, b)`
  means that b is a or a later install, and that b has the refresh token of a
  unless a response replaced it; it is reflexive and transitive. What a handler
  installed is followed by memory until it holds a snapshot, then by that
  snapshot, then by the file; the file is followed by every snapshot, and every
  snapshot by memory. `DeliveredStaysLive` and `DiskNeverOlder` do not mention
  snapshots and are not inductive: a step of `ReplaceFile` needs to know that
  the snapshot it renames is not older than the file and already has the
  record its own handler is about to deliver. That no second handler holds a
  snapshot, which the proof of `ReplaceOrder` uses, comes from `stateMu`.
* `GrantInv` keeps keys apart: no two keys share a token in any two copies of
  the state, and the grant of a response not yet installed is in none of them.
  With it a placeholder has one holder, so deleting the old placeholders and
  inserting the new ones (`Reindex`) cannot disturb another key, and equals
  `IndexOf` (`ReindexIsIndexOf`).
* `OrderInv` and `GrantInv` were checked with TLC on the instance of
  `oauth_rotation` before they were proved.

### Mediation

| Theorem | Property | Rests on |
|---|---|---|
| `NoCredentialReturns` | `Veiled` | `ExchangeInv`, `ScrubHides` |
| `StreamsExactly` | `RecordwiseExact` | `ExchangeInv`, `ScrubConcat` |
| `CapturesSoundly` | `CaptureSound` | `ExchangeInv`, `SanitizeHides` |
| `SubstitutesFaithfullyMediated` | `SubstitutionFaithful`, of whole exchanges | `BrokerInv` |

The first part of `Mediation_proofs` is about texts of any length and needs no
state machine.

* A function defined by recursion is a CHOOSE, so it is first shown that one
  exists (`ScanExists`, `WalkExists`); then `Rewrite`, `Flat` and `ScanRecord` conform
  to their equations (`PiecesStep`, `FlatStep`, `ScanStep`).
* `RewriteFragment`: a stretch of a rewritten text in which nothing was put is a
  stretch of the original in which nothing matched. So removing a needle cannot
  join its neighbours into another one: what was put between them is a
  placeholder or a marker, which no needle contains. Together with what the
  searches find (`LongestNeedle`, `MaskedLengthFinds`, `MatchFinds`) this gives
  `ScrubHides` (no value in scope is left, encoded or masked) and `SanitizeHides`
  (no value or placeholder of any secret is left), for every text, any set of
  overlapping values and any masks.
* `ScrubConcat`: a text that ends with a line break can be scrubbed apart from what
  follows it, as no needle crosses a line (`ReadsFront`, `SameMatch`). It is false
  for other cuts, which is why `NeedleAssumption` is needed: the check of values for
  line breaks is what makes streaming sound.
* `MaskedLengthFinds` and `SameMasks` are `maskedSecretLength`: it finds a masked
  rendering if there is one, and depends on nothing but those that are there.
* `FittingIs`, `SizeConcat`: what is cut off a capture leaves a prefix within the
  limit.

The second part is the theorems of the token broker above, the third the
exchanges.

* `BrokerInv` is what the token broker alone is proved to keep. It is kept by a
  whole exchange because every step is one of `OAuthBroker` or leaves its state
  alone, except `RefuseStatic`, which drops what was substituted.
* `TokenFrame` is what a step may do to the live tokens: it forgets no grant that
  was installed, and a token that becomes live was never installed before, nor its
  placeholder drawn. What `Scrub` or `Sanitize` left of installed tokens before a
  rotation is therefore none that only then becomes live, and neither is a
  placeholder (`CoveredStays`), although the text was scrubbed under an earlier
  state of the broker.
* `ExchangeInv` says of each exchange in progress: what it carries is its own
  (`Carried`: placeholders in its scope, and tokens that no live key will be found
  to expose later); what was delivered, or is in hand, holds no token the broker
  hides from it and the request carried, and nothing that it hides is in `passed`
  (`Veiling`); up to the names of tokens it is what was read, scrubbed as one text
  (`Exact`); the captured records show no secret and no live placeholder, and
  `copied` holds no live token (`Captured`); they are counted exactly (`Counted`).
  None of the three properties is inductive by itself: `Veiled` does not say that
  the tokens of `passed` and `carried` were installed, nor that a carried token
  belongs to its own client; `RecordwiseExact` speaks of the state between two
  records only, and needs that what was read so far ends with a line unless nothing
  is left (`EndsLine`); `CaptureSound` needs the record in hand and the exact sum
  behind its flag.
* `Veiled` for secrets follows from `Exact`: what was delivered has the names of a
  scrubbed text, and texts with the same names show the same secrets
  (`NamedReveals`).
* `ExchangeInv` was checked with TLC on the instance of `mediation` (1,269,843
  states). It is where `Seen` is needed: without it an upstream could send the
  placeholder of a token that does not exist yet, which would be captured as it is and
  become live later. Of tokens nothing of the kind is assumed.

### Gateway

| Theorem | Property | Rests on |
|---|---|---|
| `TypeCorrect` | `TypeOK` | |
| `OnePolicy` | `ForwardedUnderOnePolicy` | `AdmissionInv` |
| `Brokered` | `BrokeredMediated` | `TypeOK` |
| `RulesIntercepted` | `RuledNeverOpaque`, with a CA | `TypeOK` |
| `SignalTakesEffect` | `ReloadTakesEffect` | `ReloadInv` |
| `RulesNeverReduce` | a fact about `handlingFor` | |

* `AdmissionInv` follows a request through its phases: on arrival the policy in
  force is one of its lifetime; after the recheck it is held to one policy of
  its lifetime that allows it; the checks that follow read that same entry, so
  the witness of the property is the policy of the recheck.
* `ReloadInv`: a valid policy that was signalled is still in the file, and it is
  behind the signal channel, or has been read, or runs.
* `RulesIntercepted` has `HasCA` as its hypothesis. Without it the property is
  false, which is what `no_ca` shows.
* `RulesNeverReduce` is the comment of inspect.go:36-37: rules guarantee
  interception and never make the handling of a host shallower.

### CertAuthority

| Theorem | Property | Rests on |
|---|---|---|
| `FilesWhole` | `WholePairs` | `FilesInv` |
| `NoLeftoverOpaque` | `LeftoverNeverOpaque` | `FilesInv` |
| `LeavesVerify` | `LeafVerifies`, which has `TypeOK` | `LeafInv` |

* `WholePairs` speaks of commands that have ended. `FilesInv` says for every
  place in the writing of a pair which of its files a command has: what it opened
  is its own until it removes it, as others create files only where there is
  none. `OthersKept` is this for the steps of other commands, `OwnKept` for its
  own.
* `LeafInv` adds to `LeafFresh` that every cached leaf has the validity it was
  issued with, whatever the clock did since (`CacheInv`), and that only a daemon
  that is up has leaves, sessions and a CA (`DaemonInv`). A hit compares the clock
  with the leaf's issue and end, and with `CacheInv` this gives what the client
  will compare.
* The cache's limit, a part of `TypeOK`, needs that eviction really takes a leaf
  out: among the cached leaves there is one used longest ago (`OldestCached`, from
  the well-foundedness of the naturals).

### FlowRecorder and Daemon

| Theorem | Property | Rests on |
|---|---|---|
| `SendersSafe` | `NoSendOnClosed` | `RecorderInv` |
| `Accounted` | `AccountedOnce`, which has `TypeOK` | `RecorderInv` |
| `DropsFinal` | `DropsReported` | `RecorderInv` |
| `ImplementsSink` | `ImplementsFlowSink` | `RecorderInv`, `SinkStep` |
| `SinksOpen` | `SinksOutlive` | `DaemonInv` |
| `PlainKept` | `PlainRecordsKept` | `DaemonInv` |
| `RecorderInDaemon` | the first four, of the daemon | `DaemonImplementsRecorder` |

* `RecorderInv` says of each flow where it is (`Place`): what its submitter does
  determines whether the flow is in the channel's line of senders, in the
  channel, with a worker or settled, and the converse. `NoRepetition` keeps the
  queue, the line of senders and the workers free of duplicates, which a
  receive that lets a blocked sender in must preserve.
* `Before`, `During` and `After` are the life of the channel: it is closed only
  after the first closer has seen the last submitter leave, which is why no
  sender is left (`NoSendOnClosed`) and why the drop count is final; a worker
  exits only when the closed channel is empty. `Closing` ties the callers of
  `Close` to it: one that returned nil has seen every worker exit.
* The refinement needs one fact about that: when a `Close` returned nil nothing is
  accepted and unsettled (`DrainedIsEmpty`), as then the queue is empty and no
  worker has a flow. It is where the assumption of at least one worker is used:
  with none, the queue would be "drained" with flows in it. `SinkStep` then maps every
  action to an action of the sink or a stutter.
* `DaemonInv` adds the order of `runServe`: the stack of deferred calls is what
  was opened, in order (`Stack`, `Order`), so the store and the audit sink are below
  the recorder and are closed after it. A graceful stop has waited for the plain
  requests (`Graceful`), so their flows were submitted before the recorder closed.

### TransportPool

| Theorem | Property | Rests on |
|---|---|---|
| `Accounts` | `AccountsExact`, which has `TypeOK` | `PoolInv` |
| `NothingLeaks` | `NoIdleLeak`, of each step | `PoolInv`, `LeftShut` |

* `PoolInv` relates the cache, the draining list and what goroutines hold: what a
  goroutine uses is cached or drains (`UseInv`), so that it cannot become
  unreachable between the critical sections of `acquire` and `release`; a cached
  transport belongs to one key and does not drain (`CacheInv`), so evicting it is
  not evicting it from under another key; nothing is known of a transport that
  was not created (`CreatedInv`), so a new one has no users.
* The list holds the draining transports in use, each once (`DrainInv`); that
  `release` removes the one it has finished and no other comes from
  `RemoveIndex`, and that it is there from `UseInv`.
* `NoIdleLeak` is about steps. Its half for HTTP/1 is an invariant (`ShutInv`), because
  `closeIdle` of a transport out of reach stays set; the half for HTTP/2 is not, and
  is shown of each step after which a transport gets out of reach (`LeftShut`):
  such a step ends with `CloseIdleConnections` (`GetsShut`), or it leaves the reach
  of all others as it is (`StaysShut`).

### FlowStore

| Theorem | Property | Rests on |
|---|---|---|
| `Retention` | `RetentionExact`, which has `TypeOK` | `StoreInv` |
| `Pages` | `PagesExact` | `StoreInv` |

* `RingInv` and `TableInv` say that both backends hold a row for each of the last
  ids, without a gap. The ring has them downwards from its newest place; `Add`
  shifts it by one, before and after it is full and when `start` passes the last
  place (`RingIndexes`; `OneTurn` replaces the remainder by a case split). In the
  table the ids are an interval as long as the row count says, so the statement
  that deletes the oldest rows deletes exactly the surplus (`TableIndexes`,
  `OpenIndexes`, from `CountByIds` and `OldestByIds`).
* A flow is stored once (`FlowsInv`): a worker that still adds one holds a
  flow which no row and no reader knows. Without it an insert could
  look to a reader like a flow it has skipped.
* `PagingInv` is why pages skip nothing: a stored flow that the reader still has
  to get (`Due`) lies below its cursor, and if the page being read does not
  contain it, the page is full and all of it is newer. `ListIsNewest` gives this
  for the query, from the counting lemma `Smallest`: the members of a finite
  set with fewer than n smaller ones are n, or all.
* An insert does not create a due flow and a trim only removes rows
  (`ReaderUndisturbed`), so neither disturbs a reader between its queries.

### ConsoleFeed

| Theorem | Property | Rests on |
|---|---|---|
| `SelectionStays` | `SelectedKept`, which has `TypeOK` | `FeedInv` |
| `PauseSurvives` | `ExplicitPauseSurvives` | `FeedInv` |
| `FeedIsLive` | `LiveWhenRunning` | `FeedInv` |
| `EndReached` | `EndIsComplete` | `FeedInv` |

* `LiveWhenRunning` excepts a refused source; `SourceInv` is what its proof keeps.
* `ExplicitPauseSurvives` is not inductive: an operator's pause with
  `pausedByDetail` set would be ended by closing a drawer. `PauseInv` says that it
  never is.
* `EndIsComplete` speaks of the end of the list only. `PagingInv` says before
  the end what is still to come: a matching flow that the list lacks is older than
  the cursor, and there are more; a request for older flows continues at the
  cursor. `AnswerInv` ties an answered request to what the server had when it
  answered: the newest page of the flows asked for (`NewestAre`), so what it
  leaves out is older than all of it (`LeftOut`).
* The limit of the list and the selected row are `EvictOverflow`: the rows that
  `evictOverflow` removes are as many as it has to, and never the selected one.

### WebSocketRelay

| Theorem | Property | Rests on |
|---|---|---|
| `DeliversFaithfully` | `DeliveredFaithful` | `DeliveryInv` |
| `NothingLeaksOut` | `NothingUnmediated` | `RelayInv` |
| `RefusalsReported` | `RefusalReported` | `RelayInv` |
| `CapturesComplete` | `CaptureComplete`, which has `TypeOK` | `RelayInv` |

* `RefusalReported` speaks of the end. `ResultsInv` and `ReportInv` say before it
  that a relay that returned has one result and that a refusal is among the
  results, so it does not matter which relay's result is received first: with
  two results both have returned (`TwoResults`).
* `MediatedInv` follows a message through a relay: while it is inspected,
  `mediated` tells exactly whether its whole text holds something; when it is
  written, it is one that may be written.
* `CaptureComplete` is about the order of two goroutines that share one list.
  `Ahead` counts: until it is truncated, the capture has as many messages of a
  relay as the relay has written data messages, and one more between `Mediate` and
  `Write`. `CapturedNext` and `SentNext` say that appending changes no earlier
  place, so neither relay disturbs the other (`OtherAhead`).
* `DeliveryInv` ties the buffer of a relay to the log of its frames: what
  `message` holds is what the log has come to (`Unfinished`), and as many
  messages have ended as were written, or one more while it is inspected. A
  frame extends it in one of three ways (`Interrupted`, `Continued`, `Started`).
  `Continued` needs that every part has its place inside the text (`PartPlace`),
  by counting the parts of the frames before it (`PartCount`).

## What is only model-checked

* Liveness (`ResponseCompletes`, `SubmitterReturns`, `ShutdownCompletes`,
  `AcceptedSettles`, `SessionEnds`): fairness and ENABLED are out of the
  prover's reach.

Every safety property of the passing runs is stated by a theorem.

## What is not modelled

* **Resolver, parts of the policy (`hostpattern`, rule paths), configuration
  files, header redaction, content encodings**: pure functions of their input
  whose correctness is a matter of text formats.
* **Audit events**: a record type. **Console**: the parsing of queries, JSON,
  the drawer's contents and the formatters.
* **Request and header capture.** Two things the code does there are listed as
  hazards without a property: a token that a response replaces between the
  substitution of a request and its capture is no longer known to `Sanitize`
  (oauth/broker.go:357, capture.go:119-139), and the truncation flag of the
  query and body is overwritten by that of the headers (capture.go:102, 145, 169).
* The copying of tunnels with its idle timeouts, and HTTP framing.
* Time is abstract: timers and expiries may fire whenever they are armed.
* Power failure (unsynced directory entries) and several daemons on one auth
  file.

## Plan

In this order; each property aimed at a hazard of `PROJECT.json`.

1. The capture of requests and headers in `Mediation`, with the truncation flag.
2. The idle timeouts of a tunnel and of an intercepted session.
