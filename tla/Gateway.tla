------------------------------- MODULE Gateway -------------------------------
(***************************************************************************)
(* How the proxy of internal/proxy admits traffic while the client policy  *)
(* is reloaded: CONNECT and plain HTTP requests (ServeHTTP), the requests  *)
(* inside intercepted HTTP/1.1 and HTTP/2 sessions, the choice of opaque   *)
(* tunnel, inspection or full mediation (handlingFor), the request rules,  *)
(* and the SIGHUP loop of cmd/veilgated that replaces the policy.          *)
(*                                                                         *)
(* The policy is an atomic pointer.  A goroutine loads it once, keeps the  *)
(* client entry it found and resolves the destination, which blocks, before *)
(* it decides: a reload may fall between any two of these steps.           *)
(*                                                                         *)
(* A host stands for a host and port, a token for a proxy credential.  A   *)
(* request is a read (GET or HEAD without a body), a write, or a read that *)
(* carries a method override header.                                       *)
(***************************************************************************)
EXTENDS Naturals, FiniteSets

CONSTANTS
    Clients, Hosts, Tokens,
    Policies,    \* the valid client policies an operator may install
    Removed,     \* the policy has no entry for the client
    Invalid,     \* a policy file that cannot be read or fails validation
    NotLoading,  \* the reload loop waits for a signal
    HasCA,       \* an interception CA is configured (h.Interceptor # nil)
    HasSecrets,  \* a secret or OAuth broker is configured (h.Secrets # nil)
    Scoped,      \* the (client, host) pairs in the scope of a broker
    Conns,       \* CONNECT requests
    Streams,     \* requests: plain HTTP ones and those inside sessions
    NoConn,      \* a plain HTTP request belongs to no session
    MaxEdits     \* bound: edits of the policy file

Classes   == {"read", "write", "override"}
Modes     == {"intercept", "inspect", "opaque"}
Handlings == {"opaque", "inspect", "full"}

(* A config.Client.  permits holds, for a host with rules, the classes its *)
(* rules let through.                                                      *)
Entry == [token: Tokens, allowed: SUBSET Hosts, opaque: SUBSET Hosts,
          intercept: SUBSET Hosts, inspect: SUBSET Hosts, ruled: SUBSET Hosts,
          permits: [Hosts -> SUBSET {"read", "write"}], mode: Modes]

ASSUME GatewayAssumption ==
    /\ Policies # {} /\ Invalid \notin Policies /\ NotLoading \notin Policies
    /\ Invalid # NotLoading
    /\ Policies \subseteq [Clients -> Entry \cup {Removed}] /\ Removed \notin Entry
    /\ HasCA \in BOOLEAN /\ HasSecrets \in BOOLEAN
    /\ Scoped \subseteq Clients \X Hosts /\ (Scoped # {} => HasSecrets)
    /\ NoConn \notin Conns
    /\ MaxEdits \in Nat

VARIABLES
    file,     \* the contents of the client policy file
    edits,    \* edits so far
    hup,      \* a signal waits in the channel of the reload loop
    asked,    \* history: the file, if it was signalled since its last edit
    loaded,   \* what the reload loop has read, not yet installed
    policy,   \* h.policy()
    conn,     \* the CONNECT requests
    stream    \* the requests

vars == <<file, edits, hup, asked, loaded, policy, conn, stream>>

IdleConn   == [phase |-> "idle"]
IdleStream == [phase |-> "idle"]

(* entry is the client entry the goroutine holds; under its policy.        *)
ConnState ==
    {IdleConn}
    \cup [phase: {"resolving", "tunnel", "session", "closed"},
          client: Clients, host: Hosts, under: Policies, h2: BOOLEAN]

(* during: history, the policies in force since the request arrived.       *)
StreamState ==
    {IdleStream}
    \cup [phase: {"arrived", "resolving", "forwarded", "refused"},
          conn: Conns \cup {NoConn}, client: Clients, host: Hosts,
          class: Classes, under: Policies, depth: {"inspect", "full"},
          during: SUBSET Policies]
-----------------------------------------------------------------------------
Init ==
    /\ policy \in Policies
    /\ file = policy
    /\ edits = 0
    /\ hup = FALSE
    /\ asked = file
    /\ loaded = NotLoading
    /\ conn = [c \in Conns |-> IdleConn]
    /\ stream = [s \in Streams |-> IdleStream]

(* File.Authenticate: a token that matches no client, or several, is       *)
(* refused.                                                                *)
Authenticated(p, t, c) ==
    {d \in Clients : p[d] # Removed /\ p[d].token = t} = {c}

(* Client.Allows, for a client the policy may have removed.                *)
Allows(p, c, host) == p[c] # Removed /\ host \in p[c].allowed

(* handlingFor, by its precedence.  Rules keep a host out of an opaque     *)
(* tunnel and a broker makes mediation full.                               *)
MutHandling(p, c, host) ==
    LET e == p[c]
    IN  IF host \in e.opaque THEN "opaque"
        ELSE IF host \in e.intercept \/ <<c, host>> \in Scoped THEN "full"
        ELSE IF host \in e.inspect \/ e.mode = "inspect" THEN "inspect"
        ELSE IF e.mode = "opaque" THEN "opaque"
        ELSE "full"
MutHandlingInspectFirst(p, c, host) ==
    LET e == p[c]
    IN  IF host \in e.opaque /\ host \notin e.ruled THEN "opaque"
        ELSE IF host \in e.inspect \/ host \in e.opaque THEN "inspect"
        ELSE IF host \in e.intercept \/ <<c, host>> \in Scoped THEN "full"
        ELSE IF e.mode = "inspect" THEN "inspect"
        ELSE IF e.mode = "opaque"
             THEN IF host \in e.ruled THEN "inspect" ELSE "opaque"
        ELSE "full"
Handling(p, c, host) ==
    LET e == p[c]
    IN  IF host \in e.opaque /\ host \notin e.ruled THEN "opaque"
        ELSE IF host \in e.intercept \/ <<c, host>> \in Scoped THEN "full"
        ELSE IF host \in e.inspect \/ host \in e.opaque THEN "inspect"
        ELSE IF e.mode = "inspect" THEN "inspect"
        ELSE IF e.mode = "opaque"
             THEN IF host \in e.ruled THEN "inspect" ELSE "opaque"
        ELSE "full"

(* enforceRequestRules: explicit rules, or the read-only default of an     *)
(* inspected host without rules.                                           *)
RulesPermit(p, c, host, class) ==
    IF host \in p[c].ruled THEN class \in p[c].permits[host]
    ELSE Handling(p, c, host) = "inspect" => class = "read"

(* A session whose host became opaque keeps being mediated in full.        *)
Depth(p, c, host) ==
    IF Handling(p, c, host) = "inspect" THEN "inspect" ELSE "full"
-----------------------------------------------------------------------------
(* An operator edits the policy file, and signals the daemon; a signal     *)
(* that finds the channel full adds nothing.                               *)
Edit ==
    /\ edits < MaxEdits
    /\ edits' = edits + 1
    /\ file' \in Policies \cup {Invalid}
    /\ asked' = Invalid
    /\ UNCHANGED <<hup, loaded, policy, conn, stream>>

MutBuffered == loaded = NotLoading
Buffered    == TRUE

Signal ==
    /\ hup' = (hup \/ Buffered)
    /\ asked' = file
    /\ UNCHANGED <<file, edits, loaded, policy, conn, stream>>

(* reloadClientPolicy reads the file ...                                   *)
LoadFile ==
    /\ hup
    /\ loaded = NotLoading
    /\ hup' = FALSE
    /\ loaded' = file
    /\ UNCHANGED <<file, edits, asked, policy, conn, stream>>

(* ... and installs it, or keeps the running policy if it is invalid.      *)
MutValid == TRUE
Valid    == loaded # Invalid

SetPolicy ==
    /\ loaded # NotLoading
    /\ policy' = IF Valid THEN loaded ELSE policy
    /\ stream' = [s \in Streams |->
                     IF stream[s].phase \in {"arrived", "resolving"}
                     THEN [stream[s] EXCEPT !.during = @ \cup {policy'}]
                     ELSE stream[s]]
    /\ loaded' = NotLoading
    /\ UNCHANGED <<file, edits, hup, asked, conn>>
-----------------------------------------------------------------------------
(* A CONNECT that authenticates and is allowed: the client entry of the    *)
(* policy in force is kept for the rest of the request.                    *)
Connect(c, t, host) ==
    /\ conn[c].phase = "idle"
    /\ \E client \in Clients, h2 \in BOOLEAN :
          /\ Authenticated(policy, t, client)
          /\ Allows(policy, client, host)
          /\ conn' = [conn EXCEPT ![c] =
                        [phase |-> "resolving", client |-> client,
                         host |-> host, under |-> policy, h2 |-> h2]]
    /\ UNCHANGED <<file, edits, hup, asked, loaded, policy, stream>>

(* The destination is resolved; the CONNECT becomes a session, a tunnel,   *)
(* or fails with 503.                                                      *)
Route(c) ==
    LET how == Handling(conn[c].under, conn[c].client, conn[c].host)
    IN  /\ conn[c].phase = "resolving"
        /\ conn' = [conn EXCEPT ![c].phase =
               IF HasCA /\ how # "opaque" THEN "session"
               ELSE IF how = "inspect" \/ (HasSecrets /\ how # "opaque")
                    THEN "closed"
               ELSE "tunnel"]
        /\ UNCHANGED <<file, edits, hup, asked, loaded, policy, stream>>

(* Resolution or a connection fails, a peer hangs up, or the session       *)
(* context expires.  Requests of the session are on their own.             *)
Hangup(c) ==
    /\ conn[c].phase \in {"resolving", "session", "tunnel"}
    /\ conn' = [conn EXCEPT ![c].phase = "closed"]
    /\ UNCHANGED <<file, edits, hup, asked, loaded, policy, stream>>
-----------------------------------------------------------------------------
InProgress(s) == stream[s].phase \in {"arrived", "resolving", "forwarded"}

(* A request arrives in a session: at any time over HTTP/2, after the      *)
(* previous one over HTTP/1.1.                                             *)
Arrive(s, c, class) ==
    /\ conn[c].phase = "session"
    /\ stream[s].phase = "idle"
    /\ conn[c].h2 \/ \A r \in Streams :
                        InProgress(r) => stream[r].conn # c
    /\ stream' = [stream EXCEPT ![s] =
                    [phase |-> "arrived", conn |-> c,
                     client |-> conn[c].client, host |-> conn[c].host,
                     class |-> class, under |-> conn[c].under,
                     depth |-> "full", during |-> {policy}]]
    /\ UNCHANGED <<file, edits, hup, asked, loaded, policy, conn>>

(* currentClient and Allows: the entry of the policy in force now replaces *)
(* the one the CONNECT was admitted under.                                 *)
MutCurrent(s) == stream[s].under
Current(s)    == policy

Recheck(s) ==
    /\ stream[s].phase = "arrived"
    /\ Allows(Current(s), stream[s].client, stream[s].host)
    /\ stream' = [stream EXCEPT ![s].phase = "resolving",
                                ![s].under = Current(s)]
    /\ UNCHANGED <<file, edits, hup, asked, loaded, policy, conn>>

(* A plain HTTP request is authenticated and allowed like a CONNECT.       *)
ArrivePlain(s, t, host, class) ==
    /\ stream[s].phase = "idle"
    /\ \E client \in Clients :
          /\ Authenticated(policy, t, client)
          /\ Allows(policy, client, host)
          /\ stream' = [stream EXCEPT ![s] =
                [phase |-> "resolving", conn |-> NoConn, client |-> client,
                 host |-> host, class |-> class, under |-> policy,
                 depth |-> "full", during |-> {policy}]]
    /\ UNCHANGED <<file, edits, hup, asked, loaded, policy, conn>>

(* The destination resolved: rules and depth come from the entry at hand.  *)
(* A plain request is always mediated in full.                             *)
Forward(s) ==
    /\ stream[s].phase = "resolving"
    /\ RulesPermit(stream[s].under, stream[s].client, stream[s].host,
                   stream[s].class)
    /\ stream' = [stream EXCEPT
          ![s].phase = "forwarded",
          ![s].depth = IF stream[s].conn = NoConn THEN "full"
                       ELSE Depth(stream[s].under, stream[s].client,
                                  stream[s].host)]
    /\ UNCHANGED <<file, edits, hup, asked, loaded, policy, conn>>

(* The request fails a check: it names another host, its client or host is *)
(* not in the policy any more, it does not resolve, its rules or its       *)
(* mediation refuse it.  An HTTP/1.1 session ends with it.                 *)
Refuse(s) ==
    /\ stream[s].phase \in {"arrived", "resolving"}
    /\ stream' = [stream EXCEPT ![s].phase = "refused"]
    /\ LET c == stream[s].conn
       IN  conn' = IF c # NoConn /\ conn[c].phase = "session" /\ ~conn[c].h2
                   THEN [conn EXCEPT ![c].phase = "closed"] ELSE conn
    /\ UNCHANGED <<file, edits, hup, asked, loaded, policy>>

Complete(s) ==
    /\ stream[s].phase \in {"forwarded", "refused"}
    /\ stream' = [stream EXCEPT ![s] = IdleStream]
    /\ UNCHANGED <<file, edits, hup, asked, loaded, policy, conn>>
-----------------------------------------------------------------------------
ConnStep(c) ==
    \/ \E t \in Tokens, host \in Hosts : Connect(c, t, host)
    \/ Route(c) \/ Hangup(c)

StreamStep(s) ==
    \/ \E c \in Conns, class \in Classes : Arrive(s, c, class)
    \/ \E t \in Tokens, host \in Hosts, class \in Classes :
          ArrivePlain(s, t, host, class)
    \/ Recheck(s) \/ Forward(s) \/ Refuse(s) \/ Complete(s)

Next ==
    \/ Edit \/ Signal \/ LoadFile \/ SetPolicy
    \/ \E c \in Conns : ConnStep(c)
    \/ \E s \in Streams : StreamStep(s)

Spec == Init /\ [][Next]_vars
-----------------------------------------------------------------------------
(* The types of the variables.                                             *)
TypeOK ==
    /\ file \in Policies \cup {Invalid}
    /\ edits \in 0..MaxEdits
    /\ hup \in BOOLEAN
    /\ asked \in Policies \cup {Invalid}
    /\ loaded \in Policies \cup {Invalid, NotLoading}
    /\ policy \in Policies
    /\ conn \in [Conns -> ConnState]
    /\ stream \in [Streams -> StreamState]

(* A forwarded request was allowed, in every check, by one policy that was *)
(* in force while it was handled: a reload between its checks never lets a *)
(* request through that no policy permits, and no session lives on the     *)
(* policy it was opened under (proxy.go:529-532, README.md:525-529).       *)
ForwardedUnderOnePolicy ==
    \A s \in Streams : stream[s].phase = "forwarded" =>
        \E p \in stream[s].during :
            /\ Allows(p, stream[s].client, stream[s].host)
            /\ RulesPermit(p, stream[s].client, stream[s].host, stream[s].class)
            /\ stream[s].conn # NoConn =>
                  stream[s].depth = Depth(p, stream[s].client, stream[s].host)

(* A host with rules is never an opaque tunnel (README.md:407-408,         *)
(* rules.go:17-18, inspect.go:36-37), where the policy is the one the      *)
(* CONNECT was admitted under.                                             *)
RuledNeverOpaque ==
    \A c \in Conns : conn[c].phase = "tunnel" =>
        conn[c].host \notin conn[c].under[conn[c].client].ruled

(* A request for a host in the scope of a broker is mediated in full in    *)
(* every session, through any number of reloads: placeholders are never    *)
(* sent on by inspection (inspect.go:51-53).                               *)
BrokeredMediated ==
    \A s \in Streams :
        /\ stream[s].phase = "forwarded"
        /\ <<stream[s].client, stream[s].host>> \in Scoped
        => stream[s].depth = "full"

(* The running policy is always a valid one, whatever the file holds, and  *)
(* a signal sent after an edit is never lost, also when it falls into the  *)
(* reload of an earlier one: a reload loop with nothing left to do has     *)
(* installed the file that was signalled last (main.go:410-422, 515-527).  *)
ReloadTakesEffect ==
    /\ policy \in Policies
    /\ asked \in Policies /\ ~hup /\ loaded = NotLoading => policy = asked
=============================================================================
