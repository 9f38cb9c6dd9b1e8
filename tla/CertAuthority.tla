---------------------------- MODULE CertAuthority ----------------------------
(***************************************************************************)
(* The interception authority of internal/intercept/authority.go.          *)
(*                                                                         *)
(* Its files: "ca init" (Generate) writes a CA certificate and key, and    *)
(* "ca sign" (GenerateProxyCertificate) loads that pair and writes the     *)
(* certificate and key of the proxy endpoint.  Several such commands may   *)
(* run at once, fail at any write, or be killed.  The daemon loads the CA  *)
(* with two reads (Load, Parse), possibly while a command is writing it.   *)
(*                                                                         *)
(* Its leaves: every intercepted CONNECT builds a TLS config (TLSConfig)   *)
(* and asks for the host's leaf again at the handshake.  certificateFor is *)
(* one critical section, so a call of it is one step.  The wall clock      *)
(* decides about renewal (Round(0) strips the monotonic reading); it runs  *)
(* on, also while the host sleeps, and may be set back.                    *)
(*                                                                         *)
(* A key pair is named by the command that generated it.                   *)
(***************************************************************************)
EXTENDS Integers, FiniteSets

CONSTANTS
    Commands,    \* runs of "ca init" and "ca sign" on the default paths
    Earlier,     \* a command of the past, whose files may have survived
    Nobody,      \* no key pair
    NoHost,      \* the session has no TLS config
    Hosts,       \* intercepted hosts, in the order of their names
    Sessions,    \* CONNECT sessions at a time
    Lifetime,    \* leafLifetime
    Skew,        \* leafClientClockSkew
    Margin,      \* leafRenewMargin
    Backdate,    \* how far a CA's NotBefore lies before its generation
    CALifetime,  \* how long a CA is valid after its generation
    MaxCached,   \* maxCachedCertificates
    LastTime,    \* bound: the wall clock
    MaxSteps     \* bound: how often the wall clock is set back

ASSUME CommandAssumption ==
    /\ Earlier \notin Commands
    /\ Nobody \notin Commands \cup {Earlier}

ASSUME CacheAssumption ==
    /\ Hosts \subseteq Nat /\ IsFiniteSet(Hosts)
    /\ NoHost \notin Hosts
    /\ MaxCached \in Nat \ {0}

ASSUME TimeAssumption ==
    /\ {Lifetime, Skew, Margin, Backdate, CALifetime} \subseteq Nat
    /\ LastTime \in Nat
    /\ MaxSteps \in Nat

VARIABLES
    clock,    \* the wall clock
    steps,    \* how often it was set back
    target,   \* the pair of files each command writes; never changes
    files,    \* contents of the four files
    born,     \* when a key pair was generated
    cmd,      \* where each command is
    read,     \* the CA certificate a command or the daemon has read
    daemon,   \* "down" | "loading" | "up" | "opaque": up without a CA
    ca,       \* the CA certificate and key of the running daemon
    cache,    \* Authority.cache
    config,   \* the host of the TLS config each session waits with
    shown     \* history: the leaf of the last handshake, and when it was

time     == <<clock, steps>>
commands == <<target, files, born, cmd>>
leaves   == <<cache, config, shown>>
vars == <<clock, steps, target, files, born, cmd, read, daemon, ca, cache,
          config, shown>>
-----------------------------------------------------------------------------
Pairs   == Commands \cup {Earlier}
Times   == 0..LastTime
Parts   == {"cert", "key"}
Paths   == {"ca", "proxy"} \X Parts
Absent  == [by |-> Nobody, whole |-> FALSE]
Content == [by: Pairs, whole: BOOLEAN] \cup {Absent}

(* A step in the writing of a file: at the open, at the write, ...         *)
Points == {"idle", "loadCert", "loadKey", "openCert", "writeCert", "openKey",
           "writeKey", "undo", "done", "failed", "killed"}
Ended  == {"done", "failed", "killed"}

Leaf    == [issuedAt: Times, notBefore: Int, notAfter: Int]
NoLeaf  == [issuedAt |-> 0, notBefore |-> 0, notAfter |-> 0]
Entry   == [leaf: Leaf, lastUsed: Times, cached: BOOLEAN]
NoEntry == [leaf |-> NoLeaf, lastUsed |-> 0, cached |-> FALSE]

Shown   == [leaf: Leaf, at: Times, served: BOOLEAN]
NoShown == [leaf |-> NoLeaf, at |-> 0, served |-> FALSE]

Max2(a, b) == IF a >= b THEN a ELSE b
Min2(a, b) == IF a <= b THEN a ELSE b

(* The validity of the CA certificate of a key pair.                       *)
CANotBefore(p) == born[p] - Backdate
CANotAfter(p)  == born[p] + CALifetime
CAValid(p)     == CANotBefore(p) <= clock /\ clock < CANotAfter(p)
-----------------------------------------------------------------------------
(* An earlier "ca init" may have left either file or both, and may have    *)
(* been killed while it wrote.                                             *)
Left == {Absent} \cup [by: {Earlier}, whole: BOOLEAN]

Init ==
    /\ clock = 0
    /\ steps = 0
    /\ target \in [Commands -> {"ca", "proxy"}]
    /\ files \in {f \in [Paths -> Left] :
                     \A part \in Parts : f[<<"proxy", part>>] = Absent}
    /\ born = [p \in Pairs |-> 0]
    /\ cmd = [c \in Commands |-> "idle"]
    /\ read = [p \in Commands \cup {Nobody} |-> Nobody]
    /\ daemon = "down"
    /\ ca = [cert |-> Nobody, key |-> Nobody]
    /\ cache = [h \in Hosts |-> NoEntry]
    /\ config = [s \in Sessions |-> NoHost]
    /\ shown = NoShown

Tick ==
    /\ clock < LastTime
    /\ clock' = clock + 1
    /\ UNCHANGED <<steps, commands, read, daemon, ca, leaves>>

StepBack ==
    /\ steps < MaxSteps
    /\ clock' \in {t \in Times : t < clock}
    /\ steps' = steps + 1
    /\ UNCHANGED <<commands, read, daemon, ca, leaves>>
-----------------------------------------------------------------------------
(* "ca init" writes the CA pair, "ca sign" the pair of the proxy endpoint. *)
Goto(c, point) == cmd' = [cmd EXCEPT ![c] = point]
Put(path, content) == files' = [files EXCEPT ![path] = content]

(* The daemon reads its files once, when it starts: commands begin before. *)
Begin(c) ==
    /\ daemon = "down"
    /\ cmd[c] = "idle"
    /\ IF target[c] = "ca"
       THEN /\ born' = [born EXCEPT ![c] = clock]
            /\ Goto(c, "openCert")
       ELSE /\ Goto(c, "loadCert")
            /\ UNCHANGED born
    /\ UNCHANGED <<time, target, files, read, daemon, ca, leaves>>

(* Load reads the certificate, then the key; Parse wants both complete,    *)
(* the CA valid now and the key that of the certificate.                   *)
ReadCert(c) == read' = [read EXCEPT ![c] = files[<<"ca", "cert">>].by]

MutParses(cert, key) ==
    /\ files[<<"ca", "key">>].whole
    /\ cert # Nobody
    /\ CAValid(cert)
Parses(cert, key) ==
    /\ files[<<"ca", "key">>].whole
    /\ cert # Nobody
    /\ CAValid(cert)
    /\ cert = key
KeyRead == files[<<"ca", "key">>].by

LoadCert(c) ==
    /\ cmd[c] = "loadCert"
    /\ IF files[<<"ca", "cert">>].whole
       THEN ReadCert(c) /\ Goto(c, "loadKey")
       ELSE Goto(c, "failed") /\ UNCHANGED read
    /\ UNCHANGED <<time, target, files, born, daemon, ca, leaves>>

(* The CA must also outlast the backdated start of the new certificate.    *)
Outlasts(cert) == Max2(clock - Backdate, CANotBefore(cert)) + Backdate
                     < CANotAfter(cert)

LoadKey(c) ==
    /\ cmd[c] = "loadKey"
    /\ IF Parses(read[c], KeyRead) /\ Outlasts(read[c])
       THEN Goto(c, "openCert")
       ELSE Goto(c, "failed")
    /\ UNCHANGED <<time, target, files, born, read, daemon, ca, leaves>>

(* writeExclusive: O_EXCL creates the file empty, or fails, also for       *)
(* reasons of the file system; the certificate is removed when the key     *)
(* cannot be created.                                                      *)
MutExclusive(path) == TRUE
Exclusive(path)    == files[path] = Absent

Open(c, part, at, next, otherwise) ==
    /\ cmd[c] = at
    /\ LET path == <<target[c], part>>
       IN  \/ /\ Exclusive(path)
              /\ Put(path, [by |-> c, whole |-> FALSE])
              /\ Goto(c, next)
           \/ /\ Goto(c, otherwise)
              /\ UNCHANGED files
    /\ UNCHANGED <<time, target, born, read, daemon, ca, leaves>>

(* The data is written and the file closed, or the file is removed.        *)
Write(c, part, at, next, otherwise) ==
    /\ cmd[c] = at
    /\ LET path == <<target[c], part>>
       IN  \/ /\ Put(path, [by |-> c, whole |-> TRUE])
              /\ Goto(c, next)
           \/ /\ Put(path, Absent)
              /\ Goto(c, otherwise)
    /\ UNCHANGED <<time, target, born, read, daemon, ca, leaves>>

OpenCert(c)  == Open(c, "cert", "openCert", "writeCert", "failed")
WriteCert(c) == Write(c, "cert", "writeCert", "openKey", "failed")
OpenKey(c)   == Open(c, "key", "openKey", "writeKey", "undo")
WriteKey(c)  == Write(c, "key", "writeKey", "done", "undo")

MutUndo(c) ==
    /\ cmd[c] = "undo"
    /\ Goto(c, "failed")
    /\ UNCHANGED <<time, target, files, born, read, daemon, ca, leaves>>
Undo(c) ==
    /\ cmd[c] = "undo"
    /\ Put(<<target[c], "cert">>, Absent)
    /\ Goto(c, "failed")
    /\ UNCHANGED <<time, target, born, read, daemon, ca, leaves>>

Kill(c) ==
    /\ cmd[c] \notin Ended \cup {"idle"}
    /\ Goto(c, "killed")
    /\ UNCHANGED <<time, target, files, born, read, daemon, ca, leaves>>
-----------------------------------------------------------------------------
(* The daemon loads the CA, or does without if neither of its files is     *)
(* there (runServe).  A start that fails may be repeated.                  *)
MutNoCA == \E part \in Parts : files[<<"ca", part>>] = Absent
NoCA    == \A part \in Parts : files[<<"ca", part>>] = Absent

DaemonWithoutCA ==
    /\ daemon = "down"
    /\ NoCA
    /\ daemon' = "opaque"
    /\ UNCHANGED <<time, commands, read, ca, leaves>>

DaemonReadsCert ==
    /\ daemon = "down"
    /\ files[<<"ca", "cert">>].whole
    /\ ReadCert(Nobody)
    /\ daemon' = "loading"
    /\ UNCHANGED <<time, commands, ca, leaves>>

DaemonReadsKey ==
    /\ daemon = "loading"
    /\ IF Parses(read[Nobody], KeyRead)
       THEN /\ daemon' = "up"
            /\ ca' = [cert |-> read[Nobody], key |-> KeyRead]
       ELSE /\ daemon' = "down"
            /\ UNCHANGED ca
    /\ UNCHANGED <<time, commands, read, leaves>>
-----------------------------------------------------------------------------
Cached(c) == {h \in Hosts : c[h].cached}

(* A cached leaf is used unless the clock was set back before its issue or *)
(* has come close to its end.                                              *)
MutHit(h) ==
    /\ cache[h].cached
    /\ clock + Margin < cache[h].leaf.notAfter
Hit(h) ==
    /\ cache[h].cached
    /\ cache[h].leaf.issuedAt <= clock
    /\ clock + Margin < cache[h].leaf.notAfter

NewLeaf ==
    [issuedAt  |-> clock,
     notBefore |-> Max2(clock - Skew, CANotBefore(ca.cert)),
     notAfter  |-> Min2(clock + Lifetime, CANotAfter(ca.cert))]
MutIssuable == TRUE
Issuable    == clock + Margin < NewLeaf.notAfter

(* A full cache loses its expired leaves, and if that is not enough the    *)
(* one used longest ago, the first by name among equals.                   *)
Purged ==
    IF Cardinality(Cached(cache)) < MaxCached THEN cache
    ELSE [h \in Hosts |->
            IF cache[h].leaf.notAfter <= clock THEN NoEntry ELSE cache[h]]
Oldest(c) ==
    CHOOSE h \in Cached(c) : \A g \in Cached(c) :
        \/ c[h].lastUsed < c[g].lastUsed
        \/ c[h].lastUsed = c[g].lastUsed /\ h <= g
MutEvicted == Purged
Evicted ==
    IF Cardinality(Cached(Purged)) < MaxCached THEN Purged
    ELSE [Purged EXCEPT ![Oldest(Purged)] = NoEntry]

(* certificateFor returns leaf; its error returns change nothing.          *)
CertificateFor(h, leaf) ==
    \/ /\ Hit(h)
       /\ leaf = cache[h].leaf
       /\ cache' = [cache EXCEPT ![h].lastUsed = clock]
    \/ /\ ~Hit(h)
       /\ Issuable
       /\ leaf = NewLeaf
       /\ cache' = [Evicted EXCEPT
                       ![h] = [leaf |-> leaf, lastUsed |-> clock,
                               cached |-> TRUE]]

(* The leaf certificateFor hands out now, if it does.                      *)
LeafFor(h) == IF Hit(h) THEN cache[h].leaf ELSE NewLeaf

(* CONNECT: TLSConfig makes sure that a leaf can be had.                   *)
Connect(s, h) ==
    /\ daemon = "up"
    /\ config[s] = NoHost
    /\ CertificateFor(h, LeafFor(h))
    /\ config' = [config EXCEPT ![s] = h]
    /\ UNCHANGED <<time, commands, read, daemon, ca, shown>>

(* GetCertificate of that config, with the SNI of the CONNECT host.        *)
Show(leaf) == shown' = [leaf |-> leaf, at |-> clock, served |-> TRUE]

MutHandshake(s) ==
    /\ config[s] # NoHost
    /\ cache[config[s]].cached
    /\ Show(cache[config[s]].leaf)
    /\ config' = [config EXCEPT ![s] = NoHost]
    /\ UNCHANGED <<time, commands, read, daemon, ca, cache>>
Handshake(s) ==
    /\ config[s] # NoHost
    /\ CertificateFor(config[s], LeafFor(config[s]))
    /\ Show(LeafFor(config[s]))
    /\ config' = [config EXCEPT ![s] = NoHost]
    /\ UNCHANGED <<time, commands, read, daemon, ca>>

(* The handshake fails: another SNI, no leaf to be had, or a client that   *)
(* hung up.                                                                *)
NoHandshake(s) ==
    /\ config[s] # NoHost
    /\ config' = [config EXCEPT ![s] = NoHost]
    /\ UNCHANGED <<time, commands, read, daemon, ca, cache, shown>>
-----------------------------------------------------------------------------
CommandStep(c) ==
    \/ Begin(c) \/ LoadCert(c) \/ LoadKey(c)
    \/ OpenCert(c) \/ WriteCert(c) \/ OpenKey(c) \/ WriteKey(c)
    \/ Undo(c) \/ Kill(c)

SessionStep(s) ==
    \/ \E h \in Hosts : Connect(s, h)
    \/ Handshake(s)
    \/ NoHandshake(s)

Next ==
    \/ Tick
    \/ StepBack
    \/ \E c \in Commands : CommandStep(c)
    \/ DaemonWithoutCA
    \/ DaemonReadsCert
    \/ DaemonReadsKey
    \/ \E s \in Sessions : SessionStep(s)

Spec == Init /\ [][Next]_vars
-----------------------------------------------------------------------------
(* Every variable has its type, and the cache never exceeds its limit,     *)
(* also when the entry to be replaced is the one that is renewed.          *)
TypeOK ==
    /\ clock \in Times
    /\ steps \in 0..MaxSteps
    /\ target \in [Commands -> {"ca", "proxy"}]
    /\ files \in [Paths -> Content]
    /\ born \in [Pairs -> Times]
    /\ cmd \in [Commands -> Points]
    /\ read \in [Commands \cup {Nobody} -> Pairs \cup {Nobody}]
    /\ daemon \in {"down", "loading", "up", "opaque"}
    /\ ca \in [cert: Pairs \cup {Nobody}, key: Pairs \cup {Nobody}]
    /\ cache \in [Hosts -> Entry]
    /\ Cardinality(Cached(cache)) <= MaxCached
    /\ config \in [Sessions -> Hosts \cup {NoHost}]
    /\ shown \in Shown

(* A client is never shown a leaf that is about to expire or that its      *)
(* clock, up to Skew behind the host's, would take for not yet valid, also *)
(* after the host slept or its clock was set back, and also when the       *)
(* config is older than the cached leaf (authority.go:150-174).  Only the  *)
(* validity of the CA itself takes precedence (authority.go:182-194).      *)
LeafFresh ==
    shown.served =>
        /\ shown.at + Margin < shown.leaf.notAfter
        /\ shown.leaf.notBefore <= Max2(shown.at - Skew, CANotBefore(ca.cert))
        /\ CANotBefore(ca.cert) <= shown.leaf.notBefore
        /\ shown.leaf.notAfter <= CANotAfter(ca.cert)

(* The daemon never runs with a certificate and a key of different         *)
(* commands, though it reads them one after the other while a command may  *)
(* remove one pair and another write its own (authority.go:105-113).       *)
LoadedPairMatches ==
    daemon = "up" => ca.cert # Nobody /\ ca.key = ca.cert

(* What a client is shown verifies: a fresh leaf, signed with the key of   *)
(* the certificate it was told to trust, from a cache within its bound.    *)
LeafVerifies == TypeOK /\ LoadedPairMatches /\ LeafFresh

(* A CA of which something is left on disk is never passed over: a daemon  *)
(* started with half a pair, or a damaged one, does not come up with       *)
(* opaque tunnels in place of interception (main.go:280-298).              *)
LeftoverNeverOpaque ==
    daemon = "opaque" => \A part \in Parts : files[<<"ca", part>>].by # Earlier

(* "ca init" and "ca sign" leave both of their files or none: concurrent   *)
(* runs do not overwrite or remove each other's files, and one that fails  *)
(* half way takes its certificate back (authority.go:297-300, 369-372).    *)
WholePairs ==
    \A c \in Commands :
        /\ cmd[c] = "done" => \A part \in Parts :
              files[<<target[c], part>>] = [by |-> c, whole |-> TRUE]
        /\ cmd[c] = "failed" => \A p \in Paths : files[p].by # c
=============================================================================
