------------------------ MODULE CertAuthority_proofs ------------------------
(***************************************************************************)
(* Proofs about CertAuthority, for any commands, hosts and sessions, any   *)
(* lifetimes and margins, any size of the cache and any clock.             *)
(***************************************************************************)
EXTENDS CertAuthority, FiniteSetTheorems, WellFoundedInduction, TLAPS

USE CommandAssumption, CacheAssumption, TimeAssumption

-----------------------------------------------------------------------------
(* Pairs of files.                                                         *)

(* Where in the writing of its pair a command has which of its own files.  *)
Before    == {"idle", "loadCert", "loadKey", "openCert"}
WithCert  == {"openKey", "writeKey", "undo"}

FileType ==
    /\ target \in [Commands -> {"ca", "proxy"}]
    /\ files \in [Paths -> Content]
    /\ cmd \in [Commands -> Points]

(* What a command finds in the files it writes: what it has written so     *)
(* far, and nothing else of its own anywhere.                              *)
CertOf(c) == files[<<target[c], "cert">>]
KeyOf(c)  == files[<<target[c], "key">>]

OwnFiles(c) ==
    /\ \A p \in Paths : files[p].by = c => p[1] = target[c]
    /\ cmd[c] \in Before \cup {"failed"} => CertOf(c).by # c
    /\ cmd[c] \in Before \cup {"failed", "writeCert", "openKey", "undo"}
          => KeyOf(c).by # c
    /\ cmd[c] = "writeCert" => CertOf(c).by = c
    /\ cmd[c] \in WithCert => CertOf(c) = [by |-> c, whole |-> TRUE]
    /\ cmd[c] = "writeKey" => KeyOf(c).by = c
    /\ cmd[c] = "done" => /\ CertOf(c) = [by |-> c, whole |-> TRUE]
                          /\ KeyOf(c) = [by |-> c, whole |-> TRUE]

FilesInv == FileType /\ \A c \in Commands : OwnFiles(c)

(* At the start no file is of a command of now.                            *)
LEMMA InitFiles == Init => FilesInv
<1> SUFFICES ASSUME Init PROVE FilesInv
  OBVIOUS
<1>1. Left \subseteq Content
  BY DEF Left, Content, Pairs
<1>2. FileType
  BY <1>1 DEF Init, FileType, Points
<1>3. ASSUME NEW c \in Commands, NEW p \in Paths PROVE files[p].by # c
  <2>1. files[p] \in Left
    BY DEF Init
  <2>2. QED
    BY <2>1 DEF Left, Absent
<1>4. ASSUME NEW c \in Commands PROVE OwnFiles(c)
  <2>1. <<target[c], "cert">> \in Paths /\ <<target[c], "key">> \in Paths
    BY <1>2 DEF FileType, Paths, Parts
  <2>2. cmd[c] = "idle"
    BY DEF Init
  <2>3. QED
    BY <1>3, <2>1, <2>2 DEF OwnFiles, CertOf, KeyOf, WithCert
<1>5. QED
  BY <1>2, <1>4 DEF FilesInv

(* A change of one file that neither was of command c nor becomes so keeps *)
(* what c has.                                                             *)
LEMMA OthersKept ==
    ASSUME FilesInv, NEW c \in Commands,
           target' = target, cmd'[c] = cmd[c], NEW path \in Paths,
           files[path].by # c, NEW content, content.by # c,
           files' = [files EXCEPT ![path] = content]
    PROVE  OwnFiles(c)'
<1>1. <<target[c], "cert">> \in Paths /\ <<target[c], "key">> \in Paths
  BY DEF FilesInv, FileType, Paths, Parts
<1>2. DOMAIN files = Paths
  BY DEF FilesInv, FileType
<1>3. /\ CertOf(c)' # CertOf(c) => CertOf(c)' = content /\ CertOf(c).by # c
      /\ KeyOf(c)' # KeyOf(c) => KeyOf(c)' = content /\ KeyOf(c).by # c
  BY <1>1, <1>2 DEF CertOf, KeyOf
<1>4. OwnFiles(c)
  BY DEF FilesInv
<1>5. \A p \in Paths : files'[p].by = c => p[1] = target'[c]
  BY <1>2, <1>4 DEF OwnFiles
<1>6. CertOf(c).by = c => CertOf(c)' = CertOf(c)
  BY <1>3
<1>7. KeyOf(c).by = c => KeyOf(c)' = KeyOf(c)
  BY <1>3
<1>8. /\ CertOf(c).by # c => CertOf(c)'.by # c
      /\ KeyOf(c).by # c => KeyOf(c)'.by # c
  BY <1>3
<1>9. QED
  BY <1>4, <1>5, <1>6, <1>7, <1>8 DEF OwnFiles, WithCert

(* The steps of a command that change files.                               *)
FileStep(c) ==
    OpenCert(c) \/ WriteCert(c) \/ OpenKey(c) \/ WriteKey(c) \/ Undo(c)

(* Such a step leaves the files alone or changes one of its own pair,      *)
(* which was its own or absent.                                            *)
LEMMA FileStepShape ==
    ASSUME FilesInv, NEW c \in Commands, FileStep(c)
    PROVE  /\ target' = target
           /\ cmd' = [cmd EXCEPT ![c] = cmd'[c]]
           /\ cmd'[c] \in Points
           /\ \/ files' = files
              \/ \E part \in Parts,
                    content \in {Absent, [by |-> c, whole |-> TRUE],
                                 [by |-> c, whole |-> FALSE]} :
                    /\ files' = [files EXCEPT ![<<target[c], part>>] = content]
                    /\ files[<<target[c], part>>].by \in {c, Nobody}
<1>0. FileType /\ OwnFiles(c)
  BY DEF FilesInv
<1>1. CASE OpenCert(c)
  BY <1>0, <1>1 DEF OpenCert, Open, Goto, Put, Exclusive, Absent, FileType,
                    Points, Parts
<1>2. CASE OpenKey(c)
  BY <1>0, <1>2 DEF OpenKey, Open, Goto, Put, Exclusive, Absent, FileType,
                    Points, Parts
<1>3. CASE WriteCert(c)
  <2>1. files[<<target[c], "cert">>].by = c
    BY <1>0, <1>3 DEF WriteCert, Write, OwnFiles, CertOf
  <2>2. QED
    BY <1>0, <1>3, <2>1 DEF WriteCert, Write, Goto, Put, FileType, Points, Parts
<1>4. CASE WriteKey(c)
  <2>1. files[<<target[c], "key">>].by = c
    BY <1>0, <1>4 DEF WriteKey, Write, OwnFiles, KeyOf
  <2>2. QED
    BY <1>0, <1>4, <2>1 DEF WriteKey, Write, Goto, Put, FileType, Points, Parts
<1>5. CASE Undo(c)
  <2>1. files[<<target[c], "cert">>].by = c
    BY <1>0, <1>5 DEF Undo, OwnFiles, CertOf, WithCert
  <2>2. QED
    BY <1>0, <1>5, <2>1 DEF Undo, Goto, Put, FileType, Points, Parts
<1>6. QED
  BY <1>1, <1>2, <1>3, <1>4, <1>5 DEF FileStep

(* What a command has of its own depends on where it is, whether its last  *)
(* step on the files succeeded or failed.                                  *)
LEMMA OwnKept ==
    ASSUME FilesInv, NEW c \in Commands, FileStep(c)
    PROVE  OwnFiles(c)'
<1>0. FileType /\ OwnFiles(c)
  BY DEF FilesInv
<1>1. /\ <<target[c], "cert">> \in Paths /\ <<target[c], "key">> \in Paths
      /\ <<target[c], "cert">> # <<target[c], "key">>
      /\ DOMAIN files = Paths
  BY <1>0 DEF FileType, Paths, Parts
<1>2. target' = target /\ DOMAIN cmd = Commands
  BY <1>0, FileStepShape DEF FileType
<1>3. \A p \in Paths : files'[p].by = c => p[1] = target'[c]
  <2>1. CASE files' = files
    BY <1>0, <1>2, <2>1 DEF OwnFiles
  <2>2. CASE files' # files
    <3>1. PICK part \in Parts : \E content :
              files' = [files EXCEPT ![<<target[c], part>>] = content]
      BY <2>2, FileStepShape
    <3>2. ASSUME NEW p \in Paths, files'[p].by = c PROVE p[1] = target'[c]
      <4>1. p = <<target[c], part>> \/ files'[p] = files[p]
        BY <1>1, <3>1
      <4>2. QED
        BY <1>0, <1>2, <3>2, <4>1 DEF OwnFiles
    <3>3. QED
      BY <3>2
  <2>3. QED
    BY <2>1, <2>2
<1>4. c # Nobody
  OBVIOUS
<1> USE <1>0, <1>1, <1>2, <1>3, <1>4
    DEF OwnFiles, CertOf, KeyOf, Before, WithCert, Goto, Put, Absent
<1>5. CASE OpenCert(c)
  BY <1>5 DEF OpenCert, Open
<1>6. CASE WriteCert(c)
  BY <1>6 DEF WriteCert, Write
<1>7. CASE OpenKey(c)
  BY <1>7 DEF OpenKey, Open
<1>8. CASE WriteKey(c)
  BY <1>8 DEF WriteKey, Write
<1>9. CASE Undo(c)
  BY <1>9 DEF Undo
<1>10. QED
  BY <1>5, <1>6, <1>7, <1>8, <1>9 DEF FileStep

(* A step on the files keeps the invariant of every command.               *)
LEMMA FileStepKept ==
    ASSUME FilesInv, NEW c \in Commands, FileStep(c)
    PROVE  FilesInv'
<1>1. FileType'
  <2>1. {Absent, [by |-> c, whole |-> TRUE], [by |-> c, whole |-> FALSE]}
            \subseteq Content
    BY DEF Content, Pairs
  <2>2. files' \in [Paths -> Content]
    <3>1. files \in [Paths -> Content]
      BY DEF FilesInv, FileType
    <3>2. QED
      BY <2>1, <3>1, FileStepShape
  <2>3. QED
    BY <2>2, FileStepShape DEF FilesInv, FileType
<1>2. ASSUME NEW d \in Commands, d # c PROVE OwnFiles(d)'
  <2>1. cmd'[d] = cmd[d] /\ target' = target
    BY <1>2, FileStepShape DEF FilesInv, FileType
  <2>2. CASE files' = files
    BY <2>1, <2>2 DEF FilesInv, OwnFiles, CertOf, KeyOf
  <2>3. ASSUME NEW part \in Parts,
               NEW content \in {Absent, [by |-> c, whole |-> TRUE],
                                [by |-> c, whole |-> FALSE]},
               files' = [files EXCEPT ![<<target[c], part>>] = content],
               files[<<target[c], part>>].by \in {c, Nobody}
        PROVE  OwnFiles(d)'
    <3>1. <<target[c], part>> \in Paths
      BY DEF FilesInv, FileType, Paths
    <3>2. content.by # d /\ files[<<target[c], part>>].by # d
      BY <1>2, <2>3 DEF Absent
    <3>3. QED
      BY <1>2, <2>1, <2>3, <3>1, <3>2, OthersKept
  <2>4. QED
    BY <2>2, <2>3, FileStepShape
<1>3. QED
  BY <1>1, <1>2, OwnKept DEF FilesInv

(* Steps that change no file: a command begins, loads the CA or is killed. *)
LEMMA OtherStepKept ==
    ASSUME FilesInv, NEW c \in Commands,
           Begin(c) \/ LoadCert(c) \/ LoadKey(c) \/ Kill(c)
    PROVE  FilesInv'
<1>1. target' = target /\ files' = files
  BY DEF Begin, LoadCert, LoadKey, Kill
<1>2. cmd' = [cmd EXCEPT ![c] = cmd'[c]]
  BY DEF FilesInv, FileType, Begin, LoadCert, LoadKey, Kill, Goto
<1>3. \/ cmd[c] \in Before /\ cmd'[c] \in Before \cup {"failed"}
      \/ cmd'[c] = "killed"
  BY DEF FilesInv, FileType, Begin, LoadCert, LoadKey, Kill, Goto, Before
<1>4. FileType'
  BY <1>1, <1>2, <1>3 DEF FilesInv, FileType, Before, Points
<1>5. ASSUME NEW d \in Commands PROVE OwnFiles(d)'
  <2>1. OwnFiles(d)
    BY DEF FilesInv
  <2>2. CertOf(d)' = CertOf(d) /\ KeyOf(d)' = KeyOf(d)
    BY <1>1 DEF CertOf, KeyOf
  <2>3. CASE d = c
    BY <1>1, <1>3, <2>1, <2>2, <2>3 DEF OwnFiles, Before, WithCert
  <2>4. CASE d # c
    <3>1. cmd'[d] = cmd[d]
      BY <1>2, <2>4 DEF FilesInv, FileType
    <3>2. QED
      BY <1>1, <2>1, <2>2, <3>1 DEF OwnFiles
  <2>5. QED
    BY <2>3, <2>4
<1>6. QED
  BY <1>4, <1>5 DEF FilesInv

(* Every step keeps the invariant of the files.                            *)
LEMMA FilesKept ==
    ASSUME FilesInv, [Next]_vars
    PROVE  FilesInv'
<1>1. ASSUME NEW c \in Commands, CommandStep(c) PROVE FilesInv'
  BY <1>1, FileStepKept, OtherStepKept DEF CommandStep, FileStep
<1>2. CASE UNCHANGED <<target, files, cmd>>
  BY <1>2 DEF FilesInv, FileType, OwnFiles, CertOf, KeyOf
<1>3. ASSUME NEW s \in Sessions, SessionStep(s)
      PROVE  UNCHANGED <<target, files, cmd>>
  BY <1>3 DEF SessionStep, Connect, Handshake, NoHandshake, commands
<1>4. CASE Tick \/ StepBack \/ DaemonWithoutCA \/ DaemonReadsCert
           \/ DaemonReadsKey
  BY <1>2, <1>4 DEF Tick, StepBack, DaemonWithoutCA, DaemonReadsCert,
                    DaemonReadsKey, commands
<1>5. QED
  BY <1>1, <1>2, <1>3, <1>4 DEF Next, vars

(* "ca init" and "ca sign" leave both of their files or none, whatever     *)
(* runs at the same time (authority.go:297-300, 369-372).                  *)
THEOREM FilesWhole == Spec => []WholePairs
<1>1. FilesInv /\ [Next]_vars => FilesInv'
  BY FilesKept
<1>2. FilesInv => WholePairs
  <2> SUFFICES ASSUME FilesInv, NEW c \in Commands
               PROVE  /\ cmd[c] = "done" => \A part \in Parts :
                           files[<<target[c], part>>] = [by |-> c, whole |-> TRUE]
                      /\ cmd[c] = "failed" => \A p \in Paths : files[p].by # c
    BY DEF WholePairs
  <2>1. FileType /\ OwnFiles(c)
    BY DEF FilesInv
  <2>2. ASSUME NEW p \in Paths, p[1] = target[c]
        PROVE  files[p] \in {CertOf(c), KeyOf(c)}
    BY <2>1, <2>2 DEF Paths, Parts, CertOf, KeyOf
  <2>3. ASSUME cmd[c] = "done", NEW part \in Parts
        PROVE  files[<<target[c], part>>] = [by |-> c, whole |-> TRUE]
    BY <2>1, <2>3 DEF OwnFiles, CertOf, KeyOf, Parts
  <2>4. ASSUME cmd[c] = "failed", NEW p \in Paths PROVE files[p].by # c
    BY <2>1, <2>2, <2>4 DEF OwnFiles
  <2>5. QED
    BY <2>3, <2>4
<1>3. QED
  BY InitFiles, <1>1, <1>2, PTL DEF Spec
-----------------------------------------------------------------------------
(* The cache.                                                              *)

(* A nonempty set of naturals has a least element.                         *)
LEMMA LeastNat ==
    ASSUME NEW T \in SUBSET Nat, T # {}
    PROVE  \E x \in T : \A y \in T : x <= y
<1>1. PICK x \in T : \A y \in T : <<y, x>> \notin OpToRel(<, Nat)
  BY WFMin, NatLessThanWellFounded
<1>2. \A y \in T : ~(y < x)
  BY <1>1 DEF OpToRel
<1>3. QED
  BY <1>2

(* Among cached leaves there is one used longest ago, and evicting it      *)
(* takes it from the cache.                                                *)
LEMMA OldestCached ==
    ASSUME NEW c \in [Hosts -> Entry], Cached(c) # {}
    PROVE  Oldest(c) \in Cached(c)
<1> DEFINE used == {c[h].lastUsed : h \in Cached(c)}
<1>1. used \in SUBSET Nat /\ used # {}
  <2>1. \A h \in Cached(c) : c[h].lastUsed \in Nat
    BY DEF Cached, Entry, Times
  <2>2. QED
    BY <2>1
<1> HIDE DEF used
<1>2. PICK u \in used : \A v \in used : u <= v
  BY <1>1, LeastNat
<1> DEFINE last == {h \in Cached(c) : c[h].lastUsed = u}
<1>3. last \in SUBSET Nat /\ last # {}
  BY DEF Cached, used
<1> HIDE DEF last
<1>4. PICK h \in last : \A g \in last : h <= g
  BY <1>3, LeastNat
<1>5. h \in Cached(c)
  BY DEF last
<1>6. ASSUME NEW g \in Cached(c)
      PROVE  \/ c[h].lastUsed < c[g].lastUsed
             \/ c[h].lastUsed = c[g].lastUsed /\ h <= g
  <2>1. c[h].lastUsed = u /\ c[g].lastUsed \in used
    BY DEF last, used
  <2>2. CASE g \in last
    BY <1>4, <2>1, <2>2 DEF last
  <2>3. CASE g \notin last
    <3>1. c[g].lastUsed # u
      BY <2>3 DEF last
    <3>2. u \in Nat /\ c[g].lastUsed \in Nat /\ u <= c[g].lastUsed
      BY <1>1, <1>2, <2>1
    <3>3. QED
      BY <2>1, <3>1, <3>2
  <2>4. QED
    BY <2>2, <2>3
<1>7. QED
  BY <1>5, <1>6, Zenon DEF Oldest

(* Before a leaf is added there is room for it, and what is left in the    *)
(* cache is what was there.                                                *)
LEMMA RoomMade ==
    ASSUME TypeOK
    PROVE  /\ Evicted \in [Hosts -> Entry]
           /\ Cardinality(Cached(Evicted)) < MaxCached
           /\ \A h \in Hosts : Evicted[h].cached => Evicted[h] = cache[h]
<1>1. NoEntry \in Entry /\ ~NoEntry.cached
  BY DEF NoEntry, Entry, NoLeaf, Leaf, Times
<1>2. /\ Purged \in [Hosts -> Entry]
      /\ \A h \in Hosts : Purged[h].cached => Purged[h] = cache[h]
  BY <1>1 DEF TypeOK, Purged
<1>3. \A c : IsFiniteSet(Cached(c)) /\ Cardinality(Cached(c)) \in Nat
  <2>1. \A c : Cached(c) \in SUBSET Hosts
    BY DEF Cached
  <2>2. QED
    BY <2>1, FS_Subset, FS_CardinalityType
<1>4. CASE Cardinality(Cached(Purged)) < MaxCached
  BY <1>2, <1>4 DEF Evicted
<1>5. CASE ~(Cardinality(Cached(Purged)) < MaxCached)
  <2>1. Cached(Purged) \subseteq Cached(cache)
    BY <1>2 DEF Cached
  <2>2. Cardinality(Cached(Purged)) <= MaxCached
    <3>1. Cardinality(Cached(Purged)) <= Cardinality(Cached(cache))
      BY <1>3, <2>1, FS_Subset
    <3>2. QED
      BY <1>3, <3>1 DEF TypeOK
  <2>3. Cached(Purged) # {}
    BY <1>3, <1>5, FS_EmptySet
  <2> DEFINE old == Oldest(Purged)
  <2>4. old \in Cached(Purged)
    BY <1>2, <2>3, OldestCached
  <2>5. Evicted = [Purged EXCEPT ![old] = NoEntry]
    BY <1>5 DEF Evicted
  <2> HIDE DEF old
  <2>6. Cached(Evicted) = Cached(Purged) \ {old}
    BY <1>1, <1>2, <2>4, <2>5 DEF Cached
  <2>7. Cardinality(Cached(Evicted)) = Cardinality(Cached(Purged)) - 1
    BY <1>3, <2>4, <2>6, FS_RemoveElement
  <2>8. Cardinality(Cached(Evicted)) < MaxCached
    BY <1>3, <2>2, <2>7
  <2>9. QED
    BY <1>1, <1>2, <2>4, <2>5, <2>8 DEF Cached
<1>6. QED
  BY <1>4, <1>5
-----------------------------------------------------------------------------
(* Leaves.                                                                 *)

(* Only a running daemon has sessions and leaves, and its CA is a pair.    *)
DaemonInv ==
    /\ LoadedPairMatches
    /\ daemon # "up" => /\ ~shown.served
                        /\ \A h \in Hosts : ~cache[h].cached
                        /\ \A s \in Sessions : config[s] = NoHost

(* Whatever the clock did since, a leaf has the validity it was issued     *)
(* with, within that of the CA.                                            *)
FromCA(leaf) ==
    /\ leaf.notBefore = Max2(leaf.issuedAt - Skew, CANotBefore(ca.cert))
    /\ leaf.notAfter = Min2(leaf.issuedAt + Lifetime, CANotAfter(ca.cert))

CacheInv == \A h \in Hosts : cache[h].cached => FromCA(cache[h].leaf)

LeafInv == TypeOK /\ DaemonInv /\ CacheInv /\ LeafFresh

(* A leaf that may be shown now.                                           *)
Fresh(leaf) ==
    /\ clock + Margin < leaf.notAfter
    /\ leaf.notBefore <= Max2(clock - Skew, CANotBefore(ca.cert))
    /\ CANotBefore(ca.cert) <= leaf.notBefore
    /\ leaf.notAfter <= CANotAfter(ca.cert)

(* The empty leaf is well typed, though no certificate.                    *)
LEMMA EmptyTyped ==
    NoLeaf \in Leaf /\ NoEntry \in Entry /\ NoShown \in Shown
BY DEF NoLeaf, Leaf, NoEntry, Entry, NoShown, Shown, Times

(* The initial state: nothing runs and nothing is cached.                  *)
LEMMA InitLeaf == Init => LeafInv
<1> SUFFICES ASSUME Init PROVE LeafInv
  OBVIOUS
<1>1. Cached(cache) = {} /\ Cardinality(Cached(cache)) = 0
  <2>1. Cached(cache) = {}
    BY DEF Init, Cached, NoEntry
  <2>2. QED
    BY <2>1, FS_EmptySet
<1>2. cache \in [Hosts -> Entry] /\ shown \in Shown
  BY EmptyTyped DEF Init
<1>3. FilesInv
  BY InitFiles
<1>4. TypeOK
  BY <1>1, <1>2, <1>3 DEF Init, TypeOK, FilesInv, FileType, Times, Pairs
<1>5. DaemonInv /\ CacheInv /\ LeafFresh
  BY DEF Init, DaemonInv, LoadedPairMatches, CacheInv, LeafFresh, NoShown,
         NoEntry
<1>6. QED
  BY <1>4, <1>5 DEF LeafInv

(* What a daemon issues or takes from its cache is fresh, and the cache    *)
(* keeps its bound, also when the entry it renews is the one to evict.     *)
LEMMA CertificateForFresh ==
    ASSUME LeafInv, daemon = "up", NEW h \in Hosts,
           CertificateFor(h, LeafFor(h)), UNCHANGED <<born, ca>>
    PROVE  /\ LeafFor(h) \in Leaf
           /\ Fresh(LeafFor(h))
           /\ cache' \in [Hosts -> Entry]
           /\ Cardinality(Cached(cache')) <= MaxCached
           /\ CacheInv'
<1>1. /\ ca.cert \in Pairs
      /\ CANotBefore(ca.cert) \in Int
      /\ CANotAfter(ca.cert) \in Int
  <2>1. ca.cert \in Pairs
    BY DEF LeafInv, DaemonInv, LoadedPairMatches, TypeOK
  <2>2. born[ca.cert] \in Times
    BY <2>1 DEF LeafInv, TypeOK
  <2>3. QED
    BY <2>1, <2>2 DEF CANotBefore, CANotAfter, Times
<1>2. clock \in Times /\ clock \in Nat
  BY DEF LeafInv, TypeOK, Times
<1>3. /\ cache \in [Hosts -> Entry]
      /\ CacheInv
      /\ Cardinality(Cached(cache)) <= MaxCached
  BY DEF LeafInv, TypeOK
<1>4. ASSUME NEW leaf, FromCA(leaf) PROVE FromCA(leaf)'
  BY <1>4 DEF FromCA, CANotBefore, CANotAfter
<1>5. CASE Hit(h)
  <2>1. /\ LeafFor(h) = cache[h].leaf
        /\ cache' = [cache EXCEPT ![h].lastUsed = clock]
    BY <1>5 DEF LeafFor, CertificateFor
  <2>2. /\ cache[h].leaf \in Leaf
        /\ FromCA(cache[h].leaf)
        /\ cache[h].leaf.issuedAt <= clock
        /\ clock + Margin < cache[h].leaf.notAfter
    BY <1>3, <1>5 DEF Hit, Entry, CacheInv
  <2>3. Fresh(cache[h].leaf)
    BY <1>1, <1>2, <2>2 DEF Fresh, FromCA, Leaf, Max2, Min2, Times
  <2>4. cache' \in [Hosts -> Entry]
    <3>1. [cache[h] EXCEPT !.lastUsed = clock] \in Entry
      BY <1>2, <1>3 DEF Entry
    <3>2. QED
      BY <1>3, <2>1, <3>1
  <2>5. \A g \in Hosts : /\ cache'[g].cached = cache[g].cached
                         /\ cache'[g].leaf = cache[g].leaf
    BY <1>3, <2>1 DEF Entry
  <2>6. Cached(cache') = Cached(cache)
    BY <2>5 DEF Cached
  <2>7. CacheInv'
    BY <1>3, <1>4, <2>5 DEF CacheInv
  <2>8. QED
    BY <1>3, <2>1, <2>2, <2>3, <2>4, <2>6, <2>7
<1>6. CASE ~Hit(h)
  <2> DEFINE new == [leaf |-> NewLeaf, lastUsed |-> clock, cached |-> TRUE]
  <2>1. /\ LeafFor(h) = NewLeaf
        /\ cache' = [Evicted EXCEPT ![h] = new]
        /\ Issuable
    BY <1>6 DEF LeafFor, CertificateFor
  <2>2. /\ NewLeaf \in Leaf
        /\ FromCA(NewLeaf)
    BY <1>1, <1>2 DEF NewLeaf, Leaf, FromCA, Max2, Min2
  <2>3. Fresh(NewLeaf)
    BY <1>1, <1>2, <2>1 DEF Fresh, Issuable, NewLeaf, Max2, Min2
  <2>4. new \in Entry
    BY <1>2, <2>2 DEF Entry
  <2>5. /\ Evicted \in [Hosts -> Entry]
        /\ Cardinality(Cached(Evicted)) < MaxCached
        /\ \A g \in Hosts : Evicted[g].cached => Evicted[g] = cache[g]
    BY RoomMade DEF LeafInv
  <2>6. cache' \in [Hosts -> Entry]
    BY <2>1, <2>4, <2>5
  <2>7. Cardinality(Cached(cache')) <= MaxCached
    <3>1. Cached(cache') = Cached(Evicted) \cup {h}
      BY <2>1, <2>5 DEF Cached
    <3>2. IsFiniteSet(Cached(Evicted)) /\ Cardinality(Cached(Evicted)) \in Nat
      <4>1. Cached(Evicted) \in SUBSET Hosts
        BY DEF Cached
      <4>2. QED
        BY <4>1, FS_Subset, FS_CardinalityType
    <3>3. Cardinality(Cached(cache')) = IF h \in Cached(Evicted)
                                        THEN Cardinality(Cached(Evicted))
                                        ELSE Cardinality(Cached(Evicted)) + 1
      BY <3>1, <3>2, FS_AddElement
    <3> HIDE DEF new
    <3>4. QED
      BY <2>5, <3>2, <3>3
  <2>8. CacheInv'
    <3>1. ASSUME NEW g \in Hosts, cache'[g].cached
          PROVE  FromCA(cache'[g].leaf)
      BY <1>3, <2>1, <2>2, <2>5, <3>1 DEF CacheInv
    <3>2. QED
      BY <1>4, <3>1 DEF CacheInv
  <2>9. QED
    BY <2>1, <2>2, <2>3, <2>6, <2>7, <2>8
<1>7. QED
  BY <1>5, <1>6

(* Steps of the clock, of the commands and of the daemon's start: a        *)
(* command may begin only before the CA is loaded, so no certificate that  *)
(* is used changes.                                                        *)
LEMMA CAKept ==
    ASSUME LeafInv, UNCHANGED <<daemon, ca, cache, config, shown>>,
           daemon = "up" => born' = born, TypeOK'
    PROVE  LeafInv'
<1>1. DaemonInv'
  BY DEF LeafInv, DaemonInv, LoadedPairMatches
<1>2. CASE daemon = "up"
  <2>1. CANotBefore(ca.cert)' = CANotBefore(ca.cert)
        /\ CANotAfter(ca.cert)' = CANotAfter(ca.cert)
    BY <1>2 DEF CANotBefore, CANotAfter
  <2>2. CacheInv' /\ LeafFresh'
    BY <2>1 DEF LeafInv, CacheInv, FromCA, LeafFresh
  <2>3. QED
    BY <1>1, <2>2 DEF LeafInv
<1>3. CASE daemon # "up"
  BY <1>1, <1>3 DEF LeafInv, DaemonInv, CacheInv, LeafFresh
<1>4. QED
  BY <1>2, <1>3

(* A command leaves everything well typed and does not touch the daemon.   *)
LEMMA CommandTyped ==
    ASSUME TypeOK, NEW c \in Commands, CommandStep(c)
    PROVE  TypeOK' /\ UNCHANGED <<daemon, ca, cache, config, shown>>
           /\ (daemon = "up" => born' = born)
<1>1. FileStep(c) \/ Begin(c) \/ LoadCert(c) \/ LoadKey(c) \/ Kill(c)
  BY DEF CommandStep, FileStep
<1>2. UNCHANGED <<clock, steps, target, daemon, ca, cache, config, shown>>
  BY <1>1 DEF FileStep, OpenCert, WriteCert, OpenKey, WriteKey, Open, Write,
              Undo, Begin, LoadCert, LoadKey, Kill, time, leaves
<1>3. born' \in [Pairs -> Times] /\ (daemon = "up" => born' = born)
  BY <1>1 DEF FileStep, OpenCert, WriteCert, OpenKey, WriteKey, Open, Write,
              Undo, Begin, LoadCert, LoadKey, Kill, TypeOK, Pairs
<1>4. /\ files' \in [Paths -> Content]
      /\ cmd' \in [Commands -> Points]
  <2>1. {Absent, [by |-> c, whole |-> TRUE], [by |-> c, whole |-> FALSE]}
            \subseteq Content
    BY DEF Content, Pairs
  <2>2. /\ files \in [Paths -> Content]
        /\ cmd \in [Commands -> Points]
    BY DEF TypeOK
  <2>3. CASE FileStep(c)
    BY <2>1, <2>2, <2>3 DEF FileStep, OpenCert, WriteCert, OpenKey, WriteKey,
       Open, Write, Undo, Put, Goto, Points
  <2>4. CASE Begin(c) \/ LoadCert(c) \/ LoadKey(c) \/ Kill(c)
    BY <2>2, <2>4 DEF Begin, LoadCert, LoadKey, Kill, Goto, Points
  <2>5. QED
    BY <1>1, <2>3, <2>4
<1>5. read' \in [Commands \cup {Nobody} -> Pairs \cup {Nobody}]
  <2>1. files[<<"ca", "cert">>].by \in Pairs \cup {Nobody}
    BY DEF TypeOK, Paths, Parts, Content, Absent
  <2>2. read' = read \/ read' = [read EXCEPT ![c] = files[<<"ca", "cert">>].by]
    BY <1>1 DEF FileStep, OpenCert, WriteCert, OpenKey, WriteKey, Open, Write,
                Undo, Begin, LoadCert, LoadKey, Kill, ReadCert
  <2>3. QED
    BY <2>1, <2>2 DEF TypeOK
<1>6. QED
  BY <1>2, <1>3, <1>4, <1>5 DEF TypeOK

(* The start of the daemon: it has a CA only when the key it read is that  *)
(* of the certificate it read before.                                      *)
LEMMA StartKept ==
    ASSUME LeafInv, DaemonWithoutCA \/ DaemonReadsCert \/ DaemonReadsKey
    PROVE  LeafInv'
<1>1. /\ UNCHANGED <<clock, steps, target, files, born, cmd>>
      /\ UNCHANGED <<cache, config, shown>>
  BY DEF DaemonWithoutCA, DaemonReadsCert, DaemonReadsKey, time, commands,
         leaves
<1>2. /\ daemon # "up"
      /\ daemon' \in {"down", "loading", "up", "opaque"}
  BY DEF DaemonWithoutCA, DaemonReadsCert, DaemonReadsKey
<1>3. /\ ca' \in [cert: Pairs \cup {Nobody}, key: Pairs \cup {Nobody}]
      /\ daemon' = "up" => ca'.cert # Nobody /\ ca'.key = ca'.cert
  <2>1. read[Nobody] \in Pairs \cup {Nobody}
    BY DEF LeafInv, TypeOK
  <2>2. CASE DaemonReadsKey
    BY <2>1, <2>2 DEF DaemonReadsKey, Parses, LeafInv, TypeOK
  <2>3. CASE DaemonWithoutCA \/ DaemonReadsCert
    BY <2>3 DEF DaemonWithoutCA, DaemonReadsCert, LeafInv, TypeOK
  <2>4. QED
    BY <2>2, <2>3
<1>4. read' \in [Commands \cup {Nobody} -> Pairs \cup {Nobody}]
  <2>1. files[<<"ca", "cert">>].by \in Pairs \cup {Nobody}
    BY DEF LeafInv, TypeOK, Paths, Parts, Content, Absent
  <2>2. QED
    BY <2>1 DEF DaemonWithoutCA, DaemonReadsCert, DaemonReadsKey, ReadCert,
                LeafInv, TypeOK
<1>5. TypeOK'
  BY <1>1, <1>2, <1>3, <1>4 DEF LeafInv, TypeOK
<1>6. DaemonInv' /\ CacheInv' /\ LeafFresh'
  BY <1>1, <1>2, <1>3 DEF LeafInv, DaemonInv, LoadedPairMatches, CacheInv,
                          LeafFresh
<1>7. QED
  BY <1>5, <1>6 DEF LeafInv

(* The steps of a session: whatever leaf it is shown is fresh then.        *)
LEMMA SessionKept ==
    ASSUME LeafInv, NEW s \in Sessions, SessionStep(s)
    PROVE  LeafInv'
<1>1. /\ UNCHANGED <<clock, steps, target, files, born, cmd>>
      /\ UNCHANGED <<read, daemon, ca>>
  BY DEF SessionStep, Connect, Handshake, NoHandshake, time, commands
<1>2. config' \in [Sessions -> Hosts \cup {NoHost}]
  BY DEF SessionStep, Connect, Handshake, NoHandshake, LeafInv, TypeOK
<1>3. daemon = "up"
  BY DEF SessionStep, Connect, Handshake, NoHandshake, LeafInv, DaemonInv
<1>4. LoadedPairMatches'
  BY <1>1 DEF LeafInv, DaemonInv, LoadedPairMatches
<1>5. DaemonInv'
  BY <1>1, <1>3, <1>4 DEF DaemonInv
<1>6. CASE UNCHANGED cache /\ UNCHANGED shown
  BY <1>1, <1>2, <1>5, <1>6 DEF LeafInv, TypeOK, CacheInv, FromCA, LeafFresh,
                                CANotBefore, CANotAfter
<1>7. ASSUME NEW h \in Hosts, CertificateFor(h, LeafFor(h)),
             \/ UNCHANGED shown
             \/ Show(LeafFor(h))
      PROVE  LeafInv'
  <2>1. /\ LeafFor(h) \in Leaf
        /\ Fresh(LeafFor(h))
        /\ cache' \in [Hosts -> Entry]
        /\ Cardinality(Cached(cache')) <= MaxCached
        /\ CacheInv'
    BY <1>1, <1>3, <1>7, CertificateForFresh
  <2> HIDE DEF LeafFor
  <2>2. shown' \in Shown
    <3>1. shown \in Shown /\ clock \in Times
      BY DEF LeafInv, TypeOK
    <3>2. [leaf |-> LeafFor(h), at |-> clock, served |-> TRUE] \in Shown
      BY <2>1, <3>1 DEF Shown
    <3>3. QED
      BY <1>7, <3>1, <3>2 DEF Show
  <2>3. TypeOK'
    <3>1. Cached(cache)' = Cached(cache')
      BY DEF Cached
    <3>2. QED
      BY <1>1, <1>2, <2>1, <2>2, <3>1 DEF LeafInv, TypeOK
  <2>4. LeafFresh'
    BY <1>1, <1>7, <2>1 DEF LeafInv, LeafFresh, Show, Fresh, CANotBefore,
                            CANotAfter
  <2>5. QED
    BY <1>5, <2>1, <2>3, <2>4 DEF LeafInv
<1>8. QED
  <2>1. ASSUME NEW h \in Hosts, Connect(s, h) PROVE LeafInv'
    BY <1>7, <2>1 DEF Connect
  <2>2. CASE Handshake(s)
    <3>1. config[s] \in Hosts
      BY <2>2 DEF Handshake, LeafInv, TypeOK
    <3>2. QED
      BY <1>7, <2>2, <3>1 DEF Handshake
  <2>3. CASE NoHandshake(s)
    BY <1>6, <2>3 DEF NoHandshake
  <2>4. QED
    BY <2>1, <2>2, <2>3 DEF SessionStep

(* A client is only ever shown leaves of one CA pair that are neither      *)
(* about to expire nor not yet valid, from a cache within its bound        *)
(* (authority.go:105-113, 150-194).                                        *)
THEOREM LeavesVerify == Spec => []LeafVerifies
<1>1. LeafInv /\ [Next]_vars => LeafInv'
  <2> SUFFICES ASSUME LeafInv, [Next]_vars PROVE LeafInv'
    OBVIOUS
  <2>1. TypeOK
    BY DEF LeafInv
  <2>2. CASE Tick \/ StepBack
    <3>1. /\ UNCHANGED <<target, files, born, cmd, read>>
          /\ UNCHANGED <<daemon, ca, cache, config, shown>>
          /\ clock' \in Times /\ steps' \in 0..MaxSteps
      BY <2>1, <2>2 DEF Tick, StepBack, commands, leaves, TypeOK, Times
    <3>2. TypeOK'
      BY <2>1, <3>1 DEF TypeOK
    <3>3. QED
      BY <3>1, <3>2, CAKept
  <2>3. ASSUME NEW c \in Commands, CommandStep(c) PROVE LeafInv'
    BY <2>1, <2>3, CommandTyped, CAKept
  <2>4. CASE UNCHANGED vars
    <3>1. TypeOK'
      BY <2>1, <2>4 DEF vars, TypeOK
    <3>2. QED
      BY <2>4, <3>1, CAKept DEF vars
  <2>5. QED
    BY <2>2, <2>3, <2>4, StartKept, SessionKept DEF Next
<1>2. LeafInv => LeafVerifies
  BY DEF LeafInv, DaemonInv, LeafVerifies
<1>3. QED
  BY InitLeaf, <1>1, <1>2, PTL DEF Spec

(* A CA of which something is left on disk is never passed over for opaque *)
(* tunnels (main.go:280-298).                                              *)
THEOREM NoLeftoverOpaque == Spec => []LeftoverNeverOpaque
<1>1. Init => FilesInv /\ LeftoverNeverOpaque
  BY InitFiles DEF Init, LeftoverNeverOpaque
<1>2. FilesInv /\ [Next]_vars => FilesInv'
  BY FilesKept
<1>3. FilesInv /\ LeftoverNeverOpaque /\ [Next]_vars => LeftoverNeverOpaque'
  <2> SUFFICES ASSUME FilesInv, LeftoverNeverOpaque, [Next]_vars
               PROVE  LeftoverNeverOpaque'
    OBVIOUS
  <2>1. ASSUME NEW c \in Commands, FileStep(c)
        PROVE  LeftoverNeverOpaque'
    <3>1. daemon' = daemon
      BY <2>1 DEF FileStep, OpenCert, WriteCert, OpenKey, WriteKey, Open,
                  Write, Undo
    <3>2. files \in [Paths -> Content]
      BY DEF FilesInv, FileType
    <3>3. ASSUME NEW p \in Paths, files[p].by # Earlier
          PROVE  files'[p].by # Earlier
      <4>1. CASE files' = files
        BY <3>3, <4>1
      <4>2. CASE files' # files
        <5>1. PICK part \in Parts, content \in {Absent,
                       [by |-> c, whole |-> TRUE], [by |-> c, whole |-> FALSE]} :
                  files' = [files EXCEPT ![<<target[c], part>>] = content]
          BY <2>1, <4>2, FileStepShape
        <5>2. content.by # Earlier
          BY DEF Absent
        <5>3. files'[p] = files[p] \/ files'[p] = content
          BY <3>2, <5>1
        <5>4. QED
          BY <3>3, <5>2, <5>3
      <4>3. QED
        BY <4>1, <4>2
    <3>4. \A part \in Parts : <<"ca", part>> \in Paths
      BY DEF Paths
    <3>5. QED
      BY <3>1, <3>3, <3>4 DEF LeftoverNeverOpaque
  <2>2. CASE UNCHANGED <<files, daemon>>
    BY <2>2 DEF LeftoverNeverOpaque
  <2>3. ASSUME NEW c \in Commands,
               Begin(c) \/ LoadCert(c) \/ LoadKey(c) \/ Kill(c)
        PROVE  UNCHANGED <<files, daemon>>
    BY <2>3 DEF Begin, LoadCert, LoadKey, Kill
  <2>4. ASSUME NEW s \in Sessions, SessionStep(s)
        PROVE  UNCHANGED <<files, daemon>>
    BY <2>4 DEF SessionStep, Connect, Handshake, NoHandshake, commands
  <2>5. CASE Tick \/ StepBack
    BY <2>2, <2>5 DEF Tick, StepBack, commands
  <2>6. CASE DaemonWithoutCA
    <3>1. files' = files
      BY <2>6 DEF DaemonWithoutCA, commands
    <3>2. \A part \in Parts : files[<<"ca", part>>].by = Nobody
      <4>1. Absent.by = Nobody
        BY DEF Absent
      <4>2. \A part \in Parts : files[<<"ca", part>>] = Absent
        BY <2>6 DEF DaemonWithoutCA, NoCA
      <4>3. QED
        BY <4>1, <4>2
    <3>3. QED
      BY <3>1, <3>2 DEF LeftoverNeverOpaque
  <2>7. CASE DaemonReadsCert \/ DaemonReadsKey
    BY <2>7 DEF DaemonReadsCert, DaemonReadsKey, LeftoverNeverOpaque
  <2>8. QED
    BY <2>1, <2>2, <2>3, <2>4, <2>5, <2>6, <2>7
       DEF Next, vars, CommandStep, FileStep
<1>4. QED
  BY <1>1, <1>2, <1>3, PTL DEF Spec
=============================================================================
