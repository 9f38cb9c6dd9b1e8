------------------------------ MODULE Mediation ------------------------------
(***************************************************************************)
(* One mediated exchange (internal/proxy capture.go, streaming.go,         *)
(* proxy.go) over the two brokers of brokerChain: the static secret broker *)
(* (internal/secret) and the OAuth broker of module OAuthBroker.  A        *)
(* request has its placeholders exchanged for real values or is refused;   *)
(* the response is read record by record (an SSE event, an NDJSON line) or *)
(* as one buffered body, scrubbed, captured and written to the sandbox,    *)
(* while token responses of other requests rotate the OAuth tokens.        *)
(*                                                                         *)
(* Text is a sequence of symbols.  The values of static secrets are made   *)
(* of single bytes, so they overlap, straddle the read buffer and appear   *)
(* masked; an OAuth token, a placeholder and a marker is one symbol.  The  *)
(* decoders and encoders of content encodings are transparent to all this  *)
(* and left out, and so is the carriage return before a newline.           *)
(***************************************************************************)
EXTENDS OAuthBroker, Sequences

CONSTANTS
    Secrets,         \* the static secrets: 1..n, in configuration order
    SecretClients,   \* the clients of a secret
    SecretHosts,     \* the allowed_hosts of a secret
    Value,           \* the value of a secret
    Encodings,       \* its other secretRepresentations (URL, JSON, base64)
    MinVisible,      \* visible bytes at each end of a masked rendering
    MaxPrefix,       \* at most so many of them before the mask
    MaxSuffix,       \* and at most so many after it
    MinMasks,        \* masking characters between them
    Bytes,           \* the bytes texts are made of
    Bodies,          \* bound: the bodies upstreams answer with
    BufferSize,      \* the stream reader's buffer, in bytes
    MediationLimit,  \* MEDIATION_LIMIT_BYTES
    CaptureLimit     \* CAPTURE_LIMIT_BYTES

ASSUME SecretAssumption ==
    /\ IsFiniteSet(Secrets) /\ Secrets = 1..Cardinality(Secrets)
    /\ SecretClients \in [Secrets -> SUBSET Clients]
    /\ SecretHosts \in [Secrets -> SUBSET Hosts]
    /\ \A s, t \in Secrets : Value[s] = Value[t] => s = t
    /\ \A s \in Secrets : Len(Value[s]) >= 2 * MinVisible

ASSUME LimitAssumption ==
    /\ {MinVisible, MaxPrefix, MaxSuffix, MinMasks, BufferSize,
        MediationLimit} \subseteq Nat \ {0}
    /\ CaptureLimit \in Nat

VARIABLE ex  \* the exchange of each request goroutine

exchange == <<vars, ex>>

Newline        == <<"newline", "", 0>>
Mask           == <<"mask", "", 0>>
Wide           == <<"wide", "", 0>>           \* a rune of two bytes
Placeholder(s) == <<"placeholder", "static", s>>
Marker(s)      == <<"marker", "static", s>>
Token(k, g)    == <<"token", k, g>>
Virtual(k, g)  == <<"virtual", k, g>>
TokenMarker(k) == <<"marker", k, 0>>

(* A secret is made of plain symbols; the others are a line break and what *)
(* the brokers deal in.                                                    *)
ASSUME ByteAssumption == \A b \in Bytes : b[1] = "byte"

Plain   == Bytes \cup {Mask, Wide}
Symbols ==
    Plain \cup {Newline}
    \cup {Placeholder(s) : s \in Secrets} \cup {Marker(s) : s \in Secrets}
    \cup {Token(k, g) : k \in Kinds, g \in Grants}
    \cup {Virtual(k, g) : k \in Kinds, g \in Grants}
    \cup {TokenMarker(k) : k \in Kinds}

ASSUME BodyAssumption == Bodies \subseteq Seq(Symbols)

Size(text) ==
    Len(text) + Cardinality({i \in DOMAIN text : text[i] = Wide})
Occurs(text, i, needle) ==
    /\ i + Len(needle) - 1 <= Len(text)
    /\ SubSeq(text, i, i + Len(needle) - 1) = needle
Contains(text, needle) == \E i \in DOMAIN text : Occurs(text, i, needle)
-----------------------------------------------------------------------------
(* The static broker.                                                      *)
InScope(s, client, host) ==
    client \in SecretClients[s] /\ host \in SecretHosts[s]
Scope(client, host) == {s \in Secrets : InScope(s, client, host)}

Representations(s) == {Value[s]} \cup Encodings[s]

(* A value is never empty and holds no line break                          *)
(* (secret/broker.go:124-129), and neither does an encoding of it.         *)
ASSUME NeedleAssumption ==
    \A s \in Secrets : Representations(s) \subseteq Seq(Plain) \ {<<>>}

ValueNeedles == [s \in Secrets |-> Representations(s)]

NoMatch == [length |-> 0, secret |-> 0]

(* needleTrie.longest: the longest needle that starts at i, and of two     *)
(* secrets with the same needle the first.                                 *)
Longest(matches) ==
    IF matches = {} THEN NoMatch
    ELSE CHOOSE m \in matches : \A n \in matches :
             \/ m.length > n.length
             \/ m.length = n.length /\ m.secret <= n.secret

NeedlesAt(text, i, needles, secrets) ==
    UNION {{[length |-> Len(needle), secret |-> s] :
               needle \in {t \in needles[s] : Occurs(text, i, t)}} :
           s \in secrets}

MutExactAt(text, i, scope) ==
    LET match == Longest(NeedlesAt(text, i, ValueNeedles, Secrets))
    IN  IF match.secret \in scope THEN match ELSE NoMatch
ExactAt(text, i, scope) ==
    Longest(NeedlesAt(text, i, ValueNeedles, scope))

(* maskedSecretLength: a prefix of the value, masking characters, a suffix *)
(* of the value, neither longer than its cap; the longest prefix first,    *)
(* then the longest suffix.                                                *)
MaskedLength(text, i, value) ==
    LET Masks(j) == CHOOSE n \in 0..Len(text) :
            /\ \A x \in j..(j + n - 1) : x <= Len(text) /\ text[x] = Mask
            /\ ~(j + n <= Len(text) /\ text[j + n] = Mask)
        Suffix(n) == SubSeq(value, Len(value) - n + 1, Len(value))
        visible == MinVisible..(Len(value) - MinVisible)
        fits == {f \in visible \X visible :
            /\ f[1] <= MaxPrefix /\ f[2] <= MaxSuffix
            /\ f[1] + f[2] <= Len(value)
            /\ Occurs(text, i, SubSeq(value, 1, f[1]))
            /\ Masks(i + f[1]) >= MinMasks
            /\ Occurs(text, i + f[1] + Masks(i + f[1]), Suffix(f[2]))}
        best == CHOOSE f \in fits : \A g \in fits :
                    f[1] > g[1] \/ (f[1] = g[1] /\ f[2] >= g[2])
    IN  IF fits = {} THEN 0 ELSE best[1] + Masks(i + best[1]) + best[2]

(* maskedAt: the first secret in scope with a masked rendering at i.       *)
MaskedAt(text, i, secrets) ==
    LET found == {s \in secrets : MaskedLength(text, i, Value[s]) > 0}
        first == CHOOSE s \in found : \A t \in found : s <= t
    IN  IF found = {} THEN NoMatch
        ELSE [length |-> MaskedLength(text, i, Value[first]), secret |-> first]

(* The single pass of Scrub and Sanitize over a text.                      *)
Rewrite(text, match, symbol) ==
    LET from[i \in 1..(Len(text) + 1)] ==
            IF i > Len(text) THEN <<>>
            ELSE IF match[i] = NoMatch THEN <<text[i]>> \o from[i + 1]
            ELSE <<symbol[match[i].secret]>> \o from[i + match[i].length]
    IN  from[1]

MatchToScrub(text, i, scope) ==
    LET exact == ExactAt(text, i, scope)
    IN  IF exact # NoMatch THEN exact ELSE MaskedAt(text, i, scope)

ScrubSecrets(text, client, host) ==
    LET scope == Scope(client, host)
    IN  Rewrite(text,
                [i \in DOMAIN text |-> MatchToScrub(text, i, scope)],
                [s \in Secrets |-> Placeholder(s)])

(* Sanitize knows no scope: it hides every value and every placeholder.    *)
MutSanitized(client, host) == Scope(client, host)
Sanitized(client, host)    == Secrets

SanitizeSecrets(text, secrets) ==
    LET needles == [s \in Secrets |->
                       Representations(s) \cup {<<Placeholder(s)>>}]
    IN  Rewrite(text,
                [i \in DOMAIN text |->
                    Longest(NeedlesAt(text, i, needles, secrets))],
                [s \in Secrets |-> Marker(s)])
-----------------------------------------------------------------------------
(* The OAuth broker's tokenValuesLocked, Scrub and Sanitize.               *)
PlaceholderOf(ref) ==
    IF ref.kind = "refresh" THEN records[ref.key].refreshPh
                            ELSE records[ref.key].accessPh
LiveRefs == {ref \in Ref : TokenOf(ref) # 0 /\ PlaceholderOf(ref) # 0}

MutScrubs(ref, client, host) ==
    ClientOf[ref.key] = client /\ host \in ApiHostsOf[ref.key]
Scrubs(ref, client, host) ==
    /\ ClientOf[ref.key] = client
    /\ host = IssuerOf[ref.key] \/ HostAllowed(ref, host)

ScrubTokens(text, client, host) ==
    [i \in DOMAIN text |->
        LET found == {ref \in LiveRefs :
                /\ Scrubs(ref, client, host)
                /\ text[i] = Token(ref.kind, TokenOf(ref))}
        IN  IF found = {} THEN text[i]
            ELSE LET ref == CHOOSE f \in found : TRUE
                 IN  Virtual(ref.kind, PlaceholderOf(ref))]

SanitizeTokens(text) ==
    [i \in DOMAIN text |->
        LET found == {ref \in LiveRefs :
                text[i] \in {Token(ref.kind, TokenOf(ref)),
                             Virtual(ref.kind, PlaceholderOf(ref))}}
        IN  IF found = {} THEN text[i]
            ELSE TokenMarker((CHOOSE f \in found : TRUE).kind)]

(* brokerChain: the static broker first.                                   *)
Scrub(text, client, host) ==
    ScrubTokens(ScrubSecrets(text, client, host), client, host)
Sanitize(text, client, host) ==
    SanitizeTokens(SanitizeSecrets(text, Sanitized(client, host)))
-----------------------------------------------------------------------------
(* The static placeholder of a request, and what the broker makes of it:   *)
(* the value, the unchanged text, or a refusal of the request.             *)
Places == {"credential", "name", "body", "body_name"}
    \* a header or query value; a path or query name; a value of a JSON or
    \* form body; a name in one, or a body of another media type

(* In a body the placeholder of a secret out of scope is ordinary text.    *)
InBody(s, whole, q) ==
    IF ~whole \/ ~InScope(s, q.client, q.host) THEN "text"
    ELSE IF q.secure THEN "value" ELSE "refuse"
Unsubstitutable(s, q) ==
    IF InScope(s, q.client, q.host) THEN "refuse" ELSE "text"

MutTreatment(s, place, whole, q) ==
    CASE place = "name" -> "refuse"
      [] place = "credential" ->
            IF whole /\ q.secure /\ q.client \in SecretClients[s]
            THEN "value" ELSE "refuse"
      [] place = "body" -> InBody(s, whole, q)
      [] place = "body_name" -> Unsubstitutable(s, q)
Treatment(s, place, whole, q) ==
    CASE place = "name" -> "refuse"
      [] place = "credential" ->
            IF whole /\ q.secure /\ InScope(s, q.client, q.host)
            THEN "value" ELSE "refuse"
      [] place = "body" -> InBody(s, whole, q)
      [] place = "body_name" -> Unsubstitutable(s, q)

NoExchange ==
    [phase |-> "none", static |-> "text", carried |-> {}, client |-> "",
     host |-> "", kind |-> "", ending |-> "", rest |-> <<>>, read |-> <<>>,
     record |-> <<>>, clean |-> <<>>, sent |-> <<>>, shown |-> <<>>,
     total |-> 0, truncated |-> FALSE,
     passed |-> {}, copied |-> {}]
        \* history: the installed tokens that Scrub and Sanitize left in

MediationInit == Init /\ ex = [r \in Requests |-> NoExchange]

(* mediateRequest starts: the placeholder of a static secret is somewhere  *)
(* in the request, next to those of OAuth tokens.                          *)
BeginExchange(r) ==
    /\ ex[r].phase = "none"
    /\ BeginRequest(r)
    /\ \E s \in Secrets, place \in Places, whole \in BOOLEAN :
          LET static == Treatment(s, place, whole, req'[r])
          IN  ex' = [ex EXCEPT ![r].phase = "request", ![r].static = static,
                        ![r].carried = IF static = "value"
                                       THEN {Placeholder(s)} ELSE {}]

(* A refusal by either broker ends the request with a 403.                 *)
RefuseStatic(r) ==
    /\ ex[r].phase = "request"
    /\ ex[r].static = "refuse"
    /\ req[r].phase = "substituting"
    /\ req' = [req EXCEPT ![r].phase = "refused", ![r].todo = {},
                          ![r].out = {}]
    /\ UNCHANGED <<up, crashes, issued, memory, disk, stateMu, handlers,
                   history, ex>>

ForwardExchange(r) ==
    /\ ex[r].static # "refuse"
    /\ Forward(r)
    /\ UNCHANGED ex

EndRefused(r) ==
    /\ req[r].phase = "refused"
    /\ EndRequest(r)
    /\ ex' = [ex EXCEPT ![r] = NoExchange]

(* The upstream answers with some body, an SSE stream, an NDJSON stream or *)
(* another one, and completes it, resets the connection or sends nothing   *)
(* more.  The body may hold any token: an issuer knows its tokens before   *)
(* the broker does.                                                        *)
Respond(r) ==
    /\ req[r].phase = "forwarded"
    /\ EndRequest(r)
    /\ \E body \in Bodies, kind \in {"sse", "ndjson", "buffered"},
          ending \in {"eof", "reset", "stall"} :
          ex' = [ex EXCEPT
              ![r].phase = "open", ![r].client = req[r].client,
              ![r].host = req[r].host, ![r].kind = kind,
              ![r].ending = ending, ![r].rest = body,
              ![r].carried = @ \cup
                  {Token(u.kind, u.token) : u \in req[r].out}]
-----------------------------------------------------------------------------
(* readStreamingRecord.  ReadSlice returns a part: up to the next newline, *)
(* or a full buffer; 0 when neither is there yet.                          *)
PartLength(text) ==
    LET ends == {i \in DOMAIN text : text[i] = Newline \/ i = BufferSize}
    IN  IF ends = {} THEN 0 ELSE CHOOSE i \in ends : \A j \in ends : i <= j

(* A record ends with a line, and an SSE event with a blank one.           *)
MutEndsRecord(part, kind) ==
    kind = "ndjson" \/ part = <<Newline>> \/ Len(part) = BufferSize
EndsRecord(part, kind) ==
    part[Len(part)] = Newline /\ (kind = "ndjson" \/ part = <<Newline>>)

(* The parts read until the record is complete, or nothing more has come.  *)
ScanRecord(text, kind) ==
    LET from[i \in 0..Len(text)] ==
            LET n    == PartLength(SubSeq(text, i + 1, Len(text)))
                part == SubSeq(text, i + 1, i + n)
            IN  CASE n = 0 -> [read |-> i, complete |-> FALSE]
                  [] n > 0 /\ EndsRecord(part, kind) ->
                        [read |-> i + n, complete |-> TRUE]
                  [] OTHER -> from[i + n]
    IN  IF kind = "buffered" THEN [read |-> Len(text), complete |-> FALSE]
        ELSE from[0]

(* What the next read makes of the rest of the body: a record, the end, a  *)
(* failure (a reset, or a record or body above the mediation limit), or a  *)
(* wait for an upstream that sends nothing more.                           *)
Outcome(e) ==
    LET scan == ScanRecord(e.rest, e.kind)
        n == IF e.ending = "eof" /\ ~scan.complete THEN Len(e.rest)
             ELSE scan.read
    IN  CASE n > MediationLimit -> [is |-> "failed", length |-> 0]
          [] OTHER ->
             IF scan.complete \/ (e.ending = "eof" /\ n > 0)
             THEN [is |-> "record", length |-> n]
             ELSE [is |-> e.ending, length |-> 0]

(* A grant whose response was installed; nobody has the placeholders of    *)
(* one before that, which are random, so no record can hold them.          *)
Known(grant) ==
    /\ grant <= issued
    /\ \A h \in Handlers : pc[h] = "received" => grant # response[h].grant
Seen(text) ==
    \A i \in DOMAIN text : text[i][1] = "virtual" => Known(text[i][3])

KnownTokens(text) ==
    {text[i] : i \in {j \in DOMAIN text :
                          text[j][1] = "token" /\ Known(text[j][3])}}

(* The record is read and scrubbed; the OAuth broker takes its read lock.  *)
TakeRecord(r) ==
    /\ ex[r].phase = "open"
    /\ Outcome(ex[r]).is = "record"
    /\ LET n      == Outcome(ex[r]).length
           record == SubSeq(ex[r].rest, 1, n)
           clean  == Scrub(record, ex[r].client, ex[r].host)
       IN  /\ Seen(record)
           /\ ex' = [ex EXCEPT
                  ![r].phase = "scrubbed",
                  ![r].record = record,
                  ![r].rest = SubSeq(@, n + 1, Len(@)),
                  ![r].clean = clean,
                  ![r].passed = @ \cup KnownTokens(clean)]
    /\ UNCHANGED vars

(* streamCapture.add and capturePayload: the sanitised record, under a read *)
(* lock of its own, as far as whole runes fit.                             *)
Flat(pieces) ==
    LET from[i \in 1..(Len(pieces) + 1)] ==
            IF i > Len(pieces) THEN <<>> ELSE pieces[i] \o from[i + 1]
    IN  from[1]

MutRoom(e) == CaptureLimit
Room(e)    == CaptureLimit - Size(Flat(e.shown))

Fitting(text, room) ==
    LET fits == {n \in 0..Len(text) : Size(SubSeq(text, 1, n)) <= room}
    IN  SubSeq(text, 1, CHOOSE n \in fits : \A m \in fits : m <= n)

CaptureRecord(r) ==
    /\ ex[r].phase = "scrubbed"
    /\ LET text  == Sanitize(ex[r].clean, ex[r].client, ex[r].host)
           piece == Fitting(text, Room(ex[r]))
       IN  ex' = [ex EXCEPT
               ![r].phase = "captured",
               ![r].shown = Append(@, piece),
               ![r].total = @ + Size(text),
               ![r].truncated = @ \/ Size(text) > Room(ex[r]),
               ![r].copied = @ \cup KnownTokens(piece)]
    /\ UNCHANGED vars

(* The record is encoded, flushed and written to the sandbox.              *)
WriteRecord(r) ==
    /\ ex[r].phase = "captured"
    /\ ex' = [ex EXCEPT ![r].phase = "open",
                        ![r].read = @ \o ex[r].record,
                        ![r].sent = @ \o ex[r].clean,
                        ![r].record = <<>>, ![r].clean = <<>>]
    /\ UNCHANGED vars

(* The body ends, the upstream or a limit fails it, or the sandbox hangs   *)
(* up, which fails the next read or write.                                 *)
EndExchange(r) ==
    /\ ex[r].phase \in {"open", "captured"}
    /\ ex' = [ex EXCEPT ![r] = NoExchange]
    /\ UNCHANGED vars
-----------------------------------------------------------------------------
RequestMediation(r) ==
    \/ BeginExchange(r) \/ RefuseStatic(r) \/ ForwardExchange(r)
    \/ (SubstituteValue(r) \/ RefuseRequest(r)) /\ UNCHANGED ex
    \/ EndRefused(r)

ResponseMediation(r) ==
    \/ Respond(r) \/ TakeRecord(r) \/ CaptureRecord(r) \/ WriteRecord(r)
    \/ EndExchange(r)

TokenResponse(h) ==
    /\ \/ \E k \in Keys, refresh \in {"absent", "empty", "new"} :
             Receive(h, k, refresh)
       \/ HandlerStep(h)
    /\ UNCHANGED ex

MediationNext ==
    \/ \E r \in Requests : RequestMediation(r) \/ ResponseMediation(r)
    \/ \E h \in Handlers : TokenResponse(h)

MediationSpec == MediationInit /\ [][MediationNext]_exchange
-----------------------------------------------------------------------------
(* What the sandbox got, or is about to get, of a response.                *)
Received(r) == ex[r].sent \o ex[r].clean

Shows(text, symbol) == \E i \in DOMAIN text : text[i] = symbol
ShowsSecret(text, s) == \E t \in Representations(s) : Contains(text, t)
ShowsMasked(text, s) ==
    \E i \in DOMAIN text : MaskedLength(text, i, Value[s]) > 0

(* No credential comes back (README.md:591-593): not one the request was   *)
(* given, nor a secret of its client and host, whatever the upstream       *)
(* echoes, in whichever rendering the broker knows, cut by the read buffer *)
(* or split over records; nor a token of its client that stood in a record *)
(* of its issuer (oauth/broker.go:335-336).  The broker knows a token from *)
(* its installation (broker.go:274-305) until another replaces it: what an *)
(* issuer echoed before that went through, though the token is live later, *)
(* so passed holds only what Scrub left in place of installed tokens.      *)
Veiled ==
    \A r \in Requests : ex[r].phase \in {"open", "scrubbed", "captured"} =>
        /\ \A s \in Secrets :
              \/ Placeholder(s) \in ex[r].carried
              \/ InScope(s, ex[r].client, ex[r].host)
              => ~ShowsSecret(Received(r), s) /\ ~ShowsMasked(Received(r), s)
        /\ \A ref \in LiveRefs :
              LET token == Token(ref.kind, TokenOf(ref))
              IN  /\ token \in ex[r].carried => ~Shows(Received(r), token)
                  /\ \/ token \in ex[r].carried
                     \/ /\ ClientOf[ref.key] = ex[r].client
                        /\ IssuerOf[ref.key] = ex[r].host
                     => token \notin ex[r].passed

(* Record by record is as good as whole (README.md:915-917): what was sent *)
(* of a stream when the reader waits for more is everything read so far,   *)
(* scrubbed as one text, so no value is missed at a seam and nothing is    *)
(* lost, repeated or held back.  Tokens are compared by what they name.    *)
Named(text) ==
    [i \in DOMAIN text |-> IF text[i][1] = "virtual"
                           THEN Token(text[i][2], text[i][3]) ELSE text[i]]
RecordwiseExact ==
    \A r \in Requests : ex[r].phase = "open" =>
        Named(ex[r].sent) =
            Named(ScrubSecrets(ex[r].read, ex[r].client, ex[r].host))

(* The console's copy (README.md:594-595, 909-911): no captured record     *)
(* shows a value or placeholder of any secret, in scope or not, or the     *)
(* placeholder of a live token, or such a token itself unless it was not   *)
(* installed yet when the record was sanitised; the capture stays within   *)
(* its limit and says so exactly when something is missing from it.        *)
CaptureSound ==
    \A r \in Requests :
        /\ \A i \in DOMAIN ex[r].shown :
              LET text == ex[r].shown[i]
              IN  /\ \A s \in Secrets : /\ ~ShowsSecret(text, s)
                                        /\ ~Shows(text, Placeholder(s))
                  /\ \A ref \in LiveRefs :
                        ~Shows(text, Virtual(ref.kind, PlaceholderOf(ref)))
        /\ \A ref \in LiveRefs : Token(ref.kind, TokenOf(ref)) \notin ex[r].copied
        /\ Size(Flat(ex[r].shown)) <= CaptureLimit
        /\ ex[r].truncated <=> Size(Flat(ex[r].shown)) < ex[r].total
=============================================================================
