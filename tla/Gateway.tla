-------------------------------- MODULE Gateway --------------------------------
(***************************************************************************)
(* The HTTP front end: HonmoonHandler of mitm.rs.  Client connections run   *)
(* at once, each with its own handler, and share the policy, the approvals, *)
(* the audit log and the store of placeholders.  A request is gated on its  *)
(* host, read, scanned, decided on, rewritten and sent on; its response is  *)
(* restored from a snapshot of the store.  Between two awaits a handler is  *)
(* one step; while it waits for a human, a body or a service the others run.*)
(***************************************************************************)
EXTENDS PolicyEngine, Redaction, SignedBody, Protocols, TLC

CONSTANTS Conns,        \* client connections
          Settings,     \* how a gateway may be started; maxRequests bounds a connection
          MaxInspectBody, MinSeverity,     \* the body cap and the severity rewritten
          MaxEntries, MaxBytes,            \* the bounds of the mapping store
          HookTexts,    \* texts the hook endpoint may redact into the same store
          MaxEvicted    \* bound: the hook endpoint stops once so many pairs were evicted

ASSUME BoundsAssumption == {MaxInspectBody, MaxEntries, MaxBytes} \subseteq Nat

VARIABLES config,       \* policy, piiMode, redaction, signedBody, intercept, requests, maxRequests
          at,           \* where the handler of each connection is
          tunnel,       \* the target its CONNECT was allowed for
          request,      \* the request it handles
          sent,         \* how many it has handled
          out,          \* what it sent upstream for it
          status,       \* what the client was answered, if honmoon answered
          received,     \* the response body the client got
          store,        \* MappingStore: placeholder, secret and bytes, oldest first
          evicted,      \* BoundedMapping::evicted
          events,       \* the audit events of the request, in order
          granted,      \* history: the targets policy or a human let the connection reach
          evictedAtSend \* history: evicted before the request's placeholders were recorded

vars == <<config, at, tunnel, request, sent, out, status, received, store, evicted,
          events, granted, evictedAtSend>>
rest == <<config, sent, store, evicted, evictedAtSend>>

NoTarget == [host |-> <<>>, port |-> 0]
NoRequest == [method |-> "none"]
Nothing == [text |-> <<>>, rewritten |-> FALSE, headers |-> <<>>, trailers |-> {}]

-----------------------------------------------------------------------------
(* Hosts and ports.  A host is its labels; a trailing dot is an empty one.   *)

Canonical(host) == SelectSeq(host, LAMBDA label : label # "")

\* request_port and the CONNECT authority's: 0 stands for no port given.
PortOf(r) ==
    IF r.port # 0 THEN r.port
    ELSE IF r.method = "CONNECT" \/ r.scheme = "https" THEN 443 ELSE 80

Target(r) == [host |-> Canonical(r.host), port |-> PortOf(r)]

Endpoint(t) == EndpointFor(config.policy, t.host, t.port)

\* uninspectable_endpoint: a protocol honmoon inspects inline, not through a tunnel.
Uninspectable(t) == Endpoint(t).protocol = "postgres"

HostFacts(t) ==
    [domain |-> t.host, endpoint |-> Endpoint(t).name, kinds |-> {"http"},
     method |-> "", size |-> 0, verb |-> "", pii |-> NoPii]

RuleName(outcome) == IF outcome.rule = 0 THEN "" ELSE config.policy.rules[outcome.rule].name

HostOutcome(t) == DecideExplained(config.policy, HostFacts(t))

-----------------------------------------------------------------------------
(* Reading a body.  body.raw says what its bytes are: text, text cut inside  *)
(* a character, something else, or text compressed; body.text is the text.   *)

LengthTokens == {<<ToString(n)>> : n \in 0 .. MaxInspectBody + 8}
\* The declared length; -1 if there is none that parses.
ContentLength(r) ==
    LET value == HeaderStr(r.headers, "content-length")
    IN  IF value \in LengthTokens
        THEN CHOOSE n \in 0 .. MaxInspectBody + 8 : <<ToString(n)>> = value ELSE -1

\* Whether the body was buffered as a whole: its declared length, or its own, fits.
Scanned(r) == IF ContentLength(r) >= 0 THEN ContentLength(r) <= MaxInspectBody
              ELSE Len(r.body.text) <= MaxInspectBody
BodySize(r) == IF Scanned(r) THEN Len(r.body.text) ELSE ContentLength(r)

Compressed == {"gzip", "bomb"}
Encoding(r) == HeaderStr(r.headers, "content-encoding")
AsBytes(raw) == IF raw \in Compressed THEN "binary" ELSE raw

\* decode_strict: what it yields, and what the decoded bytes are.
DecodeStrict(r) ==
    IF Encoding(r) \in {<<>>, <<"identity">>} THEN [is |-> "decoded", bytes |-> AsBytes(r.body.raw)]
    ELSE IF Encoding(r) \in {<<"gzip">>, <<"x-gzip">>, <<"deflate">>}
    THEN IF r.body.raw = "gzip" THEN [is |-> "decoded", bytes |-> "text"]
         ELSE [is |-> IF r.body.raw = "bomb" THEN "overflow" ELSE "unavailable",
               bytes |-> AsBytes(r.body.raw)]
    ELSE [is |-> "unavailable", bytes |-> AsBytes(r.body.raw)]

\* The spans found: of the decoded text, or of the raw bytes when nothing decodes them.
Spans(r) ==
    IF Scanned(r) /\ DecodeStrict(r).is # "overflow"
         /\ DecodeStrict(r).bytes \in {"text", "cut"}     \* utf8_prefix
    THEN DetectSpans(r.body.text) ELSE {}

PiiFacts(r) == IF Spans(r) = {} THEN NoPii ELSE Summarize(Spans(r))

BodyFacts(r) ==
    LET endpoint == Endpoint(Target(r))
        k8s == endpoint.protocol = "kubernetes"
    IN  [domain |-> Target(r).host, endpoint |-> endpoint.name,
         kinds |-> {"http"} \cup (IF k8s THEN {"k8s"} ELSE {}),
         method |-> r.method, size |-> BodySize(r),
         verb |-> IF k8s THEN ParseK8sRequest(r.method, r.path).verb ELSE "",
         pii |-> PiiFacts(r)]

-----------------------------------------------------------------------------
(* What a client sends.                                                     *)

KnownHeaders == {"authorization", "signature", "signature-input", "accept-encoding",
                 "content-length", "content-encoding", "transfer-encoding", "trailer"}

\* Header values and names are tokens and Authorization is one; a client signs what it
\* says it signs, in one of the three schemes, declares the length its body has, and
\* writes no placeholder of its own.
Plain(r) ==
    /\ {"headers", "query"} \subseteq DOMAIN r
    /\ r.headers \in [DOMAIN r.headers -> Seq(Seq(STRING))]
    /\ KnownHeaders \cup BodyDigestHeaders \subseteq DOMAIN r.headers
    /\ Len(r.headers["authorization"]) <= 1
    /\ IsFiniteSet(r.body.trailers)
    /\ r.body.trailers \subseteq STRING \ {Blank, Comma, Opaque}
    /\ r.covers = {name \in DOMAIN r.headers : HeaderIsSigned(r, name)}
    /\ r.signsBody <=> BodySignatureScheme(r) # "none"
    /\ r.body.text \in Seq(STRING) /\ ContentLength(r) \in {-1, Len(r.body.text)}
    /\ \A s \in DOMAIN Placeholder : Occurrences({Placeholder[s]}, r.body.text) = {}

ASSUME ClientAssumption ==
    /\ \A s \in Settings : \A c \in Conns : \A r \in s.requests[c] : Plain(r)
    /\ HookTexts \subseteq Seq(STRING)

-----------------------------------------------------------------------------
(* Trailers.                                                                *)

ForbiddenTrailerFields == {"authorization", "content-length", "transfer-encoding", "trailer",
                           "host", "connection", "cookie", "content-encoding", "content-type"}
ConnectionNominated(r) ==
    {v[1] : v \in {w \in UNION {SplitOn(x, Comma) : x \in HeaderValues(r.headers, "connection")} :
                     w # <<>>}}

\* strip_forbidden_trailers leaves these, whichever way the body was read.
KeptTrailers(r) == r.body.trailers \ (ForbiddenTrailerFields \cup ConnectionNominated(r))
\* The gateway has seen the names only of a body it buffered.
RetainedTrailers(r) == IF Scanned(r) THEN KeptTrailers(r) ELSE {}

IsChunked(headers) ==
    LET values == headers["transfer-encoding"]
        last == values[Len(values)]
    IN  values # <<>> /\ last # NotText /\ last # <<>> /\ Trim(last)[Len(Trim(last))] = "chunked"

DeclaresTrailer(headers, name) ==
    \E v \in HeaderValues(headers, "trailer") : <<name>> \in SplitOn(v, Comma)

LengthIsUnambiguous(headers) ==
    \/ headers["content-length"] = <<>>
    \/ Len(headers["content-length"]) = 1 /\ headers["content-length"][1] \in LengthTokens

\* One value that lists some names, in some order.
Joined(names) ==
    LET inOrder == CHOOSE s \in [1 .. Cardinality(names) -> names] :
                      \A t \in names : \E i \in DOMAIN s : s[i] = t
    IN  [i \in 1 .. 2 * Len(inOrder) - 1 |->
            IF i % 2 = 1 THEN inOrder[(i + 1) \div 2] ELSE Comma]

\* framed_for_trailers: the headers a request is sent with so that its trailers survive;
\* hyper takes the length out when it writes chunks.
Framed(r, headers) ==
    LET chunked == IsChunked(headers)
        undeclared == {t \in RetainedTrailers(r) : ~ DeclaresTrailer(headers, t)}
        reframed == (IF chunked THEN {} ELSE {"transfer-encoding"})
                      \cup (IF ~ chunked /\ Present(headers, "content-length")
                            THEN {"content-length"} ELSE {})
                      \cup (IF undeclared # {} THEN {"trailer"} ELSE {})
    IN  IF \/ RetainedTrailers(r) = {} \/ reframed = {}
           \/ ~ chunked /\ ~ LengthIsUnambiguous(headers)
           \/ SignedHeadersAmong([r EXCEPT !.headers = headers], reframed) # {}
        THEN headers
        ELSE [headers EXCEPT
                !["transfer-encoding"] = IF chunked THEN @ ELSE Append(@, <<"chunked">>),
                !["trailer"] = IF undeclared = {} THEN @ ELSE Append(@, Joined(undeclared))]

-----------------------------------------------------------------------------
(* Rewriting: redacted_request.                                             *)

RedactText(r) ==
    IF r.json THEN RedactJson(r.body.text, MinSeverity, Spans(r))
              ELSE Redact(r.body.text, MinSeverity, Spans(r))

\* The headers a body of a new length changes or drops.
Rewrites(headers, newLength) ==
    {name \in RewrittenFramingHeaders \cup BodyDigestHeaders :
        IF name = "content-length" THEN headers[name] # << <<ToString(newLength)>> >>
                                   ELSE Present(headers, name)}

\* As if a body with any Content-Encoding were left alone.
ReadableIfPlain(r) ==
    /\ ~ Present(r.headers, "content-range") /\ ~ Present(r.headers, "content-encoding")
    /\ Scanned(r) /\ DecodeStrict(r).bytes = "text"

\* The body is there to be scanned as text, and was not left alone for some reason.
Readable(r) ==
    /\ ~ Present(r.headers, "content-range")
    /\ Scanned(r)
    /\ Present(r.headers, "content-encoding") => r.headers["content-encoding"][1] # NotText
    /\ DecodeStrict(r).is = "decoded" /\ DecodeStrict(r).bytes = "text"

\* As if every response had to come back readable.
WithIdentityAlways(r) == [r.headers EXCEPT !["accept-encoding"] = << <<"identity">> >>]

\* Responses must come back readable, but a signature is not broken for that.
WithIdentity(r) ==
    IF BodySignatureScheme(r) = "none" /\ ~ AuthenticationSignsHeaders(r)
    THEN [r.headers EXCEPT !["accept-encoding"] = << <<"identity">> >>] ELSE r.headers

PassedOn(r, headers) ==
    [text |-> r.body.text, rewritten |-> FALSE, headers |-> Framed(r, headers),
     trailers |-> KeptTrailers(r)]

\* The rewritten request: its own length, no encoding, no digests, no trailers.
Rewritten(r, headers, text) ==
    [text |-> text, rewritten |-> TRUE, trailers |-> {},
     headers |-> [name \in DOMAIN headers |->
                     IF name = "content-length" THEN << <<ToString(Len(text))>> >>
                     ELSE IF name \in RewrittenFramingHeaders \cup BodyDigestHeaders THEN <<>>
                     ELSE headers[name]]]

\* Why a rewrite would break the signature of the request; "" if it would not.
Breaks(r, headers, text) ==
    IF BodySignatureScheme(r) # "none" THEN "wire-redaction/signed-body"
    ELSE IF SignedHeadersAmong([r EXCEPT !.headers = headers], Rewrites(headers, Len(text))) # {}
    THEN "wire-redaction/signed-headers" ELSE ""

\* redacted_request: what becomes of a request that was allowed, given the headers it
\* leaves with, its text redacted, and why that may not replace it.  The mapping is what
\* the store must hold before the request leaves.
RedactedRequest(r, headers, outcome, why) ==
    LET Result(is, o, mapping) == [is |-> is, out |-> o, mapping |-> mapping, rule |-> why]
    IN  IF ~ config.redaction THEN Result("sent", PassedOn(r, r.headers), <<>>)
        ELSE IF ~ Readable(r) \/ ~ outcome.redacted THEN Result("sent", PassedOn(r, headers), <<>>)
        ELSE IF why = "" THEN Result("sent", Rewritten(r, headers, outcome.text), outcome.mapping)
        ELSE IF config.signedBody = "forward" THEN Result("sent", PassedOn(r, headers), <<>>)
        ELSE Result("blocked", Nothing, <<>>)

\* forwarded_request
Forwarded(r) ==
    LET With(headers, outcome) ==
          RedactedRequest(r, headers, outcome, Breaks(r, headers, outcome.text))
    IN  With(WithIdentity(r), RedactText(r))

Entry(mapping, p) == [placeholder |-> p, secret |-> mapping[p], bytes |-> Len(mapping[p])]

\* The orders in which a hash map may give the pairs of one record call.
Orders(mapping) ==
    {order \in [1 .. Cardinality(DOMAIN mapping) -> {Entry(mapping, p) : p \in DOMAIN mapping}] :
        \A i, j \in DOMAIN order : order[i] = order[j] => i = j}

\* As if a full store took no more.
RecordUnlessFull(mapping) ==
    IF Len(store) = MaxEntries THEN UNCHANGED <<store, evicted>>
    ELSE \E order \in Orders(mapping) :
            /\ store' = Recorded(store, order, MaxEntries, MaxBytes)
            /\ UNCHANGED evicted

\* MappingStore::record, under its lock.
Record(mapping) ==
    \E order \in Orders(mapping) :
        LET fresh == {p \in DOMAIN mapping : \A i \in DOMAIN store : store[i].placeholder # p}
        IN  /\ store' = Recorded(store, order, MaxEntries, MaxBytes)
            /\ evicted' = evicted + Len(store) + Cardinality(fresh) - Len(store')

-----------------------------------------------------------------------------
(* The handler.                                                             *)

Init ==
    /\ config \in Settings
    /\ at = [c \in Conns |-> "idle"]
    /\ tunnel = [c \in Conns |-> NoTarget]
    /\ request = [c \in Conns |-> NoRequest]
    /\ sent = [c \in Conns |-> 0]
    /\ out = [c \in Conns |-> Nothing]
    /\ status = [c \in Conns |-> "none"]
    /\ received = [c \in Conns |-> <<>>]
    /\ store = <<>> /\ evicted = 0
    /\ events = [c \in Conns |-> <<>>]
    /\ granted = [c \in Conns |-> {}]
    /\ evictedAtSend = [c \in Conns |-> 0]

Goto(c, point) == at' = [at EXCEPT ![c] = point]
Event(decision, rule) == << [decision |-> decision, rule |-> rule] >>
LastRule(c) == events[c][Len(events[c])].rule    \* of a hold: its rule is kept for its end
Audit(c, before, event) == events' = [events EXCEPT ![c] = before \o event]
Grant(c, t) == granted' = [granted EXCEPT ![c] = @ \cup {t}]

\* status_response and the other answers honmoon writes itself; they end the connection.
Refuse(c, code) ==
    /\ Goto(c, "closed")
    /\ status' = [status EXCEPT ![c] = code]

Unanswered(c) == status' = [status EXCEPT ![c] = "none"]

\* hold: the request waits for a human, or the queue is full and it is refused at once.
Hold(c, point, before, rule) ==
    \/ /\ Audit(c, before, Event("Paused", rule))
       /\ Goto(c, point)
       /\ Unanswered(c)
    \/ /\ Audit(c, before, Event("Rejected", rule))
       /\ Refuse(c, "503")

ShouldIntercept(host) ==
    config.intercept = "all" \/ (config.intercept = "hosts" /\ host \in config.interceptHosts)

\* A connection's next request: what is kept of the one before is forgotten.
Arrives(c, r) ==
    /\ at[c] = "idle" /\ sent[c] < config.maxRequests
    /\ sent' = [sent EXCEPT ![c] = @ + 1]
    /\ request' = [request EXCEPT ![c] = r]
    /\ out' = [out EXCEPT ![c] = Nothing]
    /\ received' = [received EXCEPT ![c] = <<>>]
    /\ UNCHANGED <<config, store, evicted, evictedAtSend>>

\* After CONNECT was let through: the tunnel is read when it is intercepted, else piped.
OpenTunnel(c, t) ==
    /\ tunnel' = [tunnel EXCEPT ![c] = t]
    /\ Goto(c, IF ShouldIntercept(t.host) THEN "idle" ELSE "opaque")

\* handle_request of a CONNECT.  One to a database honmoon inspects is refused,
\* whatever the policy says; otherwise the host is gated and its allowing audited.
Connect(c, r) ==
    LET t == Target(r)
        outcome == HostOutcome(t)
    IN  /\ r.method = "CONNECT" /\ tunnel[c] = NoTarget
        /\ Arrives(c, r)
        /\ \/ /\ Uninspectable(t)
              /\ Audit(c, <<>>, Event("Denied", RuleName(outcome)))
              /\ Refuse(c, IF outcome.verdict = "deny" THEN "403" ELSE "uninspectable")
              /\ UNCHANGED <<tunnel, granted>>
           \/ /\ ~ Uninspectable(t)
              /\ \/ /\ outcome.verdict = "allow"
                    /\ Audit(c, <<>>, Event("Allowed", RuleName(outcome)))
                    /\ Grant(c, t) /\ OpenTunnel(c, t)
                    /\ Unanswered(c)
                 \/ /\ outcome.verdict = "deny"
                    /\ Audit(c, <<>>, Event("Denied", RuleName(outcome)))
                    /\ Refuse(c, "403")
                    /\ UNCHANGED <<tunnel, granted>>
                 \/ /\ outcome.verdict = "pause"
                    /\ Hold(c, "heldConnect", <<>>, RuleName(outcome))
                    /\ UNCHANGED <<tunnel, granted>>

\* As if a tunnel were to a host, on whatever port.
TunnelAuthorizesHost(c, t) == tunnel[c].host = t.host

\* AuthorizedTunnel::authorizes: another port of the host is another target.
TunnelAuthorizes(c, t) == tunnel[c] = t

\* handle_request of any other: the host is gated again, unless it is exactly the one
\* the tunnel was allowed for.
Submit(c, r) ==
    LET t == Target(r)
        outcome == HostOutcome(t)
    IN  /\ r.method # "CONNECT"
        /\ Arrives(c, r)
        /\ UNCHANGED tunnel
        /\ \/ /\ TunnelAuthorizes(c, t)
              /\ Audit(c, <<>>, <<>>)
              /\ Goto(c, "reading")
              /\ UNCHANGED granted /\ Unanswered(c)
           \/ /\ ~ TunnelAuthorizes(c, t) /\ outcome.verdict = "allow"
              /\ Audit(c, <<>>, <<>>)
              /\ Grant(c, t) /\ Goto(c, "reading")
              /\ Unanswered(c)
           \/ /\ ~ TunnelAuthorizes(c, t) /\ outcome.verdict = "deny"
              /\ Audit(c, <<>>, Event("Denied", RuleName(outcome)))
              /\ Refuse(c, "403")
              /\ UNCHANGED granted
           \/ /\ ~ TunnelAuthorizes(c, t) /\ outcome.verdict = "pause"
              /\ Hold(c, "heldHost", <<>>, RuleName(outcome))
              /\ UNCHANGED granted

\* The request goes on its way, or is blocked for its signature.
Forward(c, result) ==
    /\ evictedAtSend' = [evictedAtSend EXCEPT ![c] = evicted]
    /\ \/ /\ result.is = "sent"
          /\ IF result.out.rewritten THEN Record(result.mapping) ELSE UNCHANGED <<store, evicted>>
          /\ out' = [out EXCEPT ![c] = result.out]
          /\ Goto(c, "upstream")
          /\ UNCHANGED status
       \/ /\ result.is = "blocked"
          /\ Refuse(c, "signed")
          /\ UNCHANGED <<out, store, evicted>>

\* As if a request blocked for its signature left no trace.
ForwardUnaudited(c, result, before) == Audit(c, events[c] \o before, <<>>)

\* The events Forward adds to those before it.
ForwardEvents(c, result, before) ==
    Audit(c, events[c] \o before,
          IF result.is = "blocked" THEN Event("Denied", result.rule) ELSE <<>>)

\* What was allowed goes on its way, and into the log if it was blocked there.
SendOn(c, result, before) == Forward(c, result) /\ ForwardEvents(c, result, before)

\* inspect_body once the body is read: block mode enforces the verdict, detect mode
\* only one that personal data did not cause, and audits the other.
Decision(c) ==
    LET facts == BodyFacts(request[c])
        outcome == DecideExplained(config.policy, facts)
        lenient == DecidePiiAuditOnly(config.policy, facts)
    IN  IF config.piiMode = "block" THEN [enforced |-> TRUE, outcome |-> outcome]
        ELSE IF outcome.verdict # "allow" /\ lenient.verdict # "allow"
        THEN [enforced |-> TRUE, outcome |-> lenient]
        ELSE [enforced |-> FALSE, outcome |-> outcome]

Inspect(c) ==
    LET decision == Decision(c)
        verdict == decision.outcome.verdict
        rule == RuleName(decision.outcome)
    IN  /\ at[c] = "reading" /\ ~ request[c].body.breaks
        /\ \/ /\ ~ decision.enforced \/ verdict = "allow"
              /\ SendOn(c, Forwarded(request[c]),
                        IF PiiFacts(request[c]).count > 0 THEN Event("Allowed", rule) ELSE <<>>)
           \/ /\ decision.enforced /\ verdict = "deny"
              /\ Audit(c, events[c], Event("Denied", rule))
              /\ Refuse(c, "403")
              /\ UNCHANGED <<out, store, evicted, evictedAtSend>>
           \/ /\ decision.enforced /\ verdict = "pause"
              /\ Hold(c, "heldBody", events[c], rule)
              /\ UNCHANGED <<out, store, evicted, evictedAtSend>>
        /\ UNCHANGED <<config, tunnel, request, sent, received, granted>>

\* The client's body cannot be read to its end.
BodyFails(c) ==
    /\ at[c] = "reading" /\ request[c].body.breaks
    /\ Refuse(c, "400")
    /\ UNCHANGED <<rest, tunnel, request, out, received, events, granted>>

-----------------------------------------------------------------------------
(* A hold, by its outcome: Approval models how it comes about.               *)

Holding == {"heldConnect", "heldHost", "heldBody"}

Approved(c) ==
    LET t == Target(request[c])
    IN  /\ at[c] \in Holding
        /\ \/ /\ at[c] = "heldConnect"
              /\ Grant(c, t) /\ OpenTunnel(c, t)
              /\ Audit(c, events[c], Event("Approved", LastRule(c)))
              /\ UNCHANGED <<status, out, store, evicted, evictedAtSend>>
           \/ /\ at[c] = "heldHost"
              /\ Grant(c, t) /\ Goto(c, "reading")
              /\ Audit(c, events[c], Event("Approved", LastRule(c)))
              /\ UNCHANGED <<tunnel, status, out, store, evicted, evictedAtSend>>
           \/ /\ at[c] = "heldBody"
              /\ SendOn(c, Forwarded(request[c]), Event("Approved", LastRule(c)))
              /\ UNCHANGED <<tunnel, granted>>
        /\ UNCHANGED <<config, request, sent, received>>

\* Rejected, timed out, or given up because the client has left.
Rejected(c) ==
    /\ at[c] \in Holding
    /\ Audit(c, events[c], Event("Rejected", LastRule(c)))
    /\ Refuse(c, "403")
    /\ UNCHANGED <<rest, tunnel, request, out, received, granted>>

-----------------------------------------------------------------------------
(* The way back, and the other writer of the store.                          *)

NoBody == {"101", "204", "206", "304"}
Responses == [code : {"200", "206"}, identity : BOOLEAN]

\* handle_response: the snapshot is taken when the response's head arrives, and the
\* body is what the service was sent.
Respond(c, res) ==
    LET mapping == Snapshot(store)
    IN  /\ at[c] = "upstream"
        /\ received' = [received EXCEPT ![c] =
              IF ~ config.redaction \/ res.code \in NoBody \/ ~ res.identity
              THEN out[c].text ELSE Detokenize(out[c].text, mapping)]
        /\ status' = [status EXCEPT ![c] = IF res.identity THEN res.code ELSE "encoded"]
        /\ Goto(c, "idle")
        /\ UNCHANGED <<rest, tunnel, request, out, events, granted>>

\* The hook endpoint of the management API records into the same store.
HookRecords(text) ==
    /\ config.redaction
    /\ LET outcome == Redact(text, MinSeverity, DetectSpans(text))
       IN  outcome.redacted /\ Record(outcome.mapping) /\ evicted' <= MaxEvicted
    /\ UNCHANGED <<config, at, tunnel, request, sent, out, status, received, events, granted,
                   evictedAtSend>>

Next ==
    \/ \E c \in Conns :
          \/ \E r \in config.requests[c] : Connect(c, r) \/ Submit(c, r)
          \/ Inspect(c) \/ BodyFails(c) \/ Approved(c) \/ Rejected(c)
          \/ \E res \in Responses : Respond(c, res)
    \/ \E text \in HookTexts : HookRecords(text)

Spec == Init /\ [][Next]_vars
-----------------------------------------------------------------------------
(* Properties.                                                              *)

Points == {"idle", "reading", "upstream", "opaque", "closed"} \cup Holding

\* The state of every connection is one the handler can be in, and the store is bounded.
TypeOK ==
    /\ config \in Settings
    /\ at \in [Conns -> Points]
    /\ sent \in [Conns -> 0 .. config.maxRequests]
    /\ \A c \in Conns : request[c] \in {NoRequest} \cup config.requests[c]
    /\ Len(store) <= MaxEntries /\ Bytes(store) <= MaxBytes

\* What reaches a service, as a request or through a tunnel nobody reads, goes to a
\* target that the policy or a human let this connection reach: an allowance for one
\* port or host is never used for another, however connections, holds and requests
\* on one tunnel interleave.  A database is never reached through an unread tunnel.
UpstreamIsAuthorized ==
    \A c \in Conns :
        /\ at[c] \in {"reading", "heldBody", "upstream"} => Target(request[c]) \in granted[c]
        /\ at[c] = "opaque" => /\ tunnel[c] \in granted[c]
                               /\ ~ Uninspectable(tunnel[c])

\* What a body says to its reader, whatever the gateway makes of it.
Legible(r) ==
    LET encodings == r.headers["content-encoding"]
    IN  \/ r.body.raw = "text" /\ encodings \in {<<>>, << <<"identity">> >>}
        \/ r.body.raw = "gzip" /\ encodings = << <<"gzip">> >>

\* Text a reader finds a secret in; in JSON, personal data outside a string is a number.
Leaks(r, text) ==
    \/ Occurrences(Credentials, text) # {}
    \/ \E o \in Occurrences({s \in DOMAIN Severity : Severity[s] >= MinSeverity}, text) :
          ~ r.json \/ InString(text, o[1])

\* With redaction on, no secret leaves in a body, unless for a reason the code names:
\* it is too long or not legible, it is part of an upload, or the client has signed
\* what would change and the operator chose to forward such requests.
SecretsStayHome ==
    \A c \in Conns :
        LET r == request[c]
        IN  at[c] = "upstream" /\ config.redaction /\ Leaks(r, out[c].text) =>
              \/ Len(r.body.text) > MaxInspectBody \/ ~ Legible(r)
              \/ Present(r.headers, "content-range")
              \/ config.signedBody = "forward" /\ (r.signsBody \/ r.covers # {})

\* A signature the client made still verifies: the headers it covers, and the body if
\* it covers that, leave as they came.  A request is blocked for its signature only if
\* it has one.
SignaturesHold ==
    \A c \in Conns :
        LET r == request[c]
        IN  /\ at[c] = "upstream" =>
                 /\ \A name \in r.covers : out[c].headers[name] = r.headers[name]
                 /\ r.signsBody => out[c].text = r.body.text
            /\ status[c] = "signed" => r.signsBody \/ r.covers # {}

\* A service that answers with what it was sent answers the client with what the client
\* sent, unless pairs of the store were evicted since the request left: the placeholders
\* are recorded before it leaves, and no other connection or hook takes them away.
EchoComesHome ==
    \A c \in Conns :
        at[c] = "idle" /\ status[c] = "200" /\ config.redaction /\ out[c].rewritten =>
            received[c] = request[c].body.text \/ evicted > evictedAtSend[c]

\* The audit log tells what became of a request: a refusal is its last event, a hold
\* ends in exactly one decision, and personal data that left was allowed or approved.
AuditTellsTheStory ==
    \A c \in Conns :
        LET decisions == {events[c][i].decision : i \in DOMAIN events[c]}
            last == events[c][Len(events[c])].decision
            Count(ds) == Cardinality({i \in DOMAIN events[c] : events[c][i].decision \in ds})
        IN  /\ at[c] = "closed" /\ status[c] # "400" =>
                 decisions # {} /\ last \in {"Denied", "Rejected"}
            /\ at[c] = "closed" /\ status[c] = "403" /\ last = "Rejected" =>
                 Len(events[c]) > 1 /\ events[c][Len(events[c]) - 1].decision = "Paused"
            /\ at[c] \in Holding <=> Count({"Paused"}) > Count({"Approved"})
                                     /\ decisions # {} /\ last = "Paused"
            /\ at[c] = "upstream" /\ PiiFacts(request[c]).count > 0 =>
                 decisions \cap {"Allowed", "Approved"} # {}

\* hyper takes the length out when it writes chunks, if it can parse one (external).
BothFramings(headers) ==
    /\ Present(headers, "transfer-encoding")
    /\ \/ Cardinality({headers["content-length"][i] : i \in DOMAIN headers["content-length"]}) > 1
       \/ \E i \in DOMAIN headers["content-length"] : headers["content-length"][i] \notin LengthTokens

\* On an HTTP/1.1 wire a request is never framed twice, unless the client did that; and
\* the trailers the client may send get there, unless its own headers are signed or
\* forbid it.
FramingSound ==
    \A c \in Conns :
        LET r == request[c]
        IN  at[c] = "upstream" =>
              /\ BothFramings(out[c].headers) => BothFramings(r.headers)
              /\ out[c].trailers \cap (ForbiddenTrailerFields \cup ConnectionNominated(r)) = {}
              /\ Scanned(r) /\ ~ out[c].rewritten /\ r.covers = {}
                   /\ LengthIsUnambiguous(r.headers) =>
                   \A t \in KeptTrailers(r) :
                       IsChunked(out[c].headers) /\ DeclaresTrailer(out[c].headers, t)

\* A request survives its rewriting: its service can verify it and read where it ends.
ServiceCanTakeIt == SignaturesHold /\ FramingSound
=============================================================================
