------------------------------ MODULE SignedBody ------------------------------
(***************************************************************************)
(* Whether a request is signed, and over what: signed_body.rs.  Three       *)
(* schemes are read from the headers and the query, each of which may cover *)
(* the body and any header.                                                 *)
(*                                                                         *)
(* A header value is a sequence of tokens: the punctuation the parsers look *)
(* at ("quote" and "backslash" by name), and words, in lower case.  Headers *)
(* map every name to the values it has, in order; a query maps a key to the *)
(* values of its pairs.                                                     *)
(***************************************************************************)
EXTENDS Integers, Sequences, FiniteSets

\* The tokens that part a value into pieces.
Blank == " "
Comma == ","
Semicolon == ";"

\* A value that is not visible ASCII: HeaderValue::to_str fails on it.
Opaque == "not text"
NotText == <<Opaque>>

BodyDigestHeaders == {"digest", "content-digest", "content-md5", "repr-digest"}
RewrittenFramingHeaders == {"content-length", "content-encoding", "transfer-encoding"}

-----------------------------------------------------------------------------
(* Reading values.                                                          *)

Trim(value) ==
    LET words == {i \in DOMAIN value : value[i] # Blank}
    IN  IF words = {} THEN <<>>
        ELSE SubSeq(value, CHOOSE i \in words : \A j \in words : i <= j,
                           CHOOSE i \in words : \A j \in words : i >= j)

\* The pieces between the given positions, trimmed.
SplitAt(value, positions) ==
    LET starts == {0} \cup positions
        stop(b) == CHOOSE e \in positions \cup {Len(value) + 1} :
                      e > b /\ \A f \in positions \cup {Len(value) + 1} : f > b => e <= f
    IN  {Trim(SubSeq(value, b + 1, stop(b) - 1)) : b \in starts}

SplitOn(value, mark) == SplitAt(value, {i \in DOMAIN value : value[i] = mark})

HeaderValues(headers, name) ==
    {Trim(headers[name][i]) : i \in DOMAIN headers[name]} \ {NotText}

\* header_str: the first value, which must be text; <<>> if there is none.
HeaderStr(headers, name) ==
    IF headers[name] = <<>> \/ headers[name][1] = NotText THEN <<>>
    ELSE Trim(headers[name][1])

Present(headers, name) == headers[name] # <<>>

\* Inside quotes, behind a backslash, and how deep in parentheses, after each prefix.
Lexed(value) ==
    LET after[i \in 0 .. Len(value)] ==
          IF i = 0 THEN [quoted |-> FALSE, escaped |-> FALSE, depth |-> 0]
          ELSE LET s == after[i - 1]  t == value[i] IN
               IF s.quoted
               THEN IF s.escaped THEN [s EXCEPT !.escaped = FALSE]
                    ELSE [s EXCEPT !.escaped = (t = "backslash"), !.quoted = (t # "quote")]
               ELSE [s EXCEPT !.quoted = (t = "quote"),
                              !.depth = IF t = "(" THEN @ + 1
                                        ELSE IF t = ")" /\ @ > 0 THEN @ - 1 ELSE @]
    IN  after

\* split_top_level_params: at the commas outside quotes and parentheses.
TopLevelParams(value) ==
    LET lexed == Lexed(value)
    IN  SplitAt(value, {i \in DOMAIN value :
                           value[i] = Comma /\ ~ lexed[i - 1].quoted /\ lexed[i - 1].depth = 0})

\* What a segment gives a parameter of some name, spaces around "=" allowed.
ParamValues(segments, name) ==
    {Trim(Tail(Trim(Tail(s)))) :
        s \in {t \in segments : /\ t # <<>> /\ Head(t) = name
                                /\ Trim(Tail(t)) # <<>> /\ Head(Trim(Tail(t))) = "="}}

-----------------------------------------------------------------------------
(* AWS SigV4.                                                               *)

IsSigV4Authorization(value) ==
    value # <<>> /\ Head(value) \in {"aws4-hmac-sha256", "aws4-ecdsa-p256-sha256"}

SigV4PresignedQuery(query) ==
    \E v \in query["x-amz-algorithm"] : IsSigV4Authorization(v)

SigV4Authenticates(r) ==
    IsSigV4Authorization(HeaderStr(r.headers, "authorization")) \/ SigV4PresignedQuery(r.query)

\* The lists of signed headers; the query's count only on a request that is SigV4,
\* and their separators are percent-encoded.
SignedHeaderLists(r) ==
    {SplitOn(list, Semicolon) :
        list \in UNION {ParamValues(TopLevelParams(v), "signedheaders") :
                          v \in {w \in HeaderValues(r.headers, "authorization") :
                                   IsSigV4Authorization(w)}}}
      \cup {SplitOn([i \in DOMAIN v |-> IF v[i] = "%3B" THEN Semicolon ELSE v[i]], Semicolon) :
              v \in {w \in r.query["x-amz-signedheaders"] : SigV4Authenticates(r)}}

SigV4SignsHeader(r, name) == \E list \in SignedHeaderLists(r) : <<name>> \in list

IsHexPayloadHash(hash) == hash = <<"hex">>
DeclaresUnsignedPayload(hash) ==
    hash \in {<<"unsigned-payload">>, <<"streaming-unsigned-payload-trailer">>}
DeclaresSignedPayload(hash) ==
    IsHexPayloadHash(hash)
      \/ hash \in {<<"streaming-aws4-hmac-sha256-payload">>,
                   <<"streaming-aws4-hmac-sha256-payload-trailer">>,
                   <<"streaming-aws4-ecdsa-p256-sha256-payload">>,
                   <<"streaming-aws4-ecdsa-p256-sha256-payload-trailer">>}

\* The payload hashes declared: the header's, or the query's of a presigned request
\* whose header says nothing.
PayloadHashes(r, presigned) ==
    LET fromHeader == HeaderValues(r.headers, "x-amz-content-sha256") \ {<<>>}
    IN  IF fromHeader # {} \/ ~ presigned THEN fromHeader
        ELSE r.query["x-amz-content-sha256"] \ {<<>>}

SigV4SignsBody(r) ==
    LET headerSigned == IsSigV4Authorization(HeaderStr(r.headers, "authorization"))
        presigned == ~ headerSigned /\ SigV4PresignedQuery(r.query)
        declared == PayloadHashes(r, presigned)
    IN  /\ \A hash \in declared : ~ DeclaresUnsignedPayload(hash)
        /\ headerSigned \/ (presigned /\ \E hash \in declared : DeclaresSignedPayload(hash))

-----------------------------------------------------------------------------
(* RFC 9421 message signatures.                                             *)

\* A digest of the body binds it, and so does the header that carries its hash.
BindsBody(headers, name) ==
    \/ name \in BodyDigestHeaders
    \/ name = "x-amz-content-sha256"
         /\ \E v \in HeaderValues(headers, "x-amz-content-sha256") : IsHexPayloadHash(v)

\* signature_input_lists_component: the quoted names inside the parentheses, those
\* that are the value of a parameter left out.
ListedComponents(value) ==
    LET lexed == Lexed(value)
        opens == {i \in DOMAIN value : value[i] = "quote" /\ ~ lexed[i - 1].quoted}
        closes(i) == {j \in DOMAIN value : j > i /\ value[j] = "quote"
                        /\ lexed[j - 1].quoted /\ ~ lexed[j - 1].escaped}
        isParamValue(i) == LET before == Trim(SubSeq(value, 1, i - 1))
                           IN  before # <<>> /\ before[Len(before)] = "="
        listed == {i \in opens : closes(i) # {} /\ lexed[i - 1].depth >= 1 /\ ~ isParamValue(i)}
    IN  {SubSeq(value, i + 1, (CHOOSE j \in closes(i) : \A k \in closes(i) : j <= k) - 1) :
            i \in listed}

MemberLabel(member) == Trim(SubSeq(member, 1, (CHOOSE i \in DOMAIN member :
                          member[i] = "=" /\ \A j \in 1 .. i - 1 : member[j] # "=") - 1))
Members(headers, name) ==
    {m \in UNION {TopLevelParams(v) : v \in HeaderValues(headers, name)} :
        /\ \E i \in DOMAIN m : m[i] = "="
        /\ MemberLabel(m) # <<>>}

\* The components that Signature-Input lists under a label Signature has too.
MessageSignatureComponents(headers) ==
    LET signed == {MemberLabel(m) : m \in Members(headers, "signature")}
    IN  UNION {ListedComponents(m) :
                 m \in {n \in Members(headers, "signature-input") : MemberLabel(n) \in signed}}

MessageSignaturePresent(headers) ==
    /\ HeaderValues(headers, "signature") \ {<<>>} # {}
    /\ HeaderValues(headers, "signature-input") \ {<<>>} # {}

-----------------------------------------------------------------------------
(* Draft-cavage signatures: in Signature, or in Authorization behind the     *)
(* scheme's name.                                                            *)

CavageCandidates(headers) ==
    HeaderValues(headers, "signature")
      \cup {Trim(Tail(v)) : v \in {w \in HeaderValues(headers, "authorization") :
              Len(w) > 1 /\ w[1] = "signature" /\ w[2] = Blank}}

\* Each headers="..." of the candidates, as the names it lists.
CavageLists(headers) ==
    LET quoted == {p \in UNION {ParamValues(TopLevelParams(v), "headers") :
                                  v \in CavageCandidates(headers)} :
                     /\ p # <<>> /\ Head(p) = "quote"
                     /\ \E i \in 2 .. Len(p) : p[i] = "quote"}
        upTo(p) == CHOOSE i \in 2 .. Len(p) :
                      p[i] = "quote" /\ \A j \in 2 .. i - 1 : p[j] # "quote"
    IN  {SplitOn(SubSeq(p, 2, upTo(p) - 1), Blank) : p \in quoted}

-----------------------------------------------------------------------------
(* What the gateway asks.                                                   *)

HeaderIsSigned(r, name) ==
    \/ SigV4SignsHeader(r, name)
    \/ <<name>> \in MessageSignatureComponents(r.headers)
    \/ \E list \in CavageLists(r.headers) : <<name>> \in list

SignedHeadersAmong(r, candidates) == {name \in candidates : HeaderIsSigned(r, name)}

\* A component is compared whole, and only a single name binds the body.
BodySignatureScheme(r) ==
    LET binds(component) == Len(component) = 1 /\ BindsBody(r.headers, Head(component))
    IN  IF SigV4SignsBody(r) THEN "aws-sigv4"
        ELSE IF \E c \in MessageSignatureComponents(r.headers) : binds(c)
        THEN "http-message-signature"
        ELSE IF \E list \in CavageLists(r.headers) : \E c \in list : binds(c)
        THEN "cavage-signature"
        ELSE "none"

AuthenticationSignsHeaders(r) ==
    \/ SigV4Authenticates(r)
    \/ MessageSignaturePresent(r.headers)
    \/ CavageLists(r.headers) # {}
=============================================================================
