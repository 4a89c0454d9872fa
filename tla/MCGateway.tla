------------------------------ MODULE MCGateway ------------------------------
EXTENDS Gateway

Conn1 == "c1"
Conn2 == "c2"
MCConns == {Conn1, Conn2}

Key     == <<"k", "m">>
Email   == <<"w", "@">>
Address == <<"i">>
MCCredentials == {Key}
MCSeverity == (Email :> 2) @@ (Address :> 1)
MCPlaceholder == (Key :> <<"<", "1", ">">>) @@ (Email :> <<"<", "2", ">">>)
                   @@ (Address :> <<"<", "3", ">">>)
MCAstral == {}

-----------------------------------------------------------------------------
(* Policies.                                                                *)

Api   == <<"api", "corp">>
Other == <<"evil">>
DbHost == <<"db">>
Kube  == <<"kube">>

Egress == [default |-> "deny", allow |-> {[wildcard |-> TRUE, labels |-> <<"corp">>]}, deny |-> {}]
Endpoints == << [name |-> "db", host |-> DbHost, port |-> 5432, protocol |-> "postgres"],
                [name |-> "kube", host |-> Kube, port |-> 443, protocol |-> "kubernetes"] >>
Rule(name, endpoint, condition, verdict) ==
    [name |-> name, endpoint |-> endpoint, condition |-> condition, verdict |-> verdict]
Policy(rules) == [egress |-> Egress, endpoints |-> Endpoints, rules |-> rules]

Lax  == Policy(<<>>)
Deny == Policy(<<Rule("no pii", "*", "pii.count > 0", "deny")>>)
Ask  == Policy(<<Rule("ask pii", "*", "pii.count > 0", "pause")>>)
Held == Policy(<<Rule("no delete", "kube", "k8s.verb == 'delete'", "deny"),
                 Rule("ask kube", "kube", "true", "pause")>>)

-----------------------------------------------------------------------------
(* Requests.                                                                *)

Names == {"authorization", "signature", "signature-input", "x-amz-content-sha256",
          "content-length", "content-encoding", "transfer-encoding", "content-range",
          "accept-encoding", "trailer", "connection"} \cup BodyDigestHeaders
Bare == [name \in Names |-> <<>>]
NoQuery == [key \in {"x-amz-algorithm", "x-amz-signedheaders", "x-amz-content-sha256"} |-> {}]

Body(text, raw, trailers) == [text |-> text, raw |-> raw, trailers |-> trailers, breaks |-> FALSE]

Make(method, host, port, headers, body) ==
    [method |-> method, scheme |-> "https", host |-> host, port |-> port, path |-> <<"/", "x">>,
     json |-> FALSE, headers |-> headers, query |-> NoQuery, body |-> body,
     covers |-> {}, signsBody |-> FALSE]
Post(headers, body) == Make("POST", Api, 0, headers, body)

With(headers, name, values) == [headers EXCEPT ![name] = values]
Length(n) == << <<ToString(n)>> >>

\* Bodies, with and without something to rewrite.
Texts == {<<"a">>, <<"<">> \o Key, Email, Address, Key \o Email \o <<"a", "a", "a">>}
Encodings == {<<>>, << <<"identity">> >>, << <<"gzip">> >>, << <<"br">> >>, <<NotText>>}
Encoded ==
    {Post(With(Bare, "content-encoding", e), Body(t, raw, {})) :
        e \in Encodings, t \in Texts, raw \in {"text", "cut", "binary", "gzip", "bomb"}}
Partial == {Post(With(Bare, "content-range", << <<"part">> >>), Body(Key, "text", {}))}
Json == {[Post(Bare, Body(<<"quote">> \o t \o <<"quote">> \o u, "text", {})) EXCEPT !.json = TRUE] :
            t \in {Key, Email, Address}, u \in {<<>>, Key, Email}}
Broken == {[Post(Bare, Body(Key, "text", {})) EXCEPT !.body.breaks = TRUE]}

\* Signed requests: what the signature says it covers, and what it does cover.
Signed(headers, text, covers, signsBody) ==
    {[Post(headers, Body(text, "text", {"x-t"})) EXCEPT !.covers = covers, !.signsBody = signsBody]}
SigV4(list, hash) ==
    With(With(Bare, "authorization", << <<"aws4-hmac-sha256", " ", "credential", "=", "id", ",", " ", "signedheaders", "=">> \o list >>),
         "x-amz-content-sha256", << <<hash>> >>)
MessageSigned(component) ==
    With(With(Bare, "signature-input", << <<"s", "=", "(", "quote", component, "quote", ")">> >>),
         "signature", << <<"s", "=", ":", "x", ":">> >>)
Cavage(name) ==
    With(Bare, "authorization", << <<"signature", " ", "headers", "=", "quote", name, "quote">> >>)

SignedOnes ==
    UNION {Signed(With(SigV4(<<"host", ";", "content-length">>, "hex"), "content-length", Length(Len(t))),
                  t, {"content-length"}, TRUE)
             \cup Signed(With(SigV4(<<"host", ";", "content-length">>, "unsigned-payload"),
                              "content-length", Length(Len(t))), t, {"content-length"}, FALSE)
             \cup Signed(With(MessageSigned("content-digest"), "content-digest", << <<"d">> >>),
                         t, {"content-digest"}, TRUE)
             \cup Signed(MessageSigned("trailer"), t, {"trailer"}, FALSE)
             \cup Signed(Cavage("accept-encoding"), t, {"accept-encoding"}, FALSE)
             \cup Signed(Cavage("transfer-encoding"), t, {"transfer-encoding"}, FALSE) :
                t \in {<<"a">>, <<"a">> \o Key}}

\* Trailers, with every framing a client may send them in.
Framings == {Bare, With(Bare, "content-length", Length(1)),
             With(Bare, "content-length", Length(1) \o Length(2)),
             With(Bare, "content-length", << <<"1", ",", "2">> >>),
             With(Bare, "transfer-encoding", << <<"chunked">> >>),
             With(With(Bare, "transfer-encoding", << <<"chunked">> >>), "trailer", << <<"x-t">> >>),
             With(Bare, "connection", << <<"x-t", ",", "close">> >>)}
Trailing == {Post(h, Body(<<"a">>, "text", ts)) :
                h \in Framings, ts \in {{"x-t"}, {"x-t", "x-u"}, {"x-t", "content-length"}}}

Alone == Encoded \cup Partial \cup Json \cup Broken \cup SignedOnes \cup Trailing

\* Two connections at once: tunnels to a host and its other port, to a cluster, to a
\* database, and requests that stay in the tunnel or leave it.
ConnectTo(host, port) == Make("CONNECT", host, port, Bare, Body(<<>>, "text", {}))
Busy1 == {ConnectTo(Api, 443), ConnectTo(Kube, 0), ConnectTo(DbHost, 5432), ConnectTo(Other, 443),
          Make("POST", Api, 443, Bare, Body(Key, "text", {})),
          Make("POST", Api \o <<"">>, 8443, Bare, Body(Email, "text", {})),
          Make("DELETE", Kube, 0, Bare, Body(<<>>, "text", {})),
          Make("GET", Kube, 80, Bare, Body(<<>>, "text", {})),
          Make("GET", Kube, 0, Bare, Body(<<>>, "text", {}))}
Busy2 == {Make("POST", Api, 0, Bare, Body(Email, "text", {}))}

Config(policy, mode, redaction, signed, intercept, one, two, most) ==
    [policy |-> policy, piiMode |-> mode, redaction |-> redaction, signedBody |-> signed,
     intercept |-> intercept, interceptHosts |-> {Api}, requests |-> (Conn1 :> one) @@ (Conn2 :> two),
     maxRequests |-> most]

MCSettings ==
    {Config(p, m, b, s, "all", Alone, {}, 1) :
        p \in {Lax, Deny, Ask}, m \in {"detect", "block"}, b \in {TRUE}, s \in {"block", "forward"}}
      \cup {Config(Ask, "block", FALSE, "block", "all", Alone, {}, 1)}
      \cup {Config(p, "block", TRUE, "block", i, Busy1, Busy2, 2) :
              p \in {Ask, Held}, i \in {"none", "all", "hosts"}}
MCHookTexts == {Key}
=============================================================================
