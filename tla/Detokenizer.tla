------------------------------ MODULE Detokenizer ------------------------------
(***************************************************************************)
(* The body of one response on its way back to the client: DetokenizingBody *)
(* over a StreamingDetokenizer.  The service sends the body in frames cut   *)
(* anywhere, between the bytes of a character and inside a placeholder      *)
(* included; what reaches the client must not depend on the cuts.           *)
(*                                                                         *)
(* The request whose echo comes back is chosen in the initial state and     *)
(* redacted by Redaction, so that a run follows a secret out and home.      *)
(***************************************************************************)
EXTENDS Redaction, TLC

CONSTANTS Prefix,           \* PLACEHOLDER_PREFIX
          PlaceholderLen,   \* MAX_PLACEHOLDER_LEN: every placeholder is this long
          Encoding,         \* the bytes of each character
          Continuation,     \* the bytes that only continue a character
          MinSeverity,      \* DEFAULT_MIN_PII_SEVERITY
          FrameSizes,       \* how many bytes of a body may come in one frame
          Requests,         \* the request texts a client may send
          Replies           \* the ways a service may answer: see Init

VARIABLES request,      \* the text the client sent, and whether it was JSON
          mapping,      \* the snapshot this response was given
          body,         \* the bytes the service sends
          trailers,     \* whether a trailer frame follows them
          arrived,      \* how many of them have been polled from the service
          carry,        \* bytes of a character whose end has not arrived
          buffer,       \* text that may yet become a placeholder
          passthrough,  \* the body turned out not to be text
          pending,      \* a trailer frame waiting behind the last bytes
          finished,     \* the detokenizer has been drained
          sent,         \* the bytes the client has received
          ended         \* how the body ended for the client

vars == <<request, mapping, body, trailers, arrived, carry, buffer, passthrough,
          pending, finished, sent, ended>>
input == <<request, mapping, body, trailers>>

-----------------------------------------------------------------------------
(* Bytes.                                                                   *)

Encode(text) ==
    LET upTo[i \in 0 .. Len(text)] ==
          IF i = 0 THEN <<>> ELSE upTo[i - 1] \o Encoding[text[i]]
    IN  upTo[Len(text)]

Characters == DOMAIN Encoding

\* The characters that begin at a position of some bytes, whole or cut short.
Whole(bytes, i) == {c \in Characters : OccursAt(Encoding[c], bytes, i)}
CutShort(bytes, i) ==
    \E c \in Characters :
        LET rest == SubSeq(bytes, i, Len(bytes))
        IN  Len(rest) < Len(Encoding[c]) /\ SubSeq(Encoding[c], 1, Len(rest)) = rest

\* std::str::from_utf8: how much is text, and whether the rest may still become so.
Utf8(bytes) ==
    LET from[i \in 1 .. Len(bytes) + 1] ==
          IF i > Len(bytes) THEN [validUpTo |-> i - 1, error |-> "none"]
          ELSE IF Whole(bytes, i) # {}
               THEN from[i + Len(Encoding[CHOOSE c \in Whole(bytes, i) : TRUE])]
          ELSE [validUpTo |-> i - 1,
                error |-> IF CutShort(bytes, i) THEN "incomplete" ELSE "invalid"]
    IN  from[1]

-----------------------------------------------------------------------------
(* StreamingDetokenizer.                                                    *)

\* Where the prefix first occurs at or after a position; 0 if nowhere.
FindPrefix(bytes, i) ==
    LET at == {j \in i .. Len(bytes) : OccursAt(Prefix, bytes, j)}
    IN  IF at = {} THEN 0 ELSE CHOOSE j \in at : \A k \in at : j <= k

\* partial_prefix_suffix_len: the longest proper part of the prefix a text ends with.
PartialPrefix(bytes) ==
    LET fits(n) == n <= Len(bytes)
                   /\ SubSeq(bytes, Len(bytes) - n + 1, Len(bytes)) = SubSeq(Prefix, 1, n)
    IN  CHOOSE n \in 0 .. Len(Prefix) - 1 :
            fits(n) /\ \A m \in n + 1 .. Len(Prefix) - 1 : ~ fits(m)

Secret(candidate) == Encode(mapping[candidate])

\* How much of the text at the end is kept when it holds no prefix.
KeptBack(bytes, isFinal) == IF isFinal THEN 0 ELSE PartialPrefix(bytes)

\* drain: the text it gives out, and the text it keeps.
Drain(text, isFinal) ==
    LET n == Len(text)
        FullCandidate(i) ==
            /\ n - i + 1 >= PlaceholderLen
            /\ i + PlaceholderLen <= n => text[i + PlaceholderLen] \notin Continuation
        Candidate(i) == SubSeq(text, i, i + PlaceholderLen - 1)
        from[i \in 1 .. n + 1] ==
          LET at == FindPrefix(text, i)
              rest == SubSeq(text, i, n)
              lead == SubSeq(text, i, at - 1)
              Then(out, next) == [from[next] EXCEPT !.out = lead \o out \o @]
          IN  IF at = 0
              THEN LET kept == KeptBack(rest, isFinal)
                   IN  [out |-> SubSeq(text, i, n - kept), keep |-> SubSeq(text, n - kept + 1, n)]
              ELSE IF FullCandidate(at) /\ Candidate(at) \in DOMAIN mapping
              THEN Then(Secret(Candidate(at)), at + PlaceholderLen)
              ELSE IF n - at + 1 >= PlaceholderLen
              THEN Then(<<text[at]>>, at + 1)
              ELSE IF ~ isFinal
              THEN [out |-> lead, keep |-> SubSeq(text, at, n)]
              ELSE [out |-> rest, keep |-> <<>>]
    IN  from[1]

-----------------------------------------------------------------------------
(* DetokenizingBody.  The trailer frame is one byte of its own in what the   *)
(* client receives, so that its place among the others is visible.           *)

Trailers == <<"trailers">>

\* redacted_request's choice of a rewriter; the spans are the request's own.
RedactedText(r) ==
    IF r.json THEN RedactJson(r.text, MinSeverity, DetectSpans(r.text))
              ELSE Redact(r.text, MinSeverity, DetectSpans(r.text))

\* What a service that answers with what it was sent may send, in full or not.
Answers(reply, echo) ==
    CASE reply = "echo"    -> {echo}
      [] reply = "cut"     -> {SubSeq(echo, 1, n) : n \in 0 .. Len(echo)}
      [] reply = "invalid" -> {SubSeq(echo, 1, n) \o <<"invalid">>
                                 \o SubSeq(echo, n + 1, Len(echo)) : n \in 0 .. Len(echo)}

Bodies(echo) == UNION {Answers(reply, echo) : reply \in Replies}

Init ==
    /\ request \in Requests
    /\ mapping \in {RedactedText(request).mapping, MappingOf(DOMAIN Placeholder)}
    /\ body \in Bodies(Encode(RedactedText(request).text))
    /\ trailers \in BOOLEAN
    /\ arrived = 0
    /\ carry = <<>> /\ buffer = <<>> /\ pending = <<>> /\ sent = <<>>
    /\ passthrough = FALSE /\ finished = FALSE
    /\ ended = "open"

\* As if a character cut short by the end were nobody's.
HeldBackText == IF passthrough THEN <<>> ELSE Drain(buffer, TRUE).out

\* finish_bytes, the first time: what the detokenizer and the carry still hold.
HeldBack == IF passthrough THEN <<>> ELSE Drain(buffer, TRUE).out \o carry

\* StreamingDetokenizer::push of valid text, the rest carried to the next frame.
Push(text, rest) ==
    LET drained == Drain(buffer \o text, FALSE)
    IN  /\ sent' = sent \o drained.out
        /\ buffer' = drained.keep
        /\ carry' = rest
        /\ UNCHANGED passthrough

\* transform_data of a frame of n bytes, by what they are with those carried over.
PollData(n) ==
    LET data == SubSeq(body, arrived + 1, arrived + n)
        combined == carry \o data
        utf8 == Utf8(combined)
    IN  /\ ended = "open" /\ ~ finished
        /\ arrived + n <= Len(body)
        /\ arrived' = arrived + n
        /\ \/ /\ passthrough
              /\ sent' = sent \o data
              /\ UNCHANGED <<carry, buffer, passthrough>>
           \/ /\ ~ passthrough /\ utf8.error # "invalid"
              /\ Push(SubSeq(combined, 1, utf8.validUpTo),
                      SubSeq(combined, utf8.validUpTo + 1, Len(combined)))
           \/ /\ ~ passthrough /\ utf8.error = "invalid"
              /\ sent' = sent \o Drain(buffer, TRUE).out \o combined
              /\ passthrough' = TRUE
              /\ buffer' = <<>> /\ carry' = <<>>
        /\ UNCHANGED <<input, pending, finished, ended>>

\* The detokenizer is drained into one frame, and the trailers wait behind it.
Drained(behind) ==
    /\ finished' = TRUE
    /\ buffer' = <<>> /\ carry' = <<>>
    /\ IF HeldBack = <<>> THEN sent' = sent \o behind /\ pending' = <<>>
                      ELSE sent' = sent \o HeldBack   /\ pending' = behind

PollTrailers ==
    /\ ended = "open" /\ ~ finished
    /\ trailers /\ arrived = Len(body)
    /\ arrived' = arrived + 1
    /\ Drained(Trailers)
    /\ UNCHANGED <<input, passthrough, ended>>

\* The trailers held back come before the end is noticed.
PollPending ==
    /\ ended = "open" /\ pending # <<>>
    /\ sent' = sent \o pending
    /\ pending' = <<>>
    /\ UNCHANGED <<input, arrived, carry, buffer, passthrough, finished, ended>>

\* The service's end: what was still held goes first, and the end with the next poll.
PollEnd ==
    /\ ended = "open" /\ ~ finished
    /\ ~ trailers /\ arrived = Len(body)
    /\ Drained(<<>>)
    /\ ended' = IF HeldBack = <<>> THEN "complete" ELSE "open"
    /\ UNCHANGED <<input, arrived, passthrough>>

PollAfterEnd ==
    /\ ended = "open" /\ finished /\ pending = <<>>
    /\ ended' = "complete"
    /\ UNCHANGED <<input, arrived, carry, buffer, passthrough, pending, finished, sent>>

\* An error of the service is passed on, and what was held back goes with it.
PollError ==
    /\ ended = "open" /\ ~ finished
    /\ ended' = "failed"
    /\ UNCHANGED <<input, arrived, carry, buffer, passthrough, pending, finished, sent>>

Next ==
    \/ \E n \in FrameSizes : PollData(n)
    \/ PollTrailers \/ PollPending \/ PollEnd \/ PollAfterEnd \/ PollError

Spec == Init /\ [][Next]_vars

-----------------------------------------------------------------------------
(* Properties.                                                              *)

\* What the whole body restores to, with no regard to how it arrived.
Restored(bytes) == Detokenize(bytes, [p \in DOMAIN mapping |-> Encode(mapping[p])])

IsPrefixOf(s, t) == Len(s) <= Len(t) /\ SubSeq(t, 1, Len(s)) = s

\* What is held back is bounded however the body is cut: never a whole placeholder,
\* and never a whole character (streaming/mod.rs's bound on its buffer, body.rs:563).
TypeOK ==
    /\ arrived \in 0 .. Len(body) + 1
    /\ ended \in {"open", "complete", "failed"}
    /\ Len(buffer) < PlaceholderLen
    /\ Len(carry) < 4
    /\ passthrough => buffer = <<>> /\ carry = <<>>
    /\ finished => buffer = <<>> /\ carry = <<>>
    /\ pending # <<>> => finished

\* However the frames cut it, the client gets the bytes the body restores to as a
\* whole, in order and with the trailers last.  When the body turns out not to be
\* text, what arrived before some byte is restored and the rest is left as it is.
StreamedAsWhole ==
    LET full == Restored(body) \o (IF trailers THEN Trailers ELSE <<>>)
        verbatim(k) == Restored(SubSeq(body, 1, k))
                         \o SubSeq(body \o Trailers, k + 1, arrived)
    IN  /\ ~ passthrough => IsPrefixOf(sent, full)
        /\ ~ passthrough /\ ended = "complete" => sent = full
        /\ passthrough => \E k \in 0 .. Len(body) : k <= arrived /\ sent = verbatim(k)

\* A service that echoes what it was sent answers with what the client wrote, and
\* never shows it a placeholder, unless the client wrote a placeholder itself.
RoundTrip ==
    ended = "complete" /\ body = Encode(RedactedText(request).text)
      /\ (\A p \in DOMAIN mapping : Occurrences({p}, request.text) = {})
        => sent = Encode(request.text) \o (IF trailers THEN Trailers ELSE <<>>)

\* The client has its text back as if nothing had been taken out of it on the way.
RestoredWhole == StreamedAsWhole /\ RoundTrip

\* The characters of a JSON text outside its strings, quotes included: those behind
\* an even number of the quotes that no odd run of backslashes escapes.
Skeleton(text) ==
    LET Run(i) == CHOOSE n \in 0 .. i - 1 :
                     /\ \A k \in i - n .. i - 1 : text[k] = "backslash"
                     /\ n < i - 1 => text[i - n - 1] # "backslash"
        real == {i \in 1 .. Len(text) : text[i] = "quote" /\ Run(i) % 2 = 0}
        outside == {i \in 1 .. Len(text) : Cardinality({j \in real : j < i}) % 2 = 0}
        upTo[i \in 0 .. Len(text)] ==
          IF i = 0 THEN <<>>
          ELSE IF i \in outside THEN Append(upTo[i - 1], text[i]) ELSE upTo[i - 1]
    IN  upTo[Len(text)]

\* Redacting a JSON body changes nothing outside its strings, so that a number that
\* looks like personal data is still a number, unless a credential stands there.
JsonKeepsItsShape ==
    LET redacted == RedactedText(request).text
        bare == Occurrences(Credentials, Skeleton(request.text))
    IN  request.json /\ bare = {} => Skeleton(redacted) = Skeleton(request.text)
=============================================================================
