------------------------------- MODULE Redaction -------------------------------
(***************************************************************************)
(* What honmoon rewrites in a text before it leaves, and what restores it:  *)
(* the detectors' findings, the substitution of placeholders for them, in   *)
(* plain text and in JSON, and the bounded store of the pairs it made.      *)
(*                                                                         *)
(* A text is a sequence of characters.  A surface is the sequence of        *)
(* characters a detector matched; which ones the detectors match is given   *)
(* by constants, since their patterns and checksums decide nothing here.    *)
(***************************************************************************)
EXTENDS Integers, Sequences, FiniteSets

CONSTANTS Credentials,    \* the surfaces detect_secrets reports
          Severity,       \* the surfaces detect_spans reports, each with its severity
          Placeholder,    \* what mint_placeholder derives from each surface
          Astral          \* the characters that are two UTF-16 code units

ASSUME PlaceholdersDiffer ==
    \A s, t \in DOMAIN Placeholder : Placeholder[s] = Placeholder[t] => s = t

\* By how much a may begin behind b, or ahead of it, where a text holds both and they
\* have a character in common.
Overlaps(a, b) ==
    {d \in 1 - Len(a) .. Len(b) - 1 : \A k \in DOMAIN a : k + d \in DOMAIN b => a[k] = b[k + d]}

\* A placeholder has its delimiters and a fixed length, and no pattern but a private
\* key's takes a delimiter, a quote or a backslash, or matches between the delimiters.
ASSUME PlaceholdersStandOut ==
    /\ Credentials \cup DOMAIN Severity \subseteq DOMAIN Placeholder
    /\ \A s \in DOMAIN Placeholder :
          /\ {s, Placeholder[s]} \subseteq Seq(STRING \ {"quote", "backslash"}) \ {<<>>}
          /\ \A t \in DOMAIN Placeholder :
                /\ Len(Placeholder[s]) = Len(Placeholder[t])
                /\ Overlaps(Placeholder[s], Placeholder[t]) \subseteq {0}
                /\ Overlaps(s, Placeholder[t]) = {}

-----------------------------------------------------------------------------
(* Detection: secret_detect.rs and pii.rs.                                  *)

OccursAt(surface, text, i) ==
    /\ i + Len(surface) - 1 <= Len(text)
    /\ SubSeq(text, i, i + Len(surface) - 1) = surface

\* Where the surfaces of a set occur: pairs of a position and a surface.
Occurrences(surfaces, text) ==
    {o \in (1 .. Len(text)) \X surfaces : OccursAt(o[2], text, o[1])}

Utf16Len(text) == Len(text) + Cardinality({i \in 1 .. Len(text) : text[i] \in Astral})

Before(text, i) == SubSeq(text, 1, i - 1)

DetectSecrets(text) == {o[2] : o \in Occurrences(Credentials, text)}

DetectSpans(text) ==
    {[start |-> Utf16Len(Before(text, o[1])), text |-> o[2]] :
        o \in Occurrences(DOMAIN Severity, text)}

MaxSeverity(spans) ==
    CHOOSE n \in {0} \cup {Severity[p.text] : p \in spans} :
        \A p \in spans : Severity[p.text] <= n

\* What a policy sees of the findings; no summary at all when there are none.
Summarize(spans) ==
    IF spans = {} THEN "none"
    ELSE [count |-> Cardinality(spans), max_severity |-> MaxSeverity(spans)]

-----------------------------------------------------------------------------
(* Substitution.  The automaton of a tokenizer takes the leftmost match and, *)
(* of those that start there, the longest; what JSON does with its sorted    *)
(* candidates is the same choice among fewer of them.                        *)

Longest(surfaces) == CHOOSE s \in surfaces : \A t \in surfaces : Len(t) <= Len(s)

\* What a text becomes when a part of it is put, for these surfaces, before the rest.
Put(part, surfaces, rest) == [text |-> part \o rest.text, used |-> surfaces \cup rest.used]

Substitute(text, candidates) ==
    LET from[i \in 1 .. Len(text) + 1] ==
          LET here == {o[2] : o \in {c \in candidates : c[1] = i}}
              s == Longest(here)
          IN  IF i > Len(text) THEN [text |-> <<>>, used |-> {}]
              ELSE IF here = {} THEN Put(<<text[i]>>, {}, from[i + 1])
              ELSE Put(Placeholder[s], {s}, from[i + Len(s)])
    IN  from[1]

\* The pairs a response needs: from a placeholder to the surface it stands for.
MappingOf(surfaces) ==
    [p \in {Placeholder[s] : s \in surfaces} |->
        CHOOSE s \in surfaces : Placeholder[s] = p]

Outcome(text, candidates) ==
    LET result == Substitute(text, candidates)
    IN  [text |-> result.text,
         redacted |-> result.used # {},
         mapping |-> MappingOf(result.used)]

Severe(spans, min) == {p \in spans : Severity[p.text] >= min}

Redact(text, min, spans) ==
    Outcome(text, Occurrences(DetectSecrets(text)
                                \cup {p.text : p \in Severe(spans, min)}, text))

-----------------------------------------------------------------------------
(* JSON: personal data is replaced only inside a string, so that a number    *)
(* stays a number; a credential is replaced wherever it occurs.              *)

\* As if a quote behind a backslash closed the string.
JsonStateUnescaped(text) ==
    LET after[i \in 0 .. Len(text)] ==
          IF i = 0 THEN "outside"
          ELSE LET s == after[i - 1] IN
               IF text[i] # "quote" THEN s ELSE IF s = "outside" THEN "inside" ELSE "outside"
    IN  after

\* A JSON lexer is outside a string, inside one, or inside one and behind a backslash.
Tracked(state, char) ==
    IF state = "outside" THEN (IF char = "quote" THEN "inside" ELSE "outside")
    ELSE IF state = "escaped" THEN "inside"
    ELSE IF char = "backslash" THEN "escaped"
    ELSE IF char = "quote" THEN "outside" ELSE "inside"

\* The lexer after each prefix of a text.
JsonState(text) ==
    LET after[i \in 0 .. Len(text)] ==
          IF i = 0 THEN "outside" ELSE Tracked(after[i - 1], text[i])
    IN  after

\* Whether a position of a JSON text is in a string.
InString(text, i) == JsonState(text)[i - 1] # "outside"

\* The spans a JSON text can have replaced, at the position each starts.
QuotedJsonSpans(text, spans) ==
    {o \in (1 .. Len(text)) \X {p.text : p \in spans} :
        /\ [start |-> Utf16Len(Before(text, o[1])), text |-> o[2]] \in spans
        /\ InString(text, o[1])
        /\ OccursAt(o[2], text, o[1])}

RedactJson(text, min, spans) ==
    Outcome(text, Occurrences(DetectSecrets(text), text)
                    \cup {o \in QuotedJsonSpans(text, spans) : Severity[o[2]] >= min})

-----------------------------------------------------------------------------
(* Detokenization of a whole text: every placeholder of the mapping becomes  *)
(* its secret, and everything else stays.  Detokenizer streams it.           *)

Detokenize(text, mapping) ==
    LET from[i \in 1 .. Len(text) + 1] ==
          LET here == {p \in DOMAIN mapping : OccursAt(p, text, i)}
          IN  IF i > Len(text) THEN <<>>
              ELSE IF here = {} THEN <<text[i]>> \o from[i + 1]
              ELSE LET p == CHOOSE p \in here : TRUE
                   IN  mapping[p] \o from[i + Len(p)]
    IN  from[1]

-----------------------------------------------------------------------------
(* The mapping store: pairs in the order they were last recorded, oldest     *)
(* first.  One entry is one unit of the bound on entries, and as many bytes  *)
(* as its secret has.                                                        *)

Bytes(entries) ==
    LET upTo[i \in 0 .. Len(entries)] ==
          IF i = 0 THEN 0 ELSE upTo[i - 1] + entries[i].bytes
    IN  upTo[Len(entries)]

\* BoundedMapping::insert: a pair recorded again becomes the most recent.
Insert(entries, e) ==
    LET same == {i \in DOMAIN entries : entries[i].placeholder = e.placeholder}
        at == CHOOSE i \in same : TRUE
    IN  IF same = {} THEN Append(entries, e)
        ELSE SubSeq(entries, 1, at - 1) \o Append(SubSeq(entries, at + 1, Len(entries)), e)

\* BoundedMapping::evict_to: the oldest go until both bounds hold.
EvictTo(entries, maxEntries, maxBytes) ==
    LET fits(k) == LET kept == SubSeq(entries, k + 1, Len(entries))
                   IN  Len(kept) <= maxEntries /\ Bytes(kept) <= maxBytes
        k == CHOOSE k \in 0 .. Len(entries) :
                fits(k) /\ \A j \in 0 .. k - 1 : ~ fits(j)
    IN  SubSeq(entries, k + 1, Len(entries))

\* MappingStore::record: the pairs of one outcome, in some order, then one eviction.
Recorded(entries, order, maxEntries, maxBytes) ==
    LET all[i \in 0 .. Len(order)] ==
          IF i = 0 THEN entries ELSE Insert(all[i - 1], order[i])
    IN  EvictTo(all[Len(order)], maxEntries, maxBytes)

\* MappingStore::snapshot
Snapshot(entries) ==
    [p \in {entries[i].placeholder : i \in 1 .. Len(entries)} |->
        LET i == CHOOSE i \in 1 .. Len(entries) : entries[i].placeholder = p
        IN  entries[i].secret]
=============================================================================
