------------------------------ MODULE HookVerdict ------------------------------
(***************************************************************************)
(* What the engine answers to one event of Claude Code, the same whichever  *)
(* transport asked: claude_code_hook.rs, with the path each transport       *)
(* resolves for it (hook.rs, honmoon-mgmt lib.rs).                          *)
(*                                                                         *)
(* A value is JSON, as a function from its pointers, the sequences of keys  *)
(* and indices that lead somewhere in it, to what is there: a string, a     *)
(* list, an object or something else.  A string is known by the surfaces it *)
(* holds and the placeholders it shows, pairs of a surface and the salt     *)
(* that derived it.  A path is its components, and a component its parts    *)
(* between dots, in lower case.                                             *)
(***************************************************************************)
EXTENDS Integers, Sequences, FiniteSets

CONSTANTS SecretSurfaces,     \* what detect_secrets finds
          PiiSeverity,        \* what detect_spans finds, and how severe each is
          MaxRedactDepth,     \* how deep a value is scanned
          Longer              \* the names that begin with each of Prefixes and go on

Absent == "-"                 \* a key the JSON object does not have
NoValue == <<>>               \* the same of a key whose value is JSON: no pointer leads anywhere
NoPath == [parts |-> <<>>]    \* and of one whose value is a path

-----------------------------------------------------------------------------
(* Values.                                                                  *)

Str(holds, shows) == [is |-> "string", holds |-> holds, shows |-> shows]
Marker == Str({}, {<<"depth limit", <<>>>>})
Leaf(node) == [pointer \in {<<>>} |-> node]
Root(value) == value[<<>>]
Null == Leaf([is |-> "null"])

Hit(s, min) == {x \in s.holds : x \in SecretSurfaces \/ PiiSeverity[x] >= min}

\* redact, on one string.
RedactString(s, salt, min) ==
    Str(s.holds \ Hit(s, min), s.shows \cup {<<x, salt>> : x \in Hit(s, min)})

\* redact_json_value: what lies as deep as the limit goes as a whole.
RedactJson(value, salt) ==
    [pointer \in {q \in DOMAIN value : Len(q) <= MaxRedactDepth} |->
        IF Len(pointer) = MaxRedactDepth THEN Marker
        ELSE IF value[pointer].is = "string" THEN RedactString(value[pointer], salt, 2)
        ELSE value[pointer]]

StringsOf(value) == {value[q] : q \in {p \in DOMAIN value : value[p].is = "string"}}

\* Whether redact_json_value changed anything.
Changes(value) ==
    \/ \E pointer \in DOMAIN value : Len(pointer) >= MaxRedactDepth
    \/ \E s \in StringsOf(value) : Hit(s, 2) # {}

\* Every surface somewhere in a value, severe enough to be rewritten.
Exposed(value) == UNION {Hit(s, 2) : s \in StringsOf(value)}

-----------------------------------------------------------------------------
(* Sensitive paths: is_sensitive_path.                                      *)

TemplateSuffixes == {"example", "sample", "template", "dist"}
SensitiveBasenames == {<<"", "git-credentials">>, <<"", "netrc">>, <<"", "npmrc">>,
                       <<"", "pypirc">>, <<"credentials">>, <<"", "env">>, <<"", "envrc">>}
SshKeyPrefixes == {"id_rsa", "id_dsa", "id_ecdsa", "id_ed25519"}
Prefixes == SshKeyPrefixes \cup {"credentials"}
SensitiveExtensions == {"pem", "key", "p12", "pfx", "keystore", "jks", "asc"}

ASSUME PrefixAssumption == DOMAIN Longer = Prefixes

Begins(part, prefix) == part = prefix \/ part \in Longer[prefix]
Base(path) == path.parts[Len(path.parts)]
Suffix(name) == IF Len(name) > 1 THEN name[Len(name)] ELSE ""

IsSensitivePath(path) ==
    LET base == Base(path)
        Under(dir) == {path.parts[i + 1] : i \in {j \in 1 .. Len(path.parts) - 1 :
                                                    Suffix(path.parts[j]) = dir}}
    IN  /\ Suffix(base) \notin TemplateSuffixes
        /\ \/ base \in SensitiveBasenames
           \/ Len(base) > 2 /\ base[1] = "" /\ base[2] = "env"
           \/ /\ \E prefix \in SshKeyPrefixes : Begins(base[1], prefix)
              /\ Suffix(base) # "pub"
           \/ Suffix(base) \in SensitiveExtensions
           \/ \E next \in Under("aws") : Begins(next[1], "credentials")
           \/ Under("gnupg") # {}

-----------------------------------------------------------------------------
(* Where a path leads.  files says of each path what is there: a file, a     *)
(* link to another path, a link to nothing, what may not be looked at, or    *)
(* nothing at all.                                                          *)

Seen(path) == IF IsSensitivePath(path) THEN "sensitive" ELSE "not sensitive"

\* canonicalize, and symlink_metadata of what it did not find.
ResolveAbsolute(files, path) ==
    CASE files[path].is = "file"    -> Seen(path)
      [] files[path].is = "link"    -> Seen(files[path].to)
      [] files[path].is = "absent"  -> "not sensitive"
      [] OTHER                      -> "unresolved"

\* handle_hook: the process stands where the agent stands.
ResolveInProcess(files, path) ==
    IF path = NoPath THEN "not sensitive" ELSE ResolveAbsolute(files, path)

\* resolve_agent_path: the gateway may stand elsewhere, so that a relative path it does not
\* find says nothing.
ResolveInGateway(files, path) ==
    IF path = NoPath THEN "not sensitive"
    ELSE IF path.absolute THEN ResolveAbsolute(files, path)
    ELSE IF files[path].is \in {"file", "link"} THEN ResolveAbsolute(files, path)
    ELSE "unresolved"

-----------------------------------------------------------------------------
(* Verdicts.  event is that of hookSpecificOutput, Absent without one.       *)

Noop == [event |-> Absent, decision |-> Absent, permission |-> Absent, updated |-> NoValue,
         foreign |-> FALSE]

PreToolUse(payload, resolution) ==
    IF /\ payload.tool \in {"Read", "Edit", "Write", "MultiEdit", "NotebookEdit"}
       /\ payload.path # NoPath
       /\ IsSensitivePath(payload.path) \/ resolution # "not sensitive"
    THEN [Noop EXCEPT !.event = "PreToolUse", !.permission = "deny"]
    ELSE Noop

PostToolUse(payload, salt) ==
    IF payload.tool \in {"Read", "Bash", "Grep"} /\ Changes(payload.response)
    THEN [Noop EXCEPT !.event = "PostToolUse", !.updated = RedactJson(payload.response, salt)]
    ELSE Noop

UserPromptSubmit(payload) ==
    IF Hit(Root(payload.prompt), 3) # {} THEN [Noop EXCEPT !.decision = "block"] ELSE Noop

\* claude_code_hook_verdict
Verdict(payload, salt, resolution) ==
    CASE payload.event = "PreToolUse"       -> PreToolUse(payload, resolution)
      [] payload.event = "PostToolUse"      -> PostToolUse(payload, salt)
      [] payload.event = "UserPromptSubmit" -> UserPromptSubmit(payload)
      [] OTHER                              -> Noop

\* hook_salt_context and derive_hook_salt.
Salt(key, pinned, session) == <<key, IF pinned # Absent THEN pinned ELSE session>>
=============================================================================
