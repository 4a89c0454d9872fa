-------------------------------- MODULE Plugin --------------------------------
(***************************************************************************)
(* The Claude Code plugin: honmoon.ts.  Tool calls and prompts are handled  *)
(* at once; each asks the engine, through a process it spawns or through a  *)
(* gateway that runs, and lets the content go, rewrites it or withholds it. *)
(* The engine may fail in every way, or answer what is no answer; the hook  *)
(* has a budget of time, and the session lookup is shared.                  *)
(***************************************************************************)
EXTENDS MachineKey, HookVerdict

CONSTANTS Calls,        \* the tool calls and prompts
          Situations,   \* what they are and how the plugin is configured
          ProcOf,       \* of a call and "pre" or "post", the process it spawns
          Gateway,      \* the process that answers over HTTP
          MaxLookups    \* bound: how many session lookups are started

VARIABLES setting,      \* transport, failClosed, error, pinned, files, calls, faults, silent, worlds
          step,         \* where the handler of each call is
          lookups,      \* the session lookups: "pending", "ok", "failed"
          cached,       \* the one sessionId holds, 0 for none
          awaits,       \* the one each call awaits, 0 once that is over
          spawned,      \* the processes that run
          shown,        \* what the model was shown of each call
          outcome,      \* "none", "withheld", "passed", "rewritten"
          ran,          \* whether the tool ran
          noticed,      \* the calls whose systemMessage was logged
          misled        \* history: the calls of which something said nothing unasked

pluginVars == <<setting, step, lookups, cached, awaits, spawned, shown, outcome, ran,
                noticed, misled>>
vars == <<keyVars, pluginVars>>

-----------------------------------------------------------------------------
(* Replies: what a transport brings back, and parseVerdict of it.            *)

Of(verdict, warnings) == [body |-> "object", notice |-> warnings # {}, verdict |-> verdict]
Empty == Of(Noop, {})
Status == [Empty EXCEPT !.body = "status"]     \* not ok, or not exit 0, or thrown

\* A reply that is an object may hold a key no verdict has, or null for an output.
Ok(reply) ==
    \/ reply.body = "empty" /\ setting.transport = "process"
    \/ /\ reply.body = "object"
       /\ ~reply.verdict.foreign
       /\ reply.verdict.updated # Null

\* Why a verdict is not one on what was asked.
Misrouted(v, sent, foreign) ==
    \/ v.event # Absent /\ v.event # sent
    \/ "decision" \in foreign /\ v.decision # Absent
    \/ "updated" \in foreign /\ v.updated # NoValue
    \/ "permission" \in foreign /\ v.permission # Absent
    \/ /\ v.event # Absent
       /\ v.decision = Absent /\ v.updated = NoValue /\ v.permission = Absent

NotPre == {"decision", "updated"}
NotPost == {"decision", "permission"}
NotPrompt == {"permission"}

\* The same lists and objects around the same strings, and all else as it was.
SameShape(replacement, original) ==
    /\ DOMAIN replacement = DOMAIN original
    /\ \A q \in DOMAIN original :
          IF original[q].is \in {"list", "object", "string"}
          THEN replacement[q].is = original[q].is
          ELSE replacement[q] = original[q]

\* A strange reply that says something is no verdict, or one that holds nothing an engine
\* would have rewritten.
Shows(reply) ==
    /\ reply.body # "empty"
    /\ \/ reply.body # "object" \/ reply.verdict.foreign \/ reply.verdict.updated = Null
       \/ /\ \/ reply.verdict.event # Absent \/ reply.verdict.decision # Absent
             \/ reply.verdict.permission # Absent \/ reply.verdict.updated # NoValue
          /\ Exposed(reply.verdict.updated) = {}

\* What is scanned is JSON, and an error is a record; a strange reply is a failure, some other
\* verdict, or says nothing.
ASSUME PluginAssumption ==
    /\ MaxRedactDepth \in Nat
    /\ \A s \in Situations :
          /\ \A c \in Calls :
                /\ <<>> \in DOMAIN s.calls[c].result
                /\ s.calls[c].isError => Root(s.calls[c].result).is = "object"
          /\ \A reply \in s.faults : Shows(reply) \/ reply.verdict = Noop

-----------------------------------------------------------------------------
(* What is asked.                                                           *)

Call(c) == setting.calls[c]
EngineToolName(tool) == IF tool \in {"Bash", "Grep"} THEN tool ELSE "Read"
Session == "session"

\* Of an errored call the strings the model or the transcript reads, and nothing else.
ErroredStrings(value) ==
    [q \in {p \in DOMAIN value :
                p = <<>> \/ (p \in {<<"text">>, <<"result">>} /\ value[p].is = "string")} |-> value[q]]

\* Whether a call that has run has anything to ask about.
Asked(c) ==
    IF Call(c).isError THEN DOMAIN ErroredStrings(Call(c).result) # {<<>>} ELSE Call(c).scannable

Payload(event, tool, path, response) ==
    [event |-> event, tool |-> tool, path |-> path, response |-> response, prompt |-> response]

PayloadOf(c) ==
    IF step[c] = "pre" THEN Payload("PreToolUse", "Read", Call(c).path, NoValue)
    ELSE IF Call(c).kind = "command"
    THEN Payload("UserPromptSubmit", Absent, NoPath, Call(c).result)
    ELSE IF Call(c).kind = "prompt" THEN Payload("PostToolUse", "Read", NoPath, Call(c).result)
    ELSE IF Call(c).isError
    THEN Payload("PostToolUse", "Read", NoPath, ErroredStrings(Call(c).result))
    ELSE Payload("PostToolUse", EngineToolName(Call(c).tool), NoPath, Call(c).result)

\* The process that answers it, and what the engine says with the key that process has.
Phase(c) == IF step[c] = "pre" THEN "pre" ELSE "post"
Answerer(c) == IF setting.transport = "http" /\ Call(c).kind # "command" THEN Gateway
               ELSE ProcOf[c][Phase(c)]

Resolution(c, path) == IF setting.transport = "http" THEN ResolveInGateway(setting.files, path)
                       ELSE ResolveInProcess(setting.files, path)

EngineReply(c) ==
    LET p == Answerer(c)
        v == Verdict(PayloadOf(c), Salt(status[p].key, setting.pinned, Session),
                     Resolution(c, PayloadOf(c).path))
        m == IF p = Gateway THEN {} ELSE message[p]
    IN  IF p # Gateway /\ v = Noop /\ m = {} THEN [Empty EXCEPT !.body = "empty"] ELSE Of(v, m)

\* The honest reply once the process has its key; a failure, or a strange reply, at any time.
Honest(c) ==
    IF Answerer(c) \in spawned /\ Keyed(Answerer(c)) /\ ~setting.error THEN {EngineReply(c)} ELSE {}
Replies(c) == Honest(c) \cup (IF setting.error THEN {Status} ELSE setting.faults)

\* `{}`, or an empty output, is how the engine permits: one of anything else reads the same.
Misled(c, reply) ==
    misled' = IF Ok(reply) /\ reply.verdict = Noop /\ reply \notin Honest(c)
              THEN misled \cup {c} ELSE misled

-----------------------------------------------------------------------------
PluginInit ==
    /\ setting \in Situations /\ world \in setting.worlds
    /\ step = [c \in Calls |-> "start"]
    /\ lookups = <<>>
    /\ cached = 0
    /\ awaits = [c \in Calls |-> 0]
    /\ spawned = IF setting.transport = "http" THEN {Gateway} ELSE {}
    /\ shown = [c \in Calls |-> NoValue]
    /\ outcome = [c \in Calls |-> "none"]
    /\ ran = {}
    /\ noticed = {}
    /\ misled = {}

Init == KeyInit /\ PluginInit

EngineKept == UNCHANGED <<keyVars, setting, lookups, cached, awaits>>
SessionKept == UNCHANGED <<keyVars, setting>>

\* Where a handler ends, and what the model then has.
Ends(c, how, value) ==
    /\ step' = [step EXCEPT ![c] = "done"]
    /\ outcome' = [outcome EXCEPT ![c] = how]
    /\ shown' = [shown EXCEPT ![c] = value]

\* next(e): the tool runs, or the prompt goes on.
Withholds(c) == Ends(c, "withheld", NoValue)
Proceeds(c) == Ends(c, "passed", Call(c).result)

\* An engine that cannot be trusted withholds the content when it fails closed.
Unavailable(c) == IF setting.failClosed THEN Withholds(c) ELSE Proceeds(c)

-----------------------------------------------------------------------------
(* The session lookup: once, sessionFacts.                                  *)

Begin(c) ==
    /\ step[c] = "start"
    /\ IF Call(c).kind = "command"
       THEN /\ step' = [step EXCEPT ![c] = "post"]
            /\ spawned' = spawned \cup (IF setting.error THEN {} ELSE {ProcOf[c]["post"]})
            /\ UNCHANGED <<lookups, cached, awaits>>
       ELSE /\ Len(lookups) < MaxLookups \/ cached # 0
            /\ lookups' = IF cached = 0 THEN Append(lookups, "pending") ELSE lookups
            /\ cached' = IF cached = 0 THEN Len(lookups) + 1 ELSE cached
            /\ awaits' = [awaits EXCEPT ![c] = cached']
            /\ step' = [step EXCEPT ![c] = "facts"]
            /\ UNCHANGED spawned
    /\ UNCHANGED <<shown, outcome, ran, noticed, misled>> /\ SessionKept

Settle(n) ==
    /\ lookups[n] = "pending"
    /\ \E how \in {"ok", "failed"} : lookups' = [lookups EXCEPT ![n] = how]
    /\ UNCHANGED <<step, cached, awaits, spawned, shown, outcome, ran, noticed, misled>>
    /\ SessionKept

\* A Read asks before it runs; the others run, and ask after it.
Facts(c) ==
    /\ awaits[c] # 0 /\ lookups[awaits[c]] = "ok"
    /\ awaits' = [awaits EXCEPT ![c] = 0]
    /\ IF step[c] # "facts" THEN UNCHANGED <<step, spawned>>
       ELSE LET next == IF Call(c).kind = "prompt" THEN "post"
                        ELSE IF Call(c).tool = "Read" THEN "pre" ELSE "run"
            IN  /\ step' = [step EXCEPT ![c] = next]
                /\ spawned' = IF next = "run" \/ setting.transport = "http" \/ setting.error
                              THEN spawned
                              ELSE spawned \cup {ProcOf[c][next]}
    /\ UNCHANGED <<lookups, cached, shown, outcome, ran, noticed, misled>> /\ SessionKept

\* As if a lookup were evicted only by a hook that still waits for it.
RejectedInTime(c) ==
    /\ awaits[c] # 0 /\ lookups[awaits[c]] = "failed"
    /\ cached' = IF cached = awaits[c] /\ step[c] = "facts" THEN 0 ELSE cached
    /\ awaits' = [awaits EXCEPT ![c] = 0]
    /\ IF step[c] = "facts"
       THEN /\ Unavailable(c)
            /\ ran' = IF setting.failClosed THEN ran ELSE ran \cup {c}
       ELSE UNCHANGED <<step, outcome, shown, ran>>
    /\ UNCHANGED <<lookups, spawned, noticed, misled>> /\ SessionKept

\* A rejection is evicted by each call that awaited it, in its hook or after it.
Rejected(c) ==
    /\ awaits[c] # 0 /\ lookups[awaits[c]] = "failed"
    /\ cached' = IF cached = awaits[c] THEN 0 ELSE cached
    /\ awaits' = [awaits EXCEPT ![c] = 0]
    /\ IF step[c] = "facts"
       THEN /\ Unavailable(c)
            /\ ran' = IF setting.failClosed THEN ran ELSE ran \cup {c}
       ELSE UNCHANGED <<step, outcome, shown, ran>>
    /\ UNCHANGED <<lookups, spawned, noticed, misled>> /\ SessionKept

\* The budget ends while the facts are awaited; what the hook awaited goes on.
FactsExpire(c) ==
    /\ step[c] = "facts"
    /\ Unavailable(c)
    /\ ran' = IF setting.failClosed THEN ran ELSE ran \cup {c}
    /\ UNCHANGED <<spawned, noticed, misled>> /\ EngineKept

-----------------------------------------------------------------------------
(* Before a Read: denyBeforeRead.                                           *)

NoticeOf(c, reply) == noticed' = IF Ok(reply) /\ reply.notice THEN noticed \cup {c} ELSE noticed

\* What is asked when an answer cannot be used, or does not deny.
GoesOn(c) ==
    /\ step' = [step EXCEPT ![c] = "run"]
    /\ UNCHANGED <<outcome, shown>>

Denies(c, reply) ==
    IF ~Ok(reply) \/ Misrouted(reply.verdict, "PreToolUse", NotPre)
                  \/ reply.verdict.permission \notin {Absent, "deny"}
    THEN setting.failClosed
    ELSE reply.verdict.permission = "deny"

DenyBeforeRead(c) ==
    /\ step[c] = "pre"
    /\ \E reply \in Replies(c) :
          /\ IF Denies(c, reply) THEN Withholds(c) ELSE GoesOn(c)
          /\ NoticeOf(c, reply) /\ Misled(c, reply)
    /\ UNCHANGED <<spawned, ran>> /\ EngineKept

PreExpires(c) ==
    /\ step[c] = "pre"
    /\ IF setting.failClosed THEN Withholds(c) ELSE GoesOn(c)
    /\ UNCHANGED <<spawned, ran, noticed, misled>> /\ EngineKept

\* The tool runs.  A refusal, a record the detectors cannot read, and an error without a
\* string are shown as they are.
Run(c) ==
    /\ step[c] = "run"
    /\ ran' = ran \cup {c}
    /\ IF Asked(c)
       THEN /\ step' = [step EXCEPT ![c] = "post"]
            /\ spawned' = IF setting.transport = "http" \/ setting.error THEN spawned
                          ELSE spawned \cup {ProcOf[c]["post"]}
            /\ UNCHANGED <<outcome, shown>>
       ELSE Proceeds(c) /\ UNCHANGED spawned
    /\ UNCHANGED <<noticed, misled>> /\ EngineKept

-----------------------------------------------------------------------------
(* After a tool, and for a prompt: redactError, redactResult, promptVerdict. *)

\* Of an errored call either of the two strings scanned will do.
FirstString(updated) ==
    LET strings == {k \in {"text", "result"} :
                      <<k>> \in DOMAIN updated /\ updated[<<k>>].is = "string"}
    IN  IF strings = {} THEN NoValue
        ELSE Leaf(updated[<<IF "text" \in strings THEN "text" ELSE "result">>])

RedactError(c, v) ==
    IF v.updated = NoValue THEN Proceeds(c)
    ELSE IF FirstString(v.updated) = NoValue THEN Unavailable(c)
    ELSE Ends(c, "rewritten", FirstString(v.updated))

\* As if a replacement of another shape meant there was nothing to replace.
RedactResultLoosely(c, v) ==
    IF v.updated = NoValue \/ ~SameShape(v.updated, Call(c).result) THEN Proceeds(c)
    ELSE Ends(c, "rewritten", v.updated)

RedactResult(c, v) ==
    IF v.updated = NoValue THEN Proceeds(c)
    ELSE IF ~SameShape(v.updated, Call(c).result) THEN Unavailable(c)
    ELSE Ends(c, "rewritten", v.updated)

PromptVerdict(c, v) ==
    IF v.decision = "block" THEN Withholds(c)
    ELSE IF v.decision # Absent THEN Unavailable(c)
    ELSE IF v.updated = NoValue THEN Proceeds(c)
    ELSE IF Root(v.updated).is # "string" THEN Unavailable(c)
    ELSE Ends(c, "rewritten", v.updated)

\* Claude Code itself reads the verdict of a command hook: only a block stops a prompt.
CommandVerdict(c, v) ==
    IF v.decision = "block" THEN Withholds(c) ELSE Proceeds(c)

Judge(c, reply) ==
    IF Call(c).kind = "command"
    THEN IF reply.body \in {"object", "empty"} THEN CommandVerdict(c, reply.verdict)
         ELSE Proceeds(c)
    ELSE IF ~Ok(reply) \/ Misrouted(reply.verdict, "PostToolUse",
                                    IF Call(c).kind = "prompt" THEN NotPrompt ELSE NotPost)
    THEN Unavailable(c)
    ELSE IF Call(c).kind = "prompt" THEN PromptVerdict(c, reply.verdict)
    ELSE IF Call(c).isError THEN RedactError(c, reply.verdict)
    ELSE RedactResult(c, reply.verdict)

Answer(c) ==
    /\ step[c] = "post"
    /\ \E reply \in Replies(c) : Judge(c, reply) /\ NoticeOf(c, reply) /\ Misled(c, reply)
    /\ UNCHANGED <<spawned, ran>> /\ EngineKept

\* The budget ends, or a command hook's time: Claude Code goes on without that one.
AnswerExpires(c) ==
    /\ step[c] = "post"
    /\ IF Call(c).kind = "command" THEN Proceeds(c) ELSE Unavailable(c)
    /\ UNCHANGED <<spawned, ran, noticed, misled>> /\ EngineKept

\* A process whose payload could not be read exits 0 and says nothing.
Silence(c) ==
    /\ step[c] \in {"pre", "post"} /\ setting.transport = "process" /\ setting.silent
    /\ Answerer(c) \in spawned
    /\ misled' = misled \cup {c}
    /\ IF step[c] = "pre" THEN GoesOn(c) ELSE Proceeds(c)
    /\ UNCHANGED <<spawned, ran, noticed>> /\ EngineKept

-----------------------------------------------------------------------------
Loading(p) == p \in spawned /\ Load(p) /\ UNCHANGED pluginVars

Next ==
    \/ \E p \in Procs : Loading(p)
    \/ \E n \in 1 .. Len(lookups) : Settle(n)
    \/ \E c \in Calls :
          \/ Begin(c) \/ Facts(c) \/ Rejected(c) \/ FactsExpire(c)
          \/ DenyBeforeRead(c) \/ PreExpires(c) \/ Run(c)
          \/ Answer(c) \/ AnswerExpires(c) \/ Silence(c)

Spec == Init /\ [][Next]_vars

-----------------------------------------------------------------------------
(* What the plugin promises.                                                *)

\* The reads that would open credentials, as the filesystem stood when they were asked about.
SensitiveRead(c) ==
    /\ Call(c).kind = "tool" /\ Call(c).tool = "Read" /\ Call(c).path # NoPath
    /\ \/ IsSensitivePath(Call(c).path)
       \/ Resolution(c, Call(c).path) # "not sensitive"

\* What is shown of a call and was to be scanned: all of a record that can be, the strings
\* of an error, nothing of an image.
ShownScanned(c) ==
    IF Call(c).isError THEN ErroredStrings(shown[c])
    ELSE IF Call(c).scannable THEN shown[c] ELSE NoValue

\* When the plugin fails closed, no failure of the engine, of the session lookup or of the
\* budget, and no answer to another question, lets through what the engine would have
\* rewritten or stopped: no severe surface reaches the model in anything that is to be
\* scanned, and no tool opens a sensitive path.  Two gaps are the code's own: the structured
\* result of an error is not scanned, and a `{}` or an empty output of something that has not
\* looked at the payload, a process that could not read it included, is taken for the engine's.
FailClosedWithholds ==
    setting.failClosed =>
        \A c \in Calls \ misled : Call(c).kind # "command" =>
            /\ outcome[c] # "none" => Exposed(ShownScanned(c)) = {}
            /\ SensitiveRead(c) => c \notin ran

\* A lookup that failed does not stay: while it is cached, a call is still to evict it, even
\* if the hook that started it ran out of its budget.
RejectionIsNotKept ==
    cached # 0 /\ lookups[cached] = "failed" => \E c \in Calls : awaits[c] = cached
=============================================================================
