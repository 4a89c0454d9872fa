# honmoon in TLA+

honmoon sits between an AI agent and the services it calls. It decides every
egress request, statement and connection against a policy, holds what the
policy pauses until a human approves it, tokenizes secrets on the way out and
restores them on the way back, and keeps an audit trail. This directory holds
its specification: modules translated from the source, TLC configurations that
check them on small instances, and TLAPS proofs for any instance.

`PROJECT.json` records, for every definition that models code, the lines it
models; for every property, a mutation of the code under which it fails; the
hazards of the code; and the findings.

    tlc -workers 2 -config MCApproval.cfg MCApproval
    tlapm ApprovalProofs.tla

## 1. The system

| Component | State it keeps | Operations | Talks to |
|---|---|---|---|
| Approval registry (`honmoon-proxy/approval.rs`) | pending slots, the next id, the cap | register, resolve, cancel, hold, hold_until | every transport that pauses; the management API; the audit log |
| PostgreSQL runtime (`runtime/postgres.rs`) | per session: counts of what was forwarded, an injection channel, the relay's progress, the held pipeline | startup, message loop, decide, relay, end of session | client, database, registry, policy engine |
| HTTP MITM (`mitm.rs`, `body.rs`, `signed_body.rs`) | per connection: the tunnel; per request: body, redaction outcome, detokenizer | handle_request, inspect_body, redacted_request, handle_response | registry, mapping store, policy engine |
| SOCKS5 front end (`socks.rs`) | connection permits | handshake, gate, connect, tunnel | registry, PostgreSQL runtime |
| Secret tokenizer and mapping store (`secret_tokenizer/`, `redact.rs`) | placeholder to secret, oldest first, bounded by count and bytes | redact, record, snapshot, detokenize a stream | MITM, hook endpoint |
| Detectors (`pii.rs`, `secret_detect.rs`) | none | spans and candidates of a text | the tokenizer, the policy's facts |
| Policy engine (`honmoon-core/engine.rs`, `lib.rs`) | none: a function of policy and facts | from_yaml, endpoint_for, decide, decide_pii_audit_only | every transport |
| Protocol parsers (`protocols.rs`) | none | facts of an SQL statement, of a Kubernetes path | MITM, PostgreSQL runtime |
| Audit log (`honmoon-core/audit.rs`, `packages/api/src/audit.ts`) | a bounded ring and a JSONL sink | open_sink, record, record_durable, recent | everything that decides; the TypeScript API reads the file |
| Management API (`honmoon-mgmt`) | none of its own | list, approve, reject, audit, policy, hook endpoint | registry, audit log, mapping store |
| Management token (`honmoon-cli/mgmt_token.rs`, `packages/api/src/auth.ts`) | the token file and its lock | resolve: adopt, or mint under the lock | two services started over one directory |
| Claude Code hook (`honmoon-cli/hook.rs`, `claude_code_hook.rs`, `claude-plugin`) | the salt file; in the plugin, the session lookup | load the key, redact an event; before, after and around a tool call | Claude Code, the gateway's hook endpoint, the audit log |
| Gateway start (`main.rs`, `ca.rs`, `gateway.rs`) | the CA's two files | the steps of `honmoon gateway` | all of the above |
| Dashboard (`apps/dashboard`) | session, shown lists | poll, approve, reject | management API |
| Isolation launcher (`main.rs` `run`, `isolate/`) | two bound pairs of ports, the bridge's directory, four pumps, one child | bind, probe, open the bridge, enter the namespace, supervise, fall back | the kernel, the child, its own proxies |
| Web site | none | | |

Where the difficulty is:

* **A hold has four ends.** A human's decision, the client's departure, the
  pause timer and the drop of the waiting future race; the registry's mutex
  makes each registry call atomic, and nothing makes two of them atomic together.
* **One writer, two sources.** The PostgreSQL relay writes the database's
  messages and honmoon's own refusals to one client. It sees tags and counts,
  and must put a refusal behind every answer the client was still owed, without
  waiting forever for a database that will not answer.
* **Several processes, one file.** The gateway and the API mint one token and
  may crash while they do; hooks and a gateway make or adopt one machine key;
  the audit log is appended to by two processes.
* **Out and home again.** A secret leaves as a placeholder whose mapping must
  be recorded before the service answers, may be evicted while it does, and
  comes back cut anywhere.
* **A request is many decisions.** Host, then body, then rewriting, each with
  its own hold, each with reasons to let a request go as it is; the tunnel a
  request came through was allowed for one target only.
* **A rule held back changes which later rule decides**, and one statement
  that does several things is told to the rules as one verb and one table.
* **A fallback that must not repeat.** `honmoon run` sets up a sandbox in a dozen
  steps over three processes and, when one fails, starts the command without
  it: only if it has not run, only after saying so, and with nothing of the
  sandbox left.
* **Other users of the host** move links under the audit log's walk; **old
  answers** reach a dashboard after new ones.

What makes each part correct: nothing goes ahead that the policy paused unless
a human approved that very request; every hold ends, is audited once and
leaves no entry; a refusal is told exactly once, in its place, on a message
boundary; services over one directory share one credential, hooks one key; a
service that echoes a placeholder echoes the secret; a signature survives;
detect mode never refuses for what a scan found; a hook that fails closed lets
nothing it scans past a broken engine; and what weakens any of this is told.

## 2. The modules

### Approval, ApprovalAbs, ApprovalProofs

`Approval` is `approval.rs`. One element of `Holds` is one call of
`hold_until`. `slots` is the registry's map, `chan` each call's oneshot
channel, `trail` what was audited for it. The granularity is the code's: one
poll of the `select!` is three steps (`PollReceiver`, `PollAbandoned`,
`TimeOut`), since `biased` orders the arms and does not make them atomic;
`resolve` is two (`Resolve` removes the slot under the lock, `Send` sends after
it); the drop guard is two (`GuardCancel`, `GuardAudit`). A future can only be
dropped while suspended (`parked`). `Watched` holds have the `abandoned` signal
(PostgreSQL), `Droppable` ones a caller that drops them (hyper, and
`run_postgres` when its relay ends); SOCKS5 holds have neither.

`ApprovalAbs` is what the gate promises: a request is pending, then decided or
withdrawn, and granted only on an approval, with at most `Capacity` pending.
`Approval` implements it under `Gate`: pending while its slot is listed, human
is what `resolve` took the slot for, answered when `hold_until` returns.

### PgRelay, PgRelayProofs

One session of `postgres.rs`: the message loop, the database, the relay, and
`run_postgres` at the end. A frame is its position in the client's stream and a
kind: `Query`, `Execute` (any extended-protocol message with output), `Flush`,
`Sync`, `Denied`, `Paused`. A backend message is a tag (`C` any complete
answer, `E`, `N`, `Z`) and the frame it answers, which the relay never looks at
and the properties do. `fwd` is `Forwarded`, `channel` the one-slot injection
channel, `acked` the acknowledgement `inject` awaits, `sync` and `flush` the two
`Progress` values.

Counting (`Forward`) and writing (`Write`) are two steps, as in the code. The
relay's loop is `top` (settle a flush on a quiet socket, then write what is
queued), `fill` (channel first, bounds, then the socket), `copy` (a message too
large to buffer), and `stopping`. `framed` is a relay that handed the writer
back, `unframed` one that left the client mid-frame. The stall bound is re-armed
by every byte, so `GiveUp` needs an empty socket.

The database is outside the repository and modelled from what the code relies
on: it answers in order, keeps output until a Flush or the end of a cycle,
sends errors and notices at once, and skips to `Sync` after an error in a
batch. The workload (`Workloads`) says how many frames
there are, of which kinds, and what it and the client may do: `error`, `notice`,
`split` (output arrives in pieces), `close`, `oversized`, `eager client` (does
not wait for its startup), `client write fails`, `client stalls` (it stops
reading, and no write to it has a timeout), `drips` (the database lets a byte of
a message through in each stall window and never finishes it).

### MgmtToken, MgmtTokenProofs

`MgmtToken` is the lock protocol of `mgmt_token.rs`, which `auth.ts` follows
over the same files. Each system call is a step: the exclusive create, the
re-read under the lock, the last `still_ours` look, the rename, the comparison
and the unlink of the guard, and for a loser the poll, the budget, the age of
the lock and the rename that breaks it. `Faults` chooses what may happen to a
start: `crash`, `freeze` (stopped so long that its lock looks abandoned), `io`
(a system call fails). A lock file is known by the start that created it; the
guard keeps it open so that its inode is not reused, which makes the comparison
exact. `brokeLive` records that a running holder's lock was broken, the case
the code's comment calls residual (#257).

### Redaction, Detokenizer

`Redaction` is what is rewritten in a text, `redact.rs` and the tokenizer: the
longest of overlapping credentials, then severe personal data, in JSON only
inside strings (`JsonState` is the scanner: outside a string, inside one, or
inside one behind a backslash, moved by `Tracked`); the store's insertion,
eviction and snapshot. A text is a sequence of characters and which surfaces the
detectors match is given by constants. A placeholder is one character sequence
per surface, all of one length as in the code: the digest is taken to be
injective. `PlaceholdersStandOut` says what a placeholder's delimiters are for:
it overlaps no other one and nothing a detector finds (section 5).

`Detokenizer` follows one request: redacted, echoed by the service (whole, cut
short, or as bytes that are no text) and restored by `DetokenizingBody` over
`StreamingDetokenizer`, in frames cut at any byte. `held back` is the tail that
may still become a placeholder, `kept back` the one that may become a
character. `RestoredWhole` compares with replacement in the whole body and with
what the client wrote, `JsonKeepsItsShape` with an account of
quotes and escapes that does not use the scanner.

### PolicyEngine, PolicyWalk, SqlFacts, StatementWalk (theorems in GatewayProofs)

`PolicyEngine` holds the functions: which policies load, which endpoint a
target is, which rule matches, what the egress lists say, and both decisions as
closed forms. `PolicyWalk` is the loop of `decide_with`, an action per rule,
with its `held_back` flag; `WalkIsClosedForm` and `ScanningAloneNeverRefuses` relate
the two. The second says that in detect mode personal data in a body never turns
what would otherwise be allowed into a refusal or a hold. It does not say that
detect mode is at most as strict as block mode: a rule that block mode pauses at
may be passed over and a later one deny (engine.rs 84-88). `SqlFacts` gives the verb and table `protocols.rs` reads from a parsed
statement and, apart from it, the effects PostgreSQL has when it runs that
statement (its own scoping of CTEs, folding of names and EXPLAIN options:
external). `StatementWalk` reads a statement into facts and walks a policy for
them: `FactsTellTheWorst`. `MCAlgorithms` runs these three walks, each with its
own inputs.

### SignedBody, Protocols, Gateway, GatewayProofs

`Gateway` is `HonmoonHandler`. A connection's handler runs from one await to
the next in one step: `Connect` (CONNECT, gated, opaque or intercepted),
`Submit` (a request up to its hold or its body), `Inspect` (the body read,
scanned, decided, rewritten, sent), `BodyFails`, `Approved`, `Rejected`
(either of the three holds), `Respond`, and the hook endpoint's `HookRecords`
into the same store. `at` is the await, `tunnel` the `AuthorizedTunnel`,
`out` what went upstream, `events` what was audited for the request.
`SignedBody` reads the three signature schemes from headers and query, over
tokens, of which the blank, the comma, the semicolon and what is no text have
names; `Protocols` splits a Kubernetes path. `ClientAssumption` says what a
client may send, `BoundsAssumption` that the limits are numbers. `granted` and `evictedAtSend`
are history: the targets policy or a human let a connection reach, and how
much had been evicted when a request left.

### MachineKey, HookVerdict, Plugin, PluginProofs

`MachineKey` is the salt file of `hook.rs`, a system call per step: read,
exclusive temporary, hard link that loses to a winner, re-read, truncate and
rewrite of a short file, mode found and mode corrected, report. `world` says
what the disk and the sink do. `lost` is history: what each process destroyed in
the file, be it the short bytes it had read, bytes it could not read, or a key
another process had written in between. No process knows of the last;
`StaleKeyTakesTwo` states that two recoveries of one file are needed for it, and
finding 3 that they suffice. `HookVerdict` is the answer to an event, the
same over a process or HTTP: JSON values (a value is a function from the
pointers that lead into it), sensitive paths (the name of an SSH key is a prefix:
`Begins` and `Longer`), the depth limit.
`Plugin` composes them: the hooks of `honmoon.ts` for calls that overlap, with
the shared session lookup, the budget of eight seconds, each transport's
replies (the engine's own, or one that fails, is no verdict, or answers another
question), and `failClosed`. Of a call that ended in an error only the strings
`text` and `result` are asked about (`ErroredStrings`): a call whose result is
structured is handed on as it is, whatever it holds, failing closed or not. `misled` marks the
calls of which something that never looked said that there was nothing to redact:
a process that could not read its payload, as hook.rs has it, or anything else
whose reply is empty or `{}`.

### AuditSink, AuditTrail, Dashboard, Control, ControlProofs

`AuditSink` is `open_sink`: the walk with `openat`, `fstatat` and `readlinkat`
as steps, between which other users place entries in directories they can
write. What the walk sees of a directory depends on the platform
(`CarriesAnExtendedAcl`): macOS tells that there is an ACL, Linux reads the mode
alone, elsewhere no directory is trusted. What others can really write
(`WritableByOthers`) does not depend on it, and `walk.blind` marks a link that was
followed in a directory whose ACL Linux does not show (#215). `AuditTrail` is the
log in use: an id under the ring's lock, the write
under the sink's, a hook process that takes neither, short and failing writes,
a wall clock that may be set back (`SetBack`, counted in `turned`),
a gateway that is started again and numbers from 1 while the clock goes on
(`TimePasses`), and both readers: the ring's, and the API's, which parses what
is whole and sorts by time and id (`QueryAudit` is every order that sort may
leave). `unwritten` holds the events whose append returned an error: a hook
reports it on its response, the gateway's `record` only in its own log. A write
that was cut short and not finished leaves a line that takes the next one with it
(`Torn`, `Spoiled`). `Dashboard` is the page: polls
that answer in any order, remounts, decisions clicked from an old list, the
session in the link's fragment. `Control` composes them as `honmoon gateway`
does: token, detectors, policy, audit log, CA, key, listeners, record of the
key, in order, each able to fail or be the last before the process dies; then
it serves.

### PgSession, Socks, SocksProofs

`PgSession` is the client's side of a PostgreSQL session down to the bytes, in
units, each known by its frame and its place in it: startup, framing, the
statements that are inspected, the frames that are copied unread, the oversized
ones that are read to their end and dropped, and a held statement whose watch
takes units off the socket, one a step, that the loop must read before any
newer. `Socks` is the SOCKS5
listener: permit, handshake, protocol of the endpoint, gate, hold, connect,
reply, tunnel, with one of the connections running the `PgSession`. What the
relay does with refusals is `PgRelay`'s, what a hold does `Approval`'s.

### Isolation, IsolationProofs, Pump

`Isolation` is `honmoon run`. `at` is the next step of the launcher: the two
paired binds (127.0.0.1 and ::1 at one number, again if the second is taken),
the probe, then on Linux the bridge (`OpenSteps`: directory, mode, sockets,
threads parked on a gate, gates), the fork and its steps in the empty namespace
(`PreExec`), and the supervisor (`Supervise`: descriptors swept, listeners,
threads, gates, the command); on macOS the sweep and `sandbox-exec`; and
whatever fails before the command, the warning and the plain start. `Reach` of
a running command is what it can connect to, given where it runs, who holds
the proxies' ports, which pumps serve and what it inherited. Other processes
take free ports, and the proxy's thread, the supervisor or the launcher may die
at any step.

`Pump` is one of the bridge's four: `accept` and the two ways in which it
fails, the count taken before a thread is started and given back by whatever
ends the connection, the dial, and a copier for each direction of a
conversation. `upset` counts failures since the last delivery, independently of
the loop's own counter. `Isolation` follows the supervisor's first pump this
closely: it waits for the gate the supervisor opens (`GateOpens`), is cut when
the supervisor ends (`PumpGone`), and runs beside everything the launcher and
the command do; the other three only serve or do not.

## 3. The runs

| Run | Instance | What it shows |
|---|---|---|
| `approval` | one HTTP and one PostgreSQL hold, one slot, fairness | the safety of a hold, that it ends, and the refinement of `ApprovalAbs` with its liveness |
| `relay` | six workloads (below), fairness | order behind Syncs and Flushes, counts, exactly once, framing, and that a refusal ends unless the client or the database holds it for good |
| `relay_error` (violation) | 4 frames, errors | an `E` settles a later flush |
| `token` | three starts, every fault, fairness | agreement until a running holder's lock is broken, no token replaced, every start ends |
| `token_crash` (violation) | three starts, one crash | two waiters break one lock |
| `algorithms` | 99 requests, frames of 1, 4 or 9 bytes, three kinds of reply; 1,336 policies of up to three rules; 3,556 statements | a cut changes nothing, an echo comes home, JSON keeps its shape; detect against block mode, the walk, the facts of a statement |
| `gateway` | two connections, a store of two pairs, nineteen settings | authorization, redaction, signatures, echo, audit, framing |
| `hook` | two calls, four processes and a gateway | fail closed, one key, every degradation a process knows of told, no cached failure |
| `key_raced` (violation) | two processes, a short salt file | the second replaces the key the first goes by |
| `control` | nine workloads and the ACLs of three platforms | the audit log's place, its order and its losses; a failed start; the dashboard |
| `transport` | three clients over two permits; sessions of up to seven frames | authorized tunnels, only judged statements, permits that return |
| `isolation` | twenty-one hosts and up to two failures, or three conversations over two slots (below), fairness | told or confined, one start, nothing left, both routes, `run` ends; slots, half-closes, an accept loop that gives up only when broken, every conversation ends |

Every property has a mutant in `PROJECT.json` under which its run fails. Some
properties are conjunctions whose parts have names of their own:
`RefusalInItsPlace` (`RefusalBehindSyncs`, `RefusalBehindFlushes`,
`CountsAreTruthful`), `RestoredWhole` (`StreamedAsWhole`, `RoundTrip`),
`ServiceCanTakeIt` (`SignaturesHold`, `FramingSound`), `WeaknessIsTold`
(`DegradationLeavesTrace`, `ExposureIsTold`, `StaleKeyTakesTwo`), `TrailIsTrue` (`NoSilentLoss`,
`ListedNewestFirst`), `WholeOrGone` (`NothingLeftBehind`,
`CommandHasItsRoutes`) and `RouteIsSound` (`SlotsTellTheTruth`,
`StopsOnlyWhenBroken`, `EofMeansAll`).

Workloads. Where one run covers questions that need different bounds, the
initial state picks a workload, a record of what the environment may do; the
union of the workloads is checked, not their product.

* `relay`: any three frames with every event but split bursts; four frames of
  whole request cycles with bursts split anywhere and a client that does not
  wait; five frames of Flush-driven batches with errors, four with notices as
  well; two frames and a client that stops reading, with copies and closes; two
  frames and a database that drips. The flush
  side of the barrier is promised for whole bursts only: `quiet` is all a relay
  has to go by.
* `control`: `Starting` (eight paths, two trees, two changes by other users
  during the walk), `Granting` (a directory whose mode says it is root's alone and
  whose ACL says nothing, denies or grants, on macOS, Linux and another Unix),
  `Restarting` and `LoneCert` (three starts with
  interception; the second over a directory with a certificate and no key,
  which ca.rs lines 74-79 except), `Recording` (three events of three
  recorders, one clock tick, one write fault), `Turning` (two events and a clock
  that goes on and is set back), `Failing` (two events, two write faults: a line
  cut short, and the next one joined to it), `Unwritable` (a sink others may read,
  whose records of that may fail), `Reusing` (two starts over one
  log, so that ids begin again, and a tick), `Paging` (a page, two approvals,
  three polls).
* `transport`: `Crowd` (three clients that leave anywhere), `Oddities` (every
  good and bad handshake), `OneSession` (five byte streams to a database). One
  `PgSession` is composed with the connections, so a workload in which anybody
  asks for a database has one client (`SocksAssumption`); nothing is shared
  between two sessions but the permits and the audit, which `Crowd` covers.
* `gateway`: a single request of any shape under every policy and mode, or two
  busy connections whose requests stay in their tunnel or leave it.
* `hook`: one odd call (errored, structured, a key's name with more behind it)
  against strange replies, the empty one included, or two plain calls that meet
  at the salt file in any state.
* `algorithms`: a request and its echo, a policy with its facts, or a
  statement.
* `isolation`: Linux with each way of finding inherited descriptors, macOS, each
  with and without an IPv6 loopback, and a host that confines nothing; then, on
  a Linux where no step fails, three conversations with one failure among them,
  with a listener short of resources and failing between deliveries, or with a
  broken one. Two hosts, one Linux and one macOS, start `run` with SIGCHLD ignored,
  so that every wait for a child finds nobody, the probe's included.

Bounds. Two holds competing for one slot give every race between a hold's four
ends, and between a registration and the slot's release; more holds and slots
are the theorems' (section 5). A misplaced refusal needs an earlier answer, a
refusal and whatever releases it early: three frames for any mixture of kinds,
four and five where the frames are of one style. Three starts are the fewest
with a holder and two waiters. A body of seven characters is past the cap of
six and a store of two pairs evicts on the
third: every way out of the body pipeline is taken. In `algorithms` a
placeholder is five bytes behind a three-byte prefix and characters have up to
four bytes, so that frames of 1, 4 and 9 bytes cut both at every place and also
hold several. A rule that is passed over, one that then decides and one that
must not: three rules. Two swaps during a walk are a link put in place and
taken away; three events make the ring of two drop one; three polls make an
old answer arrive between two newer. A third connection meets the cap of two,
and a limit of two tells failures in a row from failures in all; a first failure
that undoes a step and a second during what follows it: two.

Deadlock is not checked: every behaviour here ends, when all holds have
returned, the session is over, every start has ended or the bounded inputs are
used up.

Fairness. `Approval!FairSpec`: tokio runs a task that has been woken, a call
that has taken a slot goes on to send, and the pause timer is finite. No human
and no departure is assumed. `PgRelay!FairSpec`: the two tasks are scheduled
and the timers fire; the database, the client and the end of an oversized
copy are owed nothing. Where the client may stall, no step that writes to it is
owed (`Owed`): `client.write_all` has no timeout, and the comment at postgres.rs
2114-2117 expects a relay blocked on a full send buffer for good. Where the
database drips, giving up is not owed. `RefusalEnds` says what is left: a refused
statement's client is told or the session ends, but for a copy that never ends, a
client that has stopped reading (`StalledOnClient`), and a message the database
never finishes; and once the client is gone or done, the session ends whatever its
relay waits for, since the notice and the drain have timeouts and the relay is
then aborted. `MgmtToken!FairSpec`: a process that has not crashed runs, and its
clock moves; that a lock grows old is not assumed. `Socks!Spec`: a handler's
step or its timer is taken, the copy of a tunnel ends once its client has gone
(the destination ends its own direction then: an assumption about code outside
the repository), and a session runs on once its socket has closed; nobody has
to leave. `Isolation!Spec`: the launcher and the supervisor go on until
killed; the command may run for ever. Of the pump (`PumpFairness`): threads run,
the kernel hands out whom it queued, and the two ends keep to their conversation
unless they vanish; without that no proxy ends a tunnel. The other specifications
state safety only and assume none.

## 4. Findings

1. **An error settles a flush behind it** (`postgres.rs:1346`, run `relay_error`).
   `Query` (fails), `Execute`, `Flush`, refused statement: the quiet after the `E`
   credits the flush, and the `Z` releases the refusal before the `Execute`'s
   output. `RefusalBehindFlushes` states what does hold: a client that waits out
   a request cycle before it flushes the next, and whose answers come in whole
   bursts, is safe.
2. **A crash suffices for two tokens** (`mgmt_token.rs:651`, run `token_crash`).
   The code ascribes every residual to a holder frozen too long; two waiters that
   judge a crashed holder's lock, one after the other, reach it as well.
3. **Two that replace a short salt file go on with two keys** (`hook.rs:1143`, run
   `key_raced`). Both read a short file; the second truncates, unread, the key the
   first has just written and returned as persisted. The doc of `persisted` (922)
   says that every other process will read it back. The comment on the arm
   (1140-1142) knows the race and calls it negligible; the status and the audit
   rules do not tell it.

Seen while modelling, with no run of their own here:

* **The timer may discard an approval** (`approval.rs:342`). The comment ranks a
  decision above the timer; only the abandonment arm looks at the channel again.
  The API has answered that the request was approved. `TimerYieldsToDecision`
  states the comment and fails when added to `MCApproval.cfg`.
* **`Ok` does not mean that the command ran** (`linux.rs:464`; the promise is
  `isolate/mod.rs:90-93`). A supervisor that fails before it starts the command ends
  with a status that is returned as the command's own, and the fallback is not
  taken.
* **The macOS fallback is safe by its probe** (`macos.rs:154`). That an error of
  `run_confined` means the command has not run is not so of a wait that failed:
  the macOS half calls `status()`, where Linux separates spawn and wait. What
  loses the wait (SIGCHLD ignored) loses the probe's too, so that `run_confined`
  is not reached. `CommandRunsOnce` holds by the two together, and its mutant is a
  probe that looks at the files only.
* **A dead proxy's port** (`main.rs:839-841`). On macOS a command whose proxy's
  thread has died fails closed only until another process takes the port, which
  the profile still excepts.
* **Structured errors are not scanned** (`honmoon.ts:434-443`). Of a call
  that ended in an error a `result` that is no string is not asked about, and with no
  string `text` beside it nothing is; failing closed does not change that.
* **An empty answer is nothing to redact** (`honmoon.ts`, hook.rs): a body of `{}`
  from whatever answers on the engine's port is indistinguishable from a verdict
  that found nothing.
* **One snapshot for all Syncs** (`flushes_covered`, #153, `postgres.rs:958`) is
  called harmless because the loop cannot forward a second `Sync` while a refusal
  is queued. The second `Sync` can go out before the refusal is decided; with
  `Sync Execute Flush` twice and then a refused statement,
  `RefusalBehindEveryFlush` fails at seven frames.

## 5. The proofs

| Module | Theorems that state a run's property | Others |
|---|---|---|
| `ApprovalProofs` | `HumanApproves`, `HoldsStayResolvable`, `AuditIsTruthful`, `DepartureIsNotADecision` | `TypeCorrect`, `QueueStaysBounded`, `SlotsNeverLeak`, `DecisionsStay`, `ImplementsGate` |
| `MgmtTokenProofs` | `StartsConverge`, `PublishedTokenStays` | `TypeCorrect`, `LockIsExclusive` |
| `PgRelayProofs` | `RefusalsKeepTheirPlace`, `RefusalsAnsweredOnce`, `NothingIsWrittenIntoAFrame` | `TypeCorrect`, `RefusalsBehindSyncs` |
| `SocksProofs` | `ConnectionsAreAuthorized`, `DatabaseGetsWhatWasJudged` | `TypeCorrect` |
| `GatewayProofs` | `NoBorrowedAllowance`, `LogTellsTheStory`, `RewritesAreTaken`, `SecretsNeverLeave`, `EchoesComeHome`, `WalkComesToClosedForm`, `ScanningNeverRefuses` | |
| `ControlProofs` | `SinkNeverStrays`, `FailedStartsAreHarmless`, `DecidedNeverReturns`, `LogTellsTheTruth` | `TypeCorrect`, `NothingIsLostSilently`, `RecentInOrder` |
| `IsolationProofs` | `CommandRunsOnce`, `CommandIsConfined`, `BridgeIsWhole`, `RouteHolds` | |
| `PluginProofs` | `KeyIsOne`, `NoWeaknessGoesUntold`, `FailureIsEvicted`, `FailingClosedIsSafe` | |

Every safety property of a passing run is a theorem, but for three
(*Only model-checked*, below). Every theorem is about the specification a run
checks, except that the policy walk's are about `WalkSpec`, the walk's own steps
from all of its initial states; in `MCAlgorithms` these steps are taken beside
others that leave the walk's variables alone. The inductive invariants were
checked by TLC on the run's instance, `HomeInv` excepted: it speaks of every
mapping that gives a set of surfaces back, which TLC cannot enumerate, and the run
checks what it implies.

Approval. Assumed: `Watched` and `Droppable` are among `Holds`, `MaxPending` is
a natural number; `Holds` need not be finite. None of the properties is
inductive. What is missing is who owns an id and which way a decision flows:
`IInv` adds that every id handed out is below `next_id` and belongs to one call
(so `cancel` removes its own slot only), that a listed slot's call is waiting
and undecided, that what is in a channel is what a `resolve` decided, that a
verdict is a decision of the channel or a rejection, and how far each trail has
got at each point of the call. `IdsStep` and `CallsStep` carry these over every
action; `SlotsBounded` treats the registry by its three ways of changing, so
that finiteness and cardinality are argued once. `ImplementsGate` maps every step
to a step of the gate or a stutter; the gate's fairness stays with TLC.

MgmtToken. Assumed: starts are not the words used for an absent, empty or
missing token. `AgreeUnlessBroken` is not inductive: a start about to publish
could replace a token others hold. `Exclusive` adds, until a running holder's
lock is broken, that whoever is in the critical section owns the lock
(`Single`), so there is one, and that whoever is past its re-read saw no token
and none has come since (`NothingToReplace`).

PgRelay. Assumed: a workload is a bound, kinds and events (`KnownWorkloads`).
The session is one pipeline, from the loop through the database to the relay and
the client, and the invariant reads it in that direction. `Turn`: at most one
refusal is on its way, in the channel or in the relay's hands, for the loop's
last frame and with the counts as they still stand, and the loop knows whether
it has been answered. `PipelineInOrder`: each stage is in the order of the
frames, and nothing in it answers a frame the stage before has still to take.
`Counted`: the counts are those of the frames, and no more `ReadyForQuery` have
been delivered than there are sync points nothing more will answer (`Clear`).
`Kept`: a refusal the relay released in order had every sync point before it
cleared, less what an earlier one gave up on. Together (`Ordered`) they are
inductive and give everything but the flush side. That has conditions of its
own, which `RefusalBehindFlushes` states: no Flush overlaps a request cycle and
bursts arrive whole. Under them `Flowing` says that a Flush the database has
taken pushed out all before it, and that no more Flushes were settled, or can be
by the burst in progress, than the database has taken.

Socks. Assumed: `Permits` is a natural number, a workload's clients are among
`Clients`, every request has a verdict. Connections share two things only, the
permits and the audit: `PermitsConserved` (free or held by exactly one
connection in flight) and `OthersKeepTheirStory` (records are never taken
back), so what remains is one invariant per client, `StepTells`: past the gate
a connection was let through for the target it asked for, and the success
reply, the upstream connection and the relaying come together.

PgSession. Assumed: a stream's frames are not empty, a request for encryption
comes before the startup message if it is to be one, the two limits are
numbers (`StreamAssumption`), and one client speaks to the database
(`SocksAssumption`). `OnlyJudgedReach` compares what was sent with the stream; what
a step needs is where in the stream everybody is. `PgInv`: the watch's buffer
is a run of units that ends where the socket begins (`BufferFollows`), the frame
being read is a run that starts at its first unit and ends at the loop's cursor,
in the buffer or on the socket (`FrameIsRead`), each mode says what frame it is in
(`ModeTells`), and the database has, in order, all units before that point of
frames that passed (`SentInOrder`). A buffer that is thrown away, or begun afresh
by a second hold, breaks the first; a frame judged by another's verdict, the last.

Gateway. Of the requests only what `ClientAssumption` says: header values are
tokens, a client signs what it says it signs, in one of the three schemes,
declares the length its body has, and writes no placeholder of its own (one that
it does write, having got it from the hook, is restored on its way back like any
other: that is what it is for). `GrantInv` carries an authorization over time: a
`tunnel` that is kept is of a target granted to that very connection, a request
past its gate is for one, a tunnel whose bytes nobody reads is not to a
database, and a CONNECT to a database is never held. `StoryInv` ties a
connection's trail to where its handler stands: while it goes on, every hold is
decided; on hold, exactly one is open; closed, the trail ends
with the refusal, or the request was malformed. Events are only added, so the
counts grow one at a time (`TrailGrows`, `CountGrows`).

`ServiceInv` is the rewriting's: a request on its way verifies, is framed once
and keeps its trailers (`Taken`), and one that was blocked as signed was signed.
A step of the handler decides it, so the work is in what a rewriting may touch:
`ForwardedIs` splits `redacted_request` and what follows it into four ways, each
with its headers, and what is left out, added or changed by each is compared
with what the three schemes cover.

`HomeInv` is the secrets'. Also assumed: `PlaceholdersStandOut`. Placeholders have one
length, start with `<<hs:` and end with `>>` (secret_tokenizer/mod.rs lines 65-77), so
two of them cannot overlap; the patterns (secret_detect.rs 57-96, pii.rs 74-94) take
neither a delimiter, nor a quote, nor a backslash, so a surface cannot reach over a
placeholder's border. Two things are left out by that: the private key block, the one
pattern that takes anything (secret_detect.rs 84-88), and a match within the 32
hexadecimal digits of a digest. With that:

* What is substituted holds no surface any more (`NothingLeaks`). A surface found
  in a rewritten text lies in one of the copied parts, since it overlaps no
  placeholder; the parts are the text's own, so it was there before and would have
  been replaced. `Parts` gives the substitution as a walk over the text, position
  by position, each step a copied character or a placeholder; in JSON the
  scanner's state is carried along with it.
* What was substituted comes back (`HomeAgain`): the walk of `Detokenize` over the
  result meets the placeholders where the substitution put them, and none
  elsewhere.
* The store keeps what a response awaits (`RecordKeeps`): a pair leaves only by
  eviction, and how many have left is counted, whoever records: this connection,
  another or the hook endpoint. So either the pairs are there or the count has
  grown since the request left (`Awaited`), which is what `EchoComesHome` excepts.
* A body that is not rewritten was left alone for one of the reasons the code
  names (`LeftAloneForAReason`), which is what `SecretsStayHome` excepts.

`Substitute`, `Detokenize`, `JsonState`, `Bytes` and `Recorded` are recursive functions
over positions. `Recursion` shows that a function defined by recursion on a natural
number exists and obeys its equation, and `Induction` does the induction; both are
stated with a set where the library's theorems take an operator, and come down to
its theorem that the subsets of a finite set are well-founded.

PolicyWalk. Assumed: rules are a sequence and the egress default is a verdict.
`WalkInv` is the loop's, while nothing is decided (`SoFar`): every match the
walk has passed was personal data's doing, and with `held_back` set the first of
all matches was a refusal. In detect mode a refusal the walk comes to is a rule's
that matches without the scan's help. It is enough for both properties because the closed
form speaks of the first rule that decides: no induction over the rules is
needed.

Control. Assumed: Root and Cwd are directories, `..` stays among them, and
what others may place are directories and links (`HostAssumption`); a place is
Elsewhere only if nothing but names and links of other users lead there
(`ElsewhereIsApart`, `ElsewhereIsNamedByOthersOnly`), which says what
"elsewhere" means and not what the walk does; `Capacity` is a natural
number. Five invariants, one per part and one more for the log's readers.
`SinkInv`: nothing the walk may still follow, neither a component that is left
nor a link in a directory others cannot write, leads Elsewhere, until a link has
been followed in a directory whose ACL Linux does not show and which lets others
write (`walk.blind`); a link is read only in a directory that looks trusted. That
exception is the code's own (audit.rs 1284-1295), and nothing is assumed of ACLs.
`BootInv`: the
pair on disk is one pair or has no certificate, since the private key is written
first, and whoever is on record as degraded is the start that serves.
`TrailInv`: the ring is in order and within `Capacity`; what the ring or the
file names ends a line in the file, is about to be written, or is `unwritten`, and
what a gateway failed to write is in the ring until `Capacity` newer events have
come (`AllKept`, `AllCovered`); a line's rest has a beginning (`AllBegun`), so that a
line that cannot be read back is one a torn write spoiled; without a
fault nothing is in pieces. `StoryInv` adds for `LogTellsTheTruth` what the file's
reader goes by: any two events of gateways differ in run or id and, while nobody
has set the clock back, their times
agree with that (`LoggedInOrder`), none is in the file twice (`LoggedOnce`), the ring
is of this run; a sort by time and id then lists a run's events by id and the runs
by time. After the clock was set back the ring is still listed by id, and nothing is
said of the order the file is listed in (audit.ts sorts by time first). `PageInv`: no poll asked after a decision lists what
was decided, and what may still be shown was asked for after what is
(`DecidedIsGone`, `ShownIsOlder`).

Isolation. Assumed: finitely many connections; retries, slots and limits are
positive. `LaunchInv` says for each step of the launcher, of the child and of
the supervisor what has been started, what is open and where the command can
run (`StartedBy`, `Confined`, `Bridges`); each failure's path is then a case
of its own. `CommandRunsOnce` rests on what `StartedBy` says of macOS: past the
probe, waits find their child. `PumpInv` counts: the shared counter is the number of
connections with a thread and the one being decided on (`Slots`), the loop's own
counter counts failures since the last delivery unless the listener is broken
(`Stops`), and a direction that has ended has been copied, or one of its ends
has vanished (`Streams`).

Plugin. Assumed: the word for a short file names no process, and a salt file
is of the kinds listed. `KeyInv`: where there is no file or a usable one, nobody
replaces it and the bytes a process goes by are the file's (`KeyIsShared`); what a process destroyed
it knows until its status says so (`LossIsKnown`), and a hook that has reported
told all its status says (`AllIsTold`); and whoever closed a file that was open to
others had found it open (`ModeIsSeen`). `SessionInv`: until the cached lookup has
succeeded some call awaits it, so that a failed one has somebody to evict it.
`ClosedInv`: before a call is over nothing of it is shown, and what would open
credentials neither runs nor is about to; after it, what is shown holds nothing
the engine would have rewritten. It is inductive because of what a reply can be:
the engine's own answer leaves nothing (`RedactJson` at every depth up to the
limit, values of any shape), any other is no verdict, and a plugin that fails
closed answers it by withholding. Assumed (`PluginAssumption`): what ended in an error is an object, and a reply
that is not the engine's is no verdict, or says nothing, or is a verdict of some
kind and carries no secret of its own: a transport that answers with an engine's
well-formed verdict and other people's secrets is not a failure the plugin could
see. A reply that says nothing is covered but for the call it misleads.

Mistakes of the models surfaced here and were corrected. In `Socks` and
`Plugin` two CASE guards overlapped, of which TLC takes the first and the
semantics either. In `Gateway` a CONNECT was taken as uninspectable by its
target's name as well as its protocol; the code looks at the protocol only. In
`Control` the clock stood still while a gateway started, so that a restart's ids,
which begin again, never met the reader's sort; and it was never set back, a gateway's
swallowed write error counted as told, a line joined to a torn one as present, and
Linux saw every ACL. In `Isolation` a wait could be lost by the command and not by
the probe. In `HookVerdict` a key's name was compared where the code compares a
prefix, in `Plugin` every errored result was scanned, in `MachineKey` only the loader
itself could lose a key, and in `PgRelay` the client always read on.

Only model-checked:

* Liveness (`EveryHoldEnds`, `RefusalEnds`, `EveryStartEnds`, `PermitReturns`,
  `EveryConversationEnds`, `RunEnds`, the gate's fairness) and `ENABLED`.
* `FactsTellTheWorst`: statements are trees of any depth, and `SqlFacts` reads them
  with RECURSIVE operators. A module that reaches one cannot be proved about.
* `RestoredWhole` and `JsonKeepsItsShape`: the streaming detokenizer. What it holds
  back after each frame is the end of a recursion over the bytes so far, over a
  UTF-8 decoder that is one too, and the claim is that no cut changes the sum: an
  induction over the frames about three nested recursions. What the whole body
  comes to is proved (`HomeAgain`); that a stream comes to the same is checked
  for every cut into frames of 1, 4 or 9 bytes. Of `JsonKeepsItsShape` the
  reference is a recursion of its own over what both texts have in common.

## 6. Not modelled

* Of the isolation launcher: what the kernel makes of uid maps, ioctls and the
  text of a Seatbelt profile (a namespace is empty, a profile lets through the
  proxies' ports and nothing else), the length of a socket's path, the pauses
  between retries, the spellings of the proxy variables. `ToldOrConfined` excepts
  what the code says it gives up: a descriptor above a lowered limit where the
  limit is all there is to go by, and on macOS a port that `run` has let go of, be
  it by dying or by its proxy's thread's death, once another process has taken it.
  The web site.
* The byte scanners of `protocols.rs` and `postgres.rs` for text that sqlparser
  refuses (`scan_for_statement_separator`, `lexical_tokens`): their reference
  is PostgreSQL's lexer. A frame's text is here "one statement", "several" or
  "a DO block", as those scanners judge it.
* Regular expressions, checksums and entropy of the detectors; CEL beyond the
  expressions listed; key generation, TLS and HTTP/2; text of messages.
* In the theorems on `Gateway`'s texts: a private key block as a surface, and a
  match within a placeholder's digest (section 5).
* In a PostgreSQL session: the transaction status a refusal echoes and TLS to
  the database. A frame is written to the database at once, unless the relay
  has ended.
* Of the token directory: file modes and symlinks. Two gateways that generate a
  CA over one directory at once. A hook process that dies half-way other than
  by the reply such a process gives. The management API's static assets.
* The order of lines of two processes in one JSONL file is their order of
  appending, one `write` each (`O_APPEND`).
* What a gateway's log says of an event its sink refused: the event is then in the
  ring only, until newer ones push it out, and `NoSilentLoss` promises no more.
* What an ACL grants to whom: a directory's ACL is absent, denies or grants. The
  NFSv4 ACLs a Linux host may mount (#215) are the exception `SinkStaysPut` names.
* How long a timer or a permit takes. `DepartureIsNotADecision` does not say that a
  timer leaves a decision in the channel alone (section 4), and `PermitReturns`
  says that a permit returns, though a hold whose client has gone may keep it until
  `pause_timeout`.

`PROJECT.json` has each component's status.

## 7. Plan

What is left, in the order of what it would say:

1. `RestoredWhole` for any cut. The way is `GatewayProofs`' own: the recursions of
   `Detokenizer` as functions on positions, and an invariant that says of the
   stream so far what `Parts` says of a text: what was emitted is the detokenized
   text up to a border no placeholder crosses, and what is held back is the rest.
2. `FactsTellTheWorst`: `SqlFacts` over statements as functions from paths, as
   `HookVerdict` has its JSON values, which takes the recursion out of the readers.
3. An abstract store without a bound that `Gateway`'s store refines up to eviction.
4. Two sessions to a database behind one SOCKS5 listener, with a `PgSession` each.
5. A private key block among the surfaces, with what a client may write around one
   as an assumption on texts in place of the one on surfaces.
