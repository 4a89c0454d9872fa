------------------------------ MODULE PgRelay ------------------------------
(***************************************************************************)
(* One PostgreSQL session (crates/honmoon-proxy/src/runtime/postgres.rs):   *)
(* the message loop, which reads the client's frames and forwards or        *)
(* refuses each; the database, which answers what it was sent; and the      *)
(* relay, the only task that writes to the client, which must put honmoon's *)
(* own refusals behind every answer the client was still owed.              *)
(*                                                                         *)
(* A frame is known by its position in the client's stream; frame 0 is the  *)
(* StartupMessage.  A backend message carries the frame it answers, which   *)
(* the relay cannot see: it has only tags, counters and an empty socket.    *)
(***************************************************************************)
EXTENDS Naturals, Sequences, FiniteSets

CONSTANT
    Workloads    \* what a session's peers do, records of
                 \*   bound: how many frames the client sends after startup
                 \*   kinds: which it sends, a subset of FrameKinds
                 \*   events: what else may happen, a subset of Events

FrameKinds == {"Query", "Execute", "Flush", "Sync", "Denied", "Paused"}
Events == {"eager client", "client write fails", "client stalls",
           "error", "notice", "split", "close", "oversized", "drips"}

ASSUME KnownWorkloads ==
    Workloads \subseteq [bound : Nat, kinds : SUBSET FrameKinds, events : SUBSET Events]

VARIABLES
    work,       \* the workload of this session
    frames,     \* the frames the message loop has read
    loop,       \* where the message loop (and then run_postgres) is
    fwd,        \* Forwarded: sync_points, flushes, flushes_covered
    channel,    \* the one-slot injection channel
    acked,      \* the injection the loop awaits has been acknowledged
    upstream,   \* frames on their way to the database
    buffered,   \* the database's unsent output
    flushing,   \* it is sending that output
    skipping,   \* it discards frames until Sync, after an error
    socket,     \* backend messages the relay has not read
    closed,     \* the database has closed the connection
    relay,      \* where the relay task is
    pending,    \* Relay::pending: at most one injection
    sync,       \* Relay::sync
    flush,      \* Relay::flush
    fresh,      \* Relay::fresh > 0
    lastTag,    \* Relay::last_tag
    client,     \* what the client received, in order
    midFrame,   \* the client holds part of a frame
    forgiven,   \* the last frame whose refusal gave up on being ordered
    overlapped  \* a flush was forwarded behind an unanswered sync point

loopVars == <<frames, loop, fwd, overlapped>>
dbVars == <<buffered, flushing, skipping>>
relayVars == <<relay, pending, sync, flush, fresh, lastTag, client, midFrame, forgiven>>
vars == <<work, loopVars, channel, acked, upstream, dbVars, socket, closed, relayVars>>

n == Len(frames)     \* the frame the loop is at
Kind(m) == IF m = 0 THEN "Sync" ELSE frames[m]
SyncPoints == {"Query", "Sync"}

Fresh == [received |-> 0, abandoned |-> 0]    \* Progress::new

(* Startup is over: its one sync point is counted and on its way.           *)
Init ==
    /\ work \in Workloads
    /\ frames = <<>> /\ loop = "reading"
    /\ fwd = [sync |-> 1, flush |-> 0, covered |-> 0]
    /\ channel = <<>> /\ acked = FALSE
    /\ upstream = <<0>>
    /\ buffered = <<>> /\ flushing = FALSE /\ skipping = FALSE
    /\ socket = <<>> /\ closed = FALSE
    /\ relay = "top" /\ pending = <<>>
    /\ sync = Fresh /\ flush = Fresh /\ fresh = FALSE /\ lastTag = "none"
    /\ client = <<>> /\ midFrame = FALSE
    /\ forgiven = 0 /\ overlapped = FALSE

-----------------------------------------------------------------------------
(* The message loop.                                                        *)

(* As if only Sync earned a ReadyForQuery.                                  *)
CountSyncsOnly(k) ==
    /\ fwd' = [sync    |-> fwd.sync + (IF k = "Sync" THEN 1 ELSE 0),
               flush   |-> fwd.flush + (IF k = "Flush" THEN 1 ELSE 0),
               covered |-> IF k = "Sync" THEN fwd.flush ELSE fwd.covered]
    /\ overlapped' = (overlapped \/ (k = "Flush" /\ sync.received < fwd.sync))

(* forwarded_sync_point and forwarded_flush, before the bytes leave.        *)
Count(k) ==
    /\ fwd' = [sync    |-> fwd.sync + (IF k \in SyncPoints THEN 1 ELSE 0),
               flush   |-> fwd.flush + (IF k = "Flush" THEN 1 ELSE 0),
               covered |-> IF k \in SyncPoints THEN fwd.flush ELSE fwd.covered]
    /\ overlapped' = (overlapped \/ (k = "Flush" /\ sync.received < fwd.sync))

(* refusal and inject: the tags are the counts as they stand.               *)
Inject(m, notice) ==
    /\ channel' = Append(channel, [frame |-> m, sync |-> fwd.sync,
                                   flush |-> fwd.flush, notice |-> notice])
    /\ acked' = FALSE
    /\ loop' = IF notice THEN "notice" ELSE "awaiting"

(* Only an eager client sends a statement before its startup is answered.   *)
Read(k) ==
    /\ loop = "reading"
    /\ "eager client" \in work.events \/ sync.received > 0
    /\ n < work.bound
    /\ k \in work.kinds
    /\ frames' = Append(frames, k)

Forward(k) ==
    /\ k \notin {"Denied", "Paused"}
    /\ Read(k)
    /\ Count(k)
    /\ loop' = "forwarding"
    /\ UNCHANGED <<work, channel, acked, upstream, dbVars, socket, closed, relayVars>>

Write ==
    /\ loop = "forwarding"
    /\ upstream' = Append(upstream, n)
    /\ loop' = "reading"
    /\ UNCHANGED <<work, frames, fwd, overlapped, channel, acked, dbVars, socket, closed, relayVars>>

Refuse ==
    /\ Read("Denied")
    /\ Inject(n + 1, FALSE)
    /\ UNCHANGED <<work, fwd, overlapped, upstream, dbVars, socket, closed, relayVars>>

(* The policy pauses the statement: hold_until, and what it can return.     *)
Hold ==
    /\ Read("Paused")
    /\ loop' = "held"
    /\ UNCHANGED <<work, fwd, overlapped, channel, acked, upstream, dbVars, socket, closed, relayVars>>

Approved ==
    /\ loop = "held"
    /\ frames' = [frames EXCEPT ![n] = "Query"]
    /\ Count("Query")
    /\ loop' = "forwarding"
    /\ UNCHANGED <<work, channel, acked, upstream, dbVars, socket, closed, relayVars>>

(* Rejected, QueueFull, or abandoned by flooding the watch budget.          *)
Rejected ==
    /\ loop = "held"
    /\ Inject(n, FALSE)
    /\ UNCHANGED <<work, frames, fwd, overlapped, upstream, dbVars, socket, closed, relayVars>>

(* The client left: a notice, in case it only half-closed, then the end.    *)
Abandoned ==
    /\ loop = "held"
    /\ Inject(n, TRUE)
    /\ UNCHANGED <<work, frames, fwd, overlapped, upstream, dbVars, socket, closed, relayVars>>

Resume ==
    /\ loop \in {"awaiting", "notice"}
    /\ acked
    /\ loop' = IF loop = "awaiting" THEN "reading" ELSE "over"
    /\ UNCHANGED <<work, frames, fwd, overlapped, channel, acked, upstream, dbVars, socket, closed,
                   relayVars>>

(* ABANDONED_NOTICE_TIMEOUT.                                                *)
NoticeTimesOut ==
    /\ loop = "notice"
    /\ loop' = "over"
    /\ UNCHANGED <<work, frames, fwd, overlapped, channel, acked, upstream, dbVars, socket, closed,
                   relayVars>>

-----------------------------------------------------------------------------
(* run_postgres: the end of the session.                                    *)

Stopped == relay \in {"framed", "unframed"}

(* The relay went without acknowledging: the loop hands its answer back.    *)
Unwritten ==
    /\ loop \in {"awaiting", "notice"}
    /\ Stopped /\ ~acked
    /\ loop' = IF loop = "awaiting" THEN "unwritten" ELSE "over"
    /\ UNCHANGED <<work, frames, fwd, overlapped, channel, acked, upstream, dbVars, socket, closed,
                   relayVars>>

(* As if the writer came back whatever stopped the relay.                   *)
HandBackAlways == Stopped

HandBackUsable == relay = "framed"

Refusal(m, ordered) == [tag |-> "refusal", frame |-> m, ordered |-> ordered, forgiven |-> forgiven]

(* ... and it is written with the half the relay handed back, or not at all.*)
AnswerOnHandBack ==
    /\ loop = "unwritten"
    /\ \/ HandBackUsable /\ client' = Append(client, Refusal(n, FALSE))
       \/ (~HandBackUsable \/ "client write fails" \in work.events) /\ UNCHANGED client
    /\ loop' = "over"
    /\ UNCHANGED <<work, frames, fwd, overlapped, channel, acked, upstream, dbVars, socket, closed,
                   relay, pending, sync, flush, fresh, lastTag, midFrame, forgiven>>

(* The relay ended and the loop is dropped; or the client was reset, or a   *)
(* write to the database failed.                                            *)
LoopDropped ==
    /\ loop \in {"reading", "forwarding", "held"}
    /\ Stopped \/ loop = "reading" \/ (loop = "forwarding" /\ closed)
    /\ loop' = "over"
    /\ UNCHANGED <<work, frames, fwd, overlapped, channel, acked, upstream, dbVars, socket, closed,
                   relayVars>>

(* A clean end of input: the upstream is half-closed and the relay drained, *)
(* until it ends or DRAIN_TIMEOUT.                                          *)
ClientEnds ==
    /\ loop = "reading"
    /\ loop' = "draining"
    /\ UNCHANGED <<work, frames, fwd, overlapped, channel, acked, upstream, dbVars, socket, closed,
                   relayVars>>

DrainEnds ==
    /\ loop = "draining"
    /\ loop' = "over"
    /\ UNCHANGED <<work, frames, fwd, overlapped, channel, acked, upstream, dbVars, socket, closed,
                   relayVars>>

Abort ==
    /\ loop = "over"
    /\ ~Stopped /\ relay # "aborted"
    /\ relay' = "aborted"
    /\ UNCHANGED <<work, loopVars, channel, acked, upstream, dbVars, socket, closed,
                   pending, sync, flush, fresh, lastTag, client, midFrame, forgiven>>

-----------------------------------------------------------------------------
(* The database, as far as the session depends on it: it answers in order,  *)
(* keeps its output until a Flush or the end of a request cycle, sends an   *)
(* error or a notice at once, and after an error in an extended-protocol    *)
(* batch discards everything up to the next Sync.                           *)

Message(tag, m) == [tag |-> tag, frame |-> m]

Database(action) ==
    /\ upstream # <<>> /\ ~flushing /\ ~closed
    /\ upstream' = Tail(upstream)
    /\ action
    /\ UNCHANGED <<work, loopVars, channel, acked, closed, relayVars>>

Discard ==
    Database(/\ skipping /\ Kind(Head(upstream)) # "Sync"
             /\ UNCHANGED <<dbVars, socket>>)

AnswerSync ==
    Database(/\ Kind(Head(upstream)) = "Sync"
             /\ buffered' = Append(buffered, Message("Z", Head(upstream)))
             /\ flushing' = TRUE /\ skipping' = FALSE
             /\ UNCHANGED socket)

AnswerFlush ==
    Database(/\ Kind(Head(upstream)) = "Flush" /\ ~skipping
             /\ flushing' = (buffered # <<>>)
             /\ UNCHANGED <<buffered, skipping, socket>>)

Cycle(m) == IF Kind(m) = "Query" THEN <<Message("Z", m)>> ELSE <<>>

Answer ==
    LET m == Head(upstream) IN
    Database(/\ Kind(m) \in {"Query", "Execute"} /\ ~skipping
             /\ \/ /\ buffered' = buffered \o <<Message("C", m)>> \o Cycle(m)
                   /\ UNCHANGED socket
                \/ /\ "notice" \in work.events
                   /\ socket' = socket \o buffered \o <<Message("N", m)>>
                   /\ buffered' = <<Message("C", m)>> \o Cycle(m)
             /\ flushing' = (Kind(m) = "Query")
             /\ UNCHANGED skipping)

Fail ==
    LET m == Head(upstream) IN
    Database(/\ "error" \in work.events
             /\ Kind(m) \in {"Query", "Execute"} /\ ~skipping
             /\ socket' = socket \o buffered \o <<Message("E", m)>>
             /\ buffered' = Cycle(m)
             /\ flushing' = (Kind(m) = "Query")
             /\ skipping' = (Kind(m) = "Execute"))

Send ==
    /\ flushing /\ ~closed
    /\ \E k \in 1..Len(buffered) :
           /\ "split" \in work.events \/ k = Len(buffered)
           /\ socket' = socket \o SubSeq(buffered, 1, k)
           /\ buffered' = SubSeq(buffered, k + 1, Len(buffered))
           /\ flushing' = (k < Len(buffered))
    /\ UNCHANGED <<work, loopVars, channel, acked, upstream, skipping, closed, relayVars>>

Close ==
    /\ "close" \in work.events
    /\ ~closed
    /\ closed' = TRUE
    /\ UNCHANGED <<work, loopVars, channel, acked, upstream, dbVars, socket, relayVars>>

-----------------------------------------------------------------------------
(* The relay.                                                               *)

Covers(progress, tag) == progress.received >= tag \/ progress.abandoned >= tag
AtLeast(x, y) == IF x >= y THEN x ELSE y

Releasable(r, f) == Covers(sync, r.sync) /\ Covers(f, r.flush)

(* write_refusal: whole and acknowledged, or the client is left mid-frame.  *)
WriteAnswer(r, ordered, next) ==
    /\ pending' = <<>>
    /\ \/ /\ client' = Append(client, Refusal(r.frame, ordered))
          /\ acked' = TRUE
          /\ relay' = next
          /\ UNCHANGED midFrame
       \/ /\ "client write fails" \in work.events
          /\ relay' = "unframed"
          /\ midFrame' = TRUE
          /\ UNCHANGED <<client, acked>>

(* write_queued, with the flush side as f.                                  *)
WriteQueued(queue, f) ==
    IF queue # <<>> /\ Releasable(Head(queue), f)
    THEN WriteAnswer(Head(queue), TRUE, "fill")
    ELSE /\ pending' = queue
         /\ relay' = "fill"
         /\ UNCHANGED <<client, acked, midFrame>>

(* The messages that can end what a Flush pushes out.                       *)
Terminal == {"C", "E"}

Settling ==
    /\ relay = "top"
    /\ fresh /\ lastTag \in Terminal
    /\ flush.received < fwd.flush

(* A quiet socket at a message boundary settles one flush.                  *)
Settle ==
    /\ Settling
    /\ socket = <<>> /\ ~closed
    /\ fresh' = FALSE
    /\ flush' = [flush EXCEPT !.received = @ + 1]
    /\ WriteQueued(pending, flush')
    /\ UNCHANGED <<work, loopVars, channel, upstream, dbVars, socket, closed, sync, lastTag, forgiven>>

Proceed ==
    /\ relay = "top"
    /\ ~Settling \/ socket # <<>>
    /\ WriteQueued(pending, flush)
    /\ UNCHANGED <<work, loopVars, channel, upstream, dbVars, socket, closed,
                   sync, flush, fresh, lastTag, forgiven>>

(* fill: the channel first, while nothing is pending.                       *)
TakeInjection ==
    /\ relay = "fill"
    /\ pending = <<>> /\ channel # <<>>
    /\ channel' = <<>>
    /\ WriteQueued(channel, flush)
    /\ UNCHANGED <<work, loopVars, upstream, dbVars, socket, closed, sync, flush, fresh, lastTag, forgiven>>

(* As if the answer were forced but its write left to a later check.        *)
GiveUpUnwritten ==
    /\ relay = "fill"
    /\ pending # <<>>
    /\ socket = <<>> /\ ~closed
    /\ sync' = [sync EXCEPT !.abandoned = AtLeast(@, Head(pending).sync)]
    /\ flush' = [flush EXCEPT !.abandoned = AtLeast(@, Head(pending).flush)]
    /\ UNCHANGED <<work, loopVars, channel, acked, upstream, dbVars, socket, closed, relay,
                   pending, fresh, lastTag, client, midFrame, forgiven>>

(* The stall bound, re-armed by every byte read: it fires on a silence.     *)
GiveUp ==
    /\ relay = "fill"
    /\ pending # <<>>
    /\ socket = <<>> /\ ~closed
    /\ sync' = [sync EXCEPT !.abandoned = AtLeast(@, Head(pending).sync)]
    /\ flush' = [flush EXCEPT !.abandoned = AtLeast(@, Head(pending).flush)]
    /\ forgiven' = Head(pending).frame
    /\ WriteAnswer(Head(pending), FALSE, "fill")
    /\ UNCHANGED <<work, loopVars, channel, upstream, dbVars, socket, closed, fresh, lastTag>>

(* ABANDONED_NOTICE_ORDER_BUDGET: nothing is written off.                   *)
OrderBudgetSpent ==
    /\ relay = "fill"
    /\ pending # <<>> /\ Head(pending).notice
    /\ WriteAnswer(Head(pending), FALSE, "fill")
    /\ UNCHANGED <<work, loopVars, channel, upstream, dbVars, socket, closed,
                   sync, flush, fresh, lastTag, forgiven>>

(* delivered: what one complete message tells the barrier.                  *)
Delivered(tag) ==
    /\ lastTag' = tag
    /\ fresh' = (tag # "Z")
    /\ flush' = IF tag = "Z"
                THEN [flush EXCEPT !.received = AtLeast(@, fwd.covered)] ELSE flush
    /\ sync' = IF tag = "Z" /\ sync.received < fwd.sync
               THEN [sync EXCEPT !.received = @ + 1] ELSE sync

Reading ==
    /\ relay = "fill"
    /\ pending # <<>> \/ channel = <<>>

Relayed ==
    /\ client' = Append(client, Head(socket))
    /\ socket' = Tail(socket)
    /\ Delivered(Head(socket).tag)
    /\ relay' = "top"
    /\ midFrame' = FALSE
    /\ UNCHANGED <<work, loopVars, channel, acked, upstream, dbVars, closed, pending, forgiven>>

Deliver ==
    /\ Reading
    /\ socket # <<>>
    /\ Relayed

(* A message too large to buffer: head first, then a copy nothing interrupts.*)
StartCopy ==
    /\ Reading
    /\ "oversized" \in work.events
    /\ socket # <<>> /\ Head(socket).tag # "Z"
    /\ relay' = "copy"
    /\ midFrame' = TRUE
    /\ UNCHANGED <<work, loopVars, channel, acked, upstream, dbVars, socket, closed,
                   pending, sync, flush, fresh, lastTag, client, forgiven>>

FinishCopy ==
    /\ relay = "copy"
    /\ Relayed

(* A write to the client fails, or the upstream dies inside a copy.         *)
Truncate ==
    /\ \/ relay = "copy" /\ (closed \/ "client write fails" \in work.events)
       \/ Reading /\ socket # <<>> /\ "client write fails" \in work.events
    /\ relay' = "unframed"
    /\ midFrame' = TRUE
    /\ UNCHANGED <<work, loopVars, channel, acked, upstream, dbVars, socket, closed,
                   pending, sync, flush, fresh, lastTag, client, forgiven>>

UpstreamEnds ==
    /\ Reading \/ Settling
    /\ socket = <<>> /\ closed
    /\ relay' = "stopping"
    /\ UNCHANGED <<work, loopVars, channel, acked, upstream, dbVars, socket, closed,
                   pending, sync, flush, fresh, lastTag, client, midFrame, forgiven>>

(* As if the answer written on the way out were not acknowledged.           *)
StopUnacknowledged ==
    /\ relay = "stopping"
    /\ relay' = "framed"
    /\ pending' = <<>>
    /\ client' = IF pending = <<>> THEN client
                 ELSE Append(client, Refusal(Head(pending).frame, FALSE))
    /\ UNCHANGED <<work, loopVars, channel, acked, upstream, dbVars, socket, closed, midFrame,
                   sync, flush, fresh, lastTag, forgiven>>

(* upstream_to_client: what is queued goes out unordered, then the writer   *)
(* is handed back.                                                          *)
Stop ==
    /\ relay = "stopping"
    /\ IF pending # <<>>
       THEN WriteAnswer(Head(pending), FALSE, "framed")
       ELSE relay' = "framed" /\ UNCHANGED <<pending, client, acked, midFrame>>
    /\ UNCHANGED <<work, loopVars, channel, upstream, dbVars, socket, closed,
                   sync, flush, fresh, lastTag, forgiven>>

-----------------------------------------------------------------------------
MessageLoop ==
    \/ \E k \in FrameKinds : Forward(k)
    \/ Write \/ Refuse \/ Hold \/ Approved \/ Rejected \/ Abandoned
    \/ Resume \/ NoticeTimesOut

Session == Unwritten \/ AnswerOnHandBack \/ LoopDropped \/ ClientEnds \/ DrainEnds \/ Abort

DB == Discard \/ AnswerSync \/ AnswerFlush \/ Answer \/ Fail \/ Send \/ Close

RelayTask ==
    \/ Settle \/ Proceed \/ TakeInjection \/ GiveUp \/ OrderBudgetSpent
    \/ Deliver \/ StartCopy \/ FinishCopy \/ Truncate \/ UpstreamEnds \/ Stop

Next == MessageLoop \/ Session \/ DB \/ RelayTask

Spec == Init /\ [][Next]_vars

(* A step of the relay is owed once its task can run, which a write to the  *)
(* client cannot while the client has stopped reading ("client stalls"), and *)
(* giving up cannot while the database lets one byte of a message through   *)
(* each stall window ("drips"): no write to the client has a timeout.       *)
Owed(step) ==
    /\ step
    /\ \/ "client stalls" \notin work.events
       \/ client' = client /\ midFrame' = midFrame

(* The two tasks are scheduled, and the timers that end a session fire.     *)
(* The client, the database and the end of an oversized copy are owed       *)
(* nothing.                                                                 *)
FairSpec ==
    /\ Spec
    /\ WF_vars(Resume) /\ WF_vars(Unwritten)
    /\ WF_vars(NoticeTimesOut) /\ WF_vars(DrainEnds) /\ WF_vars(Abort)
    /\ WF_vars(AnswerOnHandBack /\ ("client stalls" \notin work.events \/ ~HandBackUsable))
    /\ WF_vars(Owed(Settle \/ Proceed \/ TakeInjection \/ Deliver \/ UpstreamEnds \/ Stop
                    \/ ("drips" \notin work.events /\ GiveUp)))

-----------------------------------------------------------------------------
TypeOK ==
    /\ frames \in Seq(FrameKinds) /\ Len(frames) <= work.bound
    /\ loop \in {"reading", "forwarding", "held", "awaiting", "notice", "unwritten",
                 "draining", "over"}
    /\ fwd \in [sync : Nat, flush : Nat, covered : Nat]
    /\ channel \in Seq([frame : Nat, sync : Nat, flush : Nat, notice : BOOLEAN])
    /\ Len(channel) <= 1
    /\ acked \in BOOLEAN
    /\ upstream \in Seq(0..work.bound)
    /\ buffered \in Seq([tag : {"C", "Z"}, frame : Nat])
    /\ flushing \in BOOLEAN /\ skipping \in BOOLEAN
    /\ socket \in Seq([tag : {"C", "E", "N", "Z"}, frame : Nat])
    /\ closed \in BOOLEAN
    /\ relay \in {"top", "fill", "copy", "stopping", "framed", "unframed", "aborted"}
    /\ pending \in Seq([frame : Nat, sync : Nat, flush : Nat, notice : BOOLEAN])
    /\ Len(pending) <= 1
    /\ sync \in [received : Nat, abandoned : Nat]
    /\ flush \in [received : Nat, abandoned : Nat]
    /\ fresh \in BOOLEAN
    /\ lastTag \in {"none", "C", "E", "N", "Z"}
    /\ midFrame \in BOOLEAN
    /\ forgiven \in Nat /\ overlapped \in BOOLEAN

Refusals == {i \in DOMAIN client : client[i].tag = "refusal"}

(* An answer reached the client after an ordered refusal it should precede: *)
(* a frame of one of `kinds` stands between its frame and the refused one,  *)
(* and no refusal has given up waiting since its frame.                     *)
Overtaken(kinds) ==
    \E i \in Refusals, j \in DOMAIN client \ Refusals :
        /\ i < j
        /\ client[i].ordered
        /\ client[j].frame >= client[i].forgiven
        /\ \E s \in client[j].frame .. (client[i].frame - 1) : Kind(s) \in kinds

(* No refusal overtakes the answer to a request cycle the client ended      *)
(* before it, however the database splits, delays or fails its answers, and *)
(* whatever earlier refusals gave up on (Relay::releasable, the sync side). *)
RefusalBehindSyncs == ~Overtaken(SyncPoints)

(* No refusal overtakes output a Flush asked for, so long as a client that  *)
(* drives batches with Flush waits out a request cycle before the next and  *)
(* the database's bursts arrive whole: an empty socket is the relay's only  *)
(* sign that a batch's output is over (Relay::settle, the flush side).      *)
RefusalBehindFlushes ==
    overlapped \/ "split" \in work.events \/ ~Overtaken({"Flush"})

(* The same for every client, while no wait has been given up: what the     *)
(* comments on the barrier say of it.                                       *)
RefusalBehindEveryFlush == forgiven = 0 => ~Overtaken({"Flush"})

(* The counts are of what happened: the sync side has counted each          *)
(* ReadyForQuery the client really has, giving up counts as none, and       *)
(* neither side is ahead of what was forwarded.                             *)
CountsAreTruthful ==
    /\ sync.received = Cardinality({i \in DOMAIN client : client[i].tag = "Z"})
    /\ sync.received <= fwd.sync
    /\ flush.received <= fwd.flush

(* A refusal keeps its place among the answers, and by true counts rather   *)
(* than by luck.                                                            *)
RefusalInItsPlace == RefusalBehindSyncs /\ RefusalBehindFlushes /\ CountsAreTruthful

(* Every refused statement is answered exactly once while the session goes  *)
(* on, and at most once whichever of the relay and run_postgres writes the  *)
(* last one; answers come in the order of the statements.                   *)
EachRefusalOnce ==
    /\ \A i, j \in Refusals : i < j => client[i].frame < client[j].frame
    /\ loop \in {"reading", "forwarding", "draining"} =>
           \A m \in 1..n : frames[m] \in {"Denied", "Paused"} =>
               \E i \in Refusals : client[i].frame = m

(* Once part of a frame is on the client's socket, nothing but the rest of  *)
(* that frame follows: no refusal is written into it, by either task.       *)
NothingIntoAFrame ==
    [][midFrame /\ client' # client =>
           ~midFrame' /\ client'[Len(client')].tag # "refusal"]_vars

(* A client that has stopped reading, and a write to it comes next.         *)
StalledOnClient ==
    /\ "client stalls" \in work.events
    /\ ENABLED ((RelayTask \/ AnswerOnHandBack) /\ client' # client)

(* A refused statement's client is told or its session ends, with no help   *)
(* from the database, unless the answer waits for good on an oversized copy, *)
(* on a client that has stopped reading, or on a message the database never *)
(* finishes.  A session whose client is gone or done ends whatever the relay *)
(* waits for: the notice and the drain have timeouts, then it is aborted.   *)
RefusalEnds ==
    /\ loop \in {"awaiting", "unwritten"} ~>
           \/ loop \notin {"awaiting", "unwritten"}
           \/ [](relay = "copy")
           \/ []StalledOnClient
           \/ []("drips" \in work.events /\ relay = "fill" /\ pending # <<>> /\ socket = <<>>)
    /\ loop \in {"notice", "draining", "over"} ~> Stopped \/ relay = "aborted"
=============================================================================
