----------------------------- MODULE AuditTrail -----------------------------
(***************************************************************************)
(* The audit log while it is written and read: threads of the gateway      *)
(* number their events under the ring's lock and append them under the     *)
(* sink's, a hook process appends to the same file under neither, the      *)
(* management API reads the ring and the TypeScript API reads the file.    *)
(***************************************************************************)
EXTENDS Naturals, Sequences, FiniteSets, SequencesExt, AuditSink

CONSTANTS Recorders,   \* the gateway's threads that record
          HookProcess, \* a `honmoon hook` process
          Capacity     \* the ring's capacity
\* A workload's: events, bound: events numbered by the gateway
\*               ticks,  bound: how often the clock moves
\*               turns,  bound: how often the wall clock is set back
\*               faults, bound: failing and short writes

ASSUME CapacityAssumption == Capacity \in Nat

VARIABLES starts,   \* the gateway's processes so far: each numbers its events from 1
          ring,     \* the newest events of the gateway
          nextId,   \* by process: the id its next event gets
          writing,  \* by recorder: the event it has yet to append, and how much of it
          file,     \* the sink: chunks of lines, in the order they were written
          unwritten, \* events whose append returned an error: a hook reports it on its
                     \* response, the gateway's `record` drops it into a warning
          clock,    \* the wall clock, as coarse as the reader's milliseconds
          turned,   \* how often it was set back
          faults,
          page      \* what the last /api/audit answer of the TypeScript API listed

trailVars == <<starts, ring, nextId, writing, file, unwritten, clock, turned, faults, page>>

Nothing == [event |-> [by |-> "none", run |-> 0, id |-> 0, at |-> 0, what |-> "none"],
            left |-> "none"]
Writers == Recorders \union {HookProcess}
ProcessOf(r) == IF r = HookProcess THEN "hook" ELSE "gateway"

TrailInit ==
    /\ starts = 1
    /\ ring = <<>> /\ file = <<>> /\ page = <<>>
    /\ nextId = [p \in {"gateway", "hook"} |-> 1]
    /\ writing = [r \in Writers |-> Nothing]
    /\ unwritten = {}
    /\ clock = 0 /\ turned = 0 /\ faults = 0

Evicted(s) == IF Len(s) > Capacity THEN SubSeq(s, Len(s) - Capacity + 1, Len(s)) ELSE s

Event(p, id, what) == [by |-> p, run |-> starts, id |-> id, at |-> clock, what |-> what]

(* record_durable, under the ring's lock: the id, the timestamp, the ring. *)
Numbered(r, what) ==
    LET p == ProcessOf(r)
        event == Event(p, nextId[p], what) IN
    /\ nextId' = [nextId EXCEPT ![p] = @ + 1]
    /\ ring' = IF p = "gateway" THEN Evicted(Append(ring, event)) ELSE ring
    /\ writing' = [writing EXCEPT ![r] = [event |-> event, left |-> "whole"]]

RecordDurable(r) ==
    /\ writing[r] = Nothing
    /\ nextId[ProcessOf(r)] <= IF r = HookProcess THEN 1 ELSE load.events
    /\ Numbered(r, "decision")
    /\ UNCHANGED <<starts, file, unwritten, clock, turned, faults, page>>

SinkLockFree(r) ==
    r # HookProcess => \A o \in Recorders : writing[o].left # "tail"

\* As if the newline were a write of its own, as before #131.
AppendThenNewline(r) ==
    /\ writing[r] # Nothing
    /\ IF writing[r].left = "whole"
       THEN /\ SinkLockFree(r)
            /\ file' = Append(file, [event |-> writing[r].event, part |-> "head"])
            /\ writing' = [writing EXCEPT ![r].left = "tail"]
       ELSE /\ file' = Append(file, [event |-> writing[r].event, part |-> "tail"])
            /\ writing' = [writing EXCEPT ![r] = Nothing]
    /\ UNCHANGED <<starts, ring, nextId, unwritten, clock, turned, faults, page>>

(* append_jsonl: the event and its newline are one buffer and one write.   *)
AppendJsonl(r) ==
    /\ writing[r] # Nothing /\ (writing[r].left = "whole" => SinkLockFree(r))
    /\ file' = Append(file, [event |-> writing[r].event, part |-> writing[r].left])
    /\ writing' = [writing EXCEPT ![r] = Nothing]
    /\ UNCHANGED <<starts, ring, nextId, unwritten, clock, turned, faults, page>>

(* A short write: write_all comes back for the rest, the lock still held.  *)
ShortWrite(r) ==
    /\ writing[r].left = "whole" /\ SinkLockFree(r)
    /\ faults < load.faults /\ faults' = faults + 1
    /\ file' = Append(file, [event |-> writing[r].event, part |-> "head"])
    /\ writing' = [writing EXCEPT ![r].left = "tail"]
    /\ UNCHANGED <<starts, ring, nextId, unwritten, clock, turned, page>>

(* The write fails, and whatever of the line is in the file stays there.   *)
WriteFails(r) ==
    /\ writing[r] # Nothing /\ (writing[r].left = "whole" => SinkLockFree(r))
    /\ faults < load.faults /\ faults' = faults + 1
    /\ unwritten' = unwritten \union {writing[r].event}
    /\ writing' = [writing EXCEPT ![r] = Nothing]
    /\ UNCHANGED <<starts, ring, nextId, file, clock, turned, page>>

Tick == /\ clock < load.ticks /\ clock' = clock + 1
        /\ UNCHANGED <<starts, ring, nextId, writing, file, unwritten, turned, faults, page>>

(* now_rfc3339 reads the wall clock, which NTP or an operator may set back. *)
SetBack == /\ turned < load.turns /\ turned' = turned + 1
           /\ clock' \in {t \in 0 .. clock : t # clock}
           /\ UNCHANGED <<starts, ring, nextId, writing, file, unwritten, faults, page>>

(* AuditLog::recent: newest first.                                         *)
Recent(limit) == LET newest == Reverse(ring) IN
    SubSeq(newest, 1, IF limit < Len(newest) THEN limit ELSE Len(newest))

(* parseJsonl: the events of the lines that parse.  A line ends with a     *)
(* whole chunk or a tail.                                                  *)
StartsLine(i) == i = 1 \/ file[i - 1].part # "head"
Parses(i) == \/ file[i].part = "whole" /\ StartsLine(i)
             \/ /\ file[i].part = "tail" /\ i > 1
                /\ file[i - 1].part = "head" /\ file[i - 1].event = file[i].event
                /\ StartsLine(i - 1)
Malformed == \E i \in DOMAIN file : file[i].part # "head" /\ ~Parses(i)

ParseJsonl == {i \in DOMAIN file : Parses(i)}

(* queryAudit: by timestamp, then by id, newest first; what neither tells   *)
(* apart stays as it was.                                                  *)
Newer(a, b) == a.at > b.at \/ (a.at = b.at /\ a.id > b.id)
Precedes(i, j) == \/ Newer(file[i].event, file[j].event)
                  \/ ~Newer(file[j].event, file[i].event) /\ i < j
QueryAudit == {order \in SetToSeqs(ParseJsonl) :
                   \A k, l \in DOMAIN order : k < l => Precedes(order[k], order[l])}

(* GET /api/audit of the TypeScript API reads the file as it is now, or as *)
(* it was within its cache's second: `page` may lag behind the file.       *)
ReadAuditFile ==
    /\ \E order \in QueryAudit : page' = [k \in DOMAIN order |-> file[order[k]].event]
    /\ page' # page
    /\ UNCHANGED <<starts, ring, nextId, writing, file, unwritten, clock, turned, faults>>

TrailStep == \/ \E r \in Writers : RecordDurable(r) \/ AppendJsonl(r)
                                   \/ ShortWrite(r) \/ WriteFails(r)
             \/ Tick \/ SetBack \/ ReadAuditFile

-----------------------------------------------------------------------------
Underway(e) == \E r \in Writers : writing[r].event = e
Appended(e) == \E i \in DOMAIN file : file[i].event = e /\ file[i].part # "head"
ReadBack(e) == \E i \in ParseJsonl : file[i].event = e

\* A write was cut short and its rest does not follow: the line it began goes on
\* with whatever comes next.
Torn(i) == /\ file[i].part = "head"
           /\ ~ \E j \in DOMAIN file : j = i + 1 /\ file[j] = [event |-> file[i].event, part |-> "tail"]
Spoiled(e) == \E i \in DOMAIN file :
    Torn(i) /\ \E j \in DOMAIN file : j \in {i, i + 1} /\ file[j].event = e

InRing(e) == \E i \in DOMAIN ring : ring[i] = e
Given == {writing[r].event : r \in {w \in Writers : writing[w] # Nothing}}
    \union {file[i].event : i \in DOMAIN file} \union unwritten \union ToSet(ring)

(* Every event that got an id is on its way to the file, or in it, or its  *)
(* append failed; if a gateway's failed, which only its log says, the ring *)
(* serves it until Capacity newer ones have come (record's doc); and what  *)
(* is in the file can be read back, unless it is on the line of a write    *)
(* that was cut short: two processes appending at once never cost a line   *)
(* (append_jsonl's one buffer and its comment on short writes).            *)
NoSilentLoss ==
    /\ \A e \in Given :
        /\ Appended(e) \/ e \in unwritten \/ Underway(e)
        /\ e \in unwritten /\ e.by = "gateway" /\ e.run = starts =>
               InRing(e) \/ e.id + Capacity < nextId["gateway"]
        /\ Appended(e) => ReadBack(e) \/ Spoiled(e)
    /\ faults = 0 => ~Malformed /\ \A i \in DOMAIN file : file[i].part # "head"

(* The ring's reader lists what a gateway recorded in the order it numbered *)
(* it, newest first; so does the file's, whatever order its threads        *)
(* reached the file in, and it lists what two gateways did in the order    *)
(* they ran if the clock tells, as long as nobody has set the clock back    *)
(* (queryAudit's comment on ids that start again: it sorts by timestamp).  *)
ListedNewestFirst ==
    /\ \A i, j \in DOMAIN Recent(Capacity) :
           i < j => Recent(Capacity)[i].id > Recent(Capacity)[j].id
    /\ turned = 0 => \A i, j \in DOMAIN page :
           i < j /\ page[i].by = "gateway" /\ page[j].by = "gateway" =>
               IF page[i].run = page[j].run THEN page[i].id > page[j].id
               ELSE page[i].at # page[j].at => page[i].run > page[j].run

(* What the log shows is what was decided: nothing goes missing from it    *)
(* but by a failing or a cut write, and both readers list it in order.     *)
TrailIsTrue == NoSilentLoss /\ ListedNewestFirst
=============================================================================
