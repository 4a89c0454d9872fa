---------------------------- MODULE PgRelayProofs ----------------------------
(***************************************************************************)
(* What the relay guarantees of every session, however many frames the      *)
(* client sends, however the database orders, delays, splits or fails its   *)
(* answers, and wherever either side stops.                                 *)
(***************************************************************************)
EXTENDS PgRelay, FiniteSetTheorems, SequenceTheorems, TLAPS

Msg == [tag : {"C", "E", "N", "Z"}, frame : Nat]
Ref == [tag : {"refusal"}, frame : Nat, ordered : BOOLEAN, forgiven : Nat]
Queued == [frame : Nat, sync : Nat, flush : Nat, notice : BOOLEAN]

LoopTyped ==
    /\ work \in Workloads
    /\ frames \in Seq(FrameKinds) /\ n <= work.bound
    /\ loop \in {"reading", "forwarding", "held", "awaiting", "notice", "unwritten",
                 "draining", "over"}
    /\ fwd \in [sync : Nat, flush : Nat, covered : Nat]
InjectionTyped == channel \in Seq(Queued) /\ pending \in Seq(Queued)
DatabaseTyped ==
    /\ upstream \in Seq(Nat)
    /\ buffered \in Seq(Msg) /\ \A i \in DOMAIN buffered : buffered[i].tag \in {"C", "Z"}
    /\ socket \in Seq(Msg)
RelayTyped ==
    /\ relay \in {"top", "fill", "copy", "stopping", "framed", "unframed", "aborted"}
    /\ sync \in [received : Nat, abandoned : Nat]
    /\ flush \in [received : Nat, abandoned : Nat]
    /\ lastTag \in {"none", "C", "E", "N", "Z"}
    /\ forgiven \in Nat
ClientTyped == client \in Seq(Msg \union Ref)
Typed == LoopTyped /\ InjectionTyped /\ DatabaseTyped /\ RelayTyped /\ ClientTyped

Booleans ==
    /\ acked \in BOOLEAN /\ overlapped \in BOOLEAN /\ flushing \in BOOLEAN
    /\ skipping \in BOOLEAN /\ closed \in BOOLEAN /\ fresh \in BOOLEAN
    /\ midFrame \in BOOLEAN

-----------------------------------------------------------------------------
(* One refusal at a time.                                                   *)
Refused == {"Denied", "Paused"}
Running == relay \in {"top", "fill", "copy", "stopping"}
Answered(m) == \E i \in Refusals : client[i].frame = m

(* The refusal on its way is the loop's last frame, tagged with the counts  *)
(* as they still stand; it is in one place, and not yet on the wire.        *)
Tagged(r) == r.frame = n /\ r.sync = fwd.sync /\ r.flush = fwd.flush
OneOnItsWay ==
    /\ Len(channel) <= 1 /\ Len(pending) <= 1
    /\ channel = <<>> \/ pending = <<>>
    /\ channel # <<>> => Tagged(Head(channel))
    /\ pending # <<>> => Tagged(Head(pending))
    /\ channel # <<>> \/ pending # <<>> =>
          /\ loop \in {"awaiting", "notice", "unwritten", "over"}
          /\ n > 0 /\ frames[n] \in Refused
          /\ ~acked
          /\ Running => ~Answered(n)

(* What the loop knows of the refusals it asked for.                        *)
LoopKnows ==
    /\ loop \in {"forwarding", "held", "awaiting", "notice", "unwritten"} => n > 0
    /\ loop = "forwarding" => frames[n] \notin Refused
    /\ loop = "held" => frames[n] = "Paused" /\ ~Answered(n)
    /\ loop \in {"awaiting", "notice", "unwritten"} =>
          frames[n] \in Refused /\ (acked <=> Answered(n))
    /\ loop = "unwritten" => ~acked /\ Stopped
    /\ \A m \in 1..n : frames[m] \in Refused =>
          Answered(m) \/ (m = n /\ loop \notin {"reading", "forwarding", "draining"})

RefusalsInOrder ==
    /\ \A i, j \in Refusals : i < j => client[i].frame < client[j].frame
    /\ \A i \in Refusals : client[i].frame \in 1..n
    /\ forgiven <= n

(* Part of a frame is out only in a copy, whose message is still unread, or  *)
(* once the relay can write no more.                                        *)
MidFrameStops ==
    /\ midFrame => relay \in {"copy", "unframed", "aborted"}
    /\ relay = "copy" => socket # <<>>

Turn == OneOnItsWay /\ LoopKnows /\ RefusalsInOrder /\ MidFrameStops

-----------------------------------------------------------------------------
(* The pipeline: frames counted but not yet taken by the database, and the  *)
(* answers the relay has not delivered.                                     *)
Queue == IF loop = "forwarding" THEN Append(upstream, n) ELSE upstream
Line == socket \o buffered
SPs == {s \in 0..n : Kind(s) \in SyncPoints}
Flushes == {s \in 0..n : Kind(s) = "Flush"}

(* Answers come in the order of the frames; nothing answers a frame whose   *)
(* ReadyForQuery is out.                                                    *)
PipelineInOrder ==
    /\ \A i, j \in DOMAIN Queue : i < j => Queue[i] < Queue[j]
    /\ \A i \in DOMAIN Queue : Queue[i] <= n /\ Kind(Queue[i]) \notin Refused
    /\ \A i, j \in DOMAIN Line : i < j =>
          /\ Line[i].frame <= Line[j].frame
          /\ Line[i].tag = "Z" => Line[i].frame < Line[j].frame
    /\ \A i \in DOMAIN Line : /\ Line[i].frame <= n /\ Kind(Line[i].frame) \notin Refused
                              /\ Line[i].tag = "Z" => Line[i].frame \in SPs
    /\ \A i \in DOMAIN Line, k \in DOMAIN Queue : Line[i].frame < Queue[k]

(* Nothing that answers frame s or an earlier one will be delivered again:  *)
(* what is queued up to it, the database discards.                          *)
Doomed(k) == skipping /\ \A i \in 1..k : Kind(Queue[i]) # "Sync"
Clear(s) ==
    /\ \A i \in DOMAIN Line : s < Line[i].frame
    /\ \A k \in DOMAIN Queue : s < Queue[k] \/ Doomed(k)

Counted ==
    /\ fwd.sync = Cardinality(SPs) /\ fwd.flush = Cardinality(Flushes)
    /\ fwd.covered <= fwd.flush
    /\ sync.abandoned = Cardinality({s \in SPs : s < forgiven})
    /\ flush.abandoned = Cardinality({s \in Flushes : s < forgiven})
    /\ flush.received <= fwd.flush
    /\ sync.received = Cardinality({i \in DOMAIN client : client[i].tag = "Z"})
    /\ sync.received <= Cardinality({s \in SPs : Clear(s)})

(* A refusal released in order had everything up to it cleared, but for     *)
(* what an earlier one had given up on.                                     *)
Kept(kinds) ==
    /\ ~Overtaken(kinds)
    /\ \A i \in Refusals : client[i].ordered =>
          \A s \in client[i].forgiven .. (client[i].frame - 1) :
              Kind(s) \in kinds => Clear(s)

(* The invariant: all but the flush side, which has conditions of its own.   *)
Ordered == Typed /\ Booleans /\ Turn /\ PipelineInOrder /\ Counted /\ Kept(SyncPoints)

-----------------------------------------------------------------------------
(* Types.                                                                   *)
LEMMA TypedInit == Init => Typed
<1> SUFFICES ASSUME Init PROVE Typed
  OBVIOUS
<1>1. frames = <<>> /\ n = 0 /\ work.bound \in Nat
  BY KnownWorkloads DEF Init, n
<1>2. LoopTyped
  BY <1>1 DEF Init, LoopTyped
<1>3. InjectionTyped /\ DatabaseTyped /\ ClientTyped
  BY DEF Init, InjectionTyped, DatabaseTyped, ClientTyped
<1>4. RelayTyped
  BY DEF Init, RelayTyped, Fresh
<1> QED BY <1>2, <1>3, <1>4 DEF Typed

(* The loop is at the last frame it read, within its bound.                  *)
LEMMA FramesTyped ==
    ASSUME LoopTyped
    PROVE  /\ n \in Nat /\ n = Len(frames) /\ work.bound \in Nat
           /\ DOMAIN frames = 1..n
  BY KnownWorkloads DEF LoopTyped, n

(* A frame read is the last of those read, and of a known kind.              *)
LEMMA ReadTyped ==
    ASSUME LoopTyped, NEW k \in FrameKinds, Read(k)
    PROVE  /\ frames' \in Seq(FrameKinds) /\ n' = n + 1 /\ n' <= work.bound
           /\ frames'[n + 1] = k /\ \A m \in 1..n : frames'[m] = frames[m]
<1>1. frames \in Seq(FrameKinds) /\ frames' = Append(frames, k) /\ n < work.bound
  BY DEF LoopTyped, Read
<1> QED BY <1>1, AppendProperties, FramesTyped DEF n

(* Counting a frame leaves counts.                                           *)
LEMMA CountTyped ==
    ASSUME LoopTyped, NEW k \in FrameKinds, Count(k)
    PROVE  fwd' \in [sync : Nat, flush : Nat, covered : Nat]
  BY DEF Count, LoopTyped

(* Handing a refusal over leaves the loop waiting for it.                    *)
LEMMA InjectTyped ==
    ASSUME Typed, NEW m \in Nat, NEW notice \in BOOLEAN, Inject(m, notice)
    PROVE  channel' \in Seq(Queued) /\ loop' = IF notice THEN "notice" ELSE "awaiting"
<1>1. [frame |-> m, sync |-> fwd.sync, flush |-> fwd.flush, notice |-> notice] \in Queued
  BY DEF Typed, LoopTyped, Queued
<1>2. channel \in Seq(Queued)
  BY DEF Typed, InjectionTyped
<1> QED BY <1>1, <1>2 DEF Inject

(* A refusal written is one the client can hold.                             *)
LEMMA WriteTyped ==
    ASSUME Typed, NEW m \in Nat, NEW ordered \in BOOLEAN
    PROVE  Append(client, Refusal(m, ordered)) \in Seq(Msg \union Ref)
<1>1. Refusal(m, ordered) \in Ref
  BY DEF Refusal, Ref, Typed, RelayTyped
<1> QED BY <1>1 DEF Typed, ClientTyped

(* What the loop writes and reads is a frame, a count or an injection.      *)
LEMMA LoopKeepsTypes ==
    ASSUME Typed, LoopKnows, MessageLoop \/ Session
    PROVE  Typed'
<1> USE FramesTyped DEF Typed
<1>1. ASSUME NEW k \in FrameKinds, Forward(k) PROVE Typed'
  <2>1. Read(k) /\ Count(k)
    BY <1>1 DEF Forward
  <2>2. LoopTyped'
    BY <1>1, <2>1, ReadTyped, CountTyped DEF Forward, LoopTyped
  <2> QED BY <1>1, <2>2 DEF Forward, relayVars, dbVars, InjectionTyped, DatabaseTyped,
                            RelayTyped, ClientTyped
<1>2. CASE Write
  <2>1. LoopTyped' /\ DatabaseTyped'
    BY <1>2 DEF Write, dbVars, LoopTyped, DatabaseTyped, n
  <2> QED BY <1>2, <2>1 DEF Write, relayVars, InjectionTyped, RelayTyped, ClientTyped
<1>3. CASE Refuse
  <2>1. Read("Denied") /\ "Denied" \in FrameKinds /\ Inject(n + 1, FALSE)
    BY <1>3 DEF Refuse, FrameKinds
  <2>2. n + 1 \in Nat /\ FALSE \in BOOLEAN
    BY DEF LoopTyped
  <2>3. channel' \in Seq(Queued) /\ loop' \in {"awaiting", "notice"}
    BY <2>1, <2>2, InjectTyped
  <2>4. LoopTyped'
    BY <1>3, <2>1, <2>3, ReadTyped DEF Refuse, LoopTyped
  <2>5. InjectionTyped'
    BY <1>3, <2>3 DEF Refuse, InjectionTyped, relayVars
  <2> QED BY <1>3, <2>4, <2>5 DEF Refuse, relayVars, dbVars, DatabaseTyped, RelayTyped, ClientTyped
<1>4. CASE Hold
  <2>1. Read("Paused") /\ "Paused" \in FrameKinds
    BY <1>4 DEF Hold, FrameKinds
  <2>2. LoopTyped'
    BY <1>4, <2>1, ReadTyped DEF Hold, LoopTyped
  <2> QED BY <1>4, <2>2 DEF Hold, relayVars, dbVars, InjectionTyped, DatabaseTyped,
                            RelayTyped, ClientTyped
<1>5. CASE Approved
  <2>1. Count("Query") /\ "Query" \in FrameKinds /\ n \in 1..Len(frames)
    BY <1>5 DEF Approved, FrameKinds, LoopKnows
  <2>2. frames' \in Seq(FrameKinds) /\ Len(frames') = Len(frames)
    BY <1>5, <2>1, ExceptSeq DEF Approved, LoopTyped
  <2>3. LoopTyped'
    BY <1>5, <2>1, <2>2, CountTyped DEF Approved, LoopTyped, n
  <2> QED BY <1>5, <2>3 DEF Approved, relayVars, dbVars, InjectionTyped, DatabaseTyped,
                            RelayTyped, ClientTyped
<1>6. CASE Rejected
  <2>1. LoopTyped' /\ InjectionTyped'
    BY <1>6, InjectTyped DEF Rejected, LoopTyped, InjectionTyped, relayVars, n
  <2> QED BY <1>6, <2>1 DEF Rejected, relayVars, dbVars, DatabaseTyped, RelayTyped, ClientTyped
<1>7. CASE Abandoned
  <2>1. LoopTyped' /\ InjectionTyped'
    BY <1>7, InjectTyped DEF Abandoned, LoopTyped, InjectionTyped, relayVars, n
  <2> QED BY <1>7, <2>1 DEF Abandoned, relayVars, dbVars, DatabaseTyped, RelayTyped, ClientTyped
<1>8. CASE Resume \/ NoticeTimesOut \/ Unwritten \/ LoopDropped \/ ClientEnds \/ DrainEnds
  <2>1. loop' \in {"reading", "unwritten", "over", "draining"}
        /\ UNCHANGED <<work, frames, fwd, overlapped, channel, acked, upstream, dbVars, socket,
                       closed, relayVars>>
    BY <1>8 DEF Resume, NoticeTimesOut, Unwritten, LoopDropped, ClientEnds, DrainEnds
  <2>2. LoopTyped'
    BY <2>1 DEF LoopTyped, n
  <2> QED BY <2>1, <2>2 DEF relayVars, dbVars, InjectionTyped, DatabaseTyped, RelayTyped,
                            ClientTyped
<1>9. CASE Abort
  BY <1>9 DEF Abort, loopVars, dbVars, LoopTyped, InjectionTyped, DatabaseTyped, RelayTyped,
              ClientTyped, n
<1>10. CASE AnswerOnHandBack
  <2>1. ClientTyped'
    BY <1>10, WriteTyped DEF AnswerOnHandBack, ClientTyped
  <2> QED BY <1>10, <2>1 DEF AnswerOnHandBack, dbVars, LoopTyped, InjectionTyped,
                             DatabaseTyped, RelayTyped, n
<1> QED BY <1>1, <1>2, <1>3, <1>4, <1>5, <1>6, <1>7, <1>8, <1>9, <1>10
        DEF MessageLoop, Session

(* The database answers frames with messages.                               *)
LEMMA DatabaseKeepsTypes ==
    ASSUME Typed, DB
    PROVE  Typed'
<1> USE DEF Typed
<1>1. ASSUME UNCHANGED <<work, loopVars, channel, relayVars>>, DatabaseTyped'
      PROVE  Typed'
  BY <1>1 DEF loopVars, relayVars, LoopTyped, InjectionTyped, RelayTyped, ClientTyped, n
<1>2. ASSUME upstream # <<>>, upstream' = Tail(upstream)
      PROVE  Head(upstream) \in Nat /\ upstream' \in Seq(Nat)
  BY <1>2 DEF DatabaseTyped
<1>3. \A tag \in {"C", "E", "N", "Z"}, m \in Nat : Message(tag, m) \in Msg /\ Message(tag, m).tag = tag
  BY DEF Message, Msg
<1> DEFINE Reply == {b \in Seq(Msg) : \A i \in DOMAIN b : b[i].tag \in {"C", "Z"}}
<1>4. \A a, b \in Reply : a \o b \in Reply
  <2>1. SUFFICES ASSUME NEW a \in Reply, NEW b \in Reply PROVE a \o b \in Reply
    OBVIOUS
  <2>2. /\ a \o b \in Seq(Msg) /\ Len(a \o b) = Len(a) + Len(b)
        /\ \A i \in 1..(Len(a) + Len(b)) :
              (a \o b)[i] = IF i <= Len(a) THEN a[i] ELSE b[i - Len(a)]
    BY ConcatProperties
  <2>3. DOMAIN a = 1..Len(a) /\ DOMAIN b = 1..Len(b)
        /\ DOMAIN (a \o b) = 1..(Len(a) + Len(b)) /\ Len(a) \in Nat /\ Len(b) \in Nat
    BY <2>2
  <2>4. ASSUME NEW i \in DOMAIN (a \o b) PROVE (a \o b)[i].tag \in {"C", "Z"}
    <3>1. CASE i <= Len(a)
      BY <2>2, <2>3, <3>1
    <3>2. CASE ~(i <= Len(a))
      <4>1. i - Len(a) \in DOMAIN b /\ (a \o b)[i] = b[i - Len(a)]
        BY <2>2, <2>3, <3>2
      <4> QED BY <4>1
    <3> QED BY <3>1, <3>2
  <2> QED BY <2>2, <2>4
<1>5. \A m \in Nat : <<Message("C", m)>> \in Reply /\ Cycle(m) \in Reply
  BY <1>3 DEF Cycle
<1>6. buffered \in Reply
  BY DEF DatabaseTyped
<1>7. \A b \in Reply, tag \in {"E", "N"}, m \in Nat : socket \o b \o <<Message(tag, m)>> \in Seq(Msg)
  BY <1>3 DEF DatabaseTyped
<1> HIDE DEF Reply
<1>8. CASE Discard
  BY <1>1, <1>2, <1>8 DEF Discard, Database, dbVars, DatabaseTyped
<1>9. CASE AnswerSync
  <2>1. buffered' = buffered \o <<Message("Z", Head(upstream))>>
        /\ <<Message("Z", Head(upstream))>> \in Reply
    BY <1>2, <1>3, <1>9 DEF AnswerSync, Database, DatabaseTyped, Reply
  <2>2. buffered' \in Reply
    BY <1>4, <1>6, <2>1
  <2> QED BY <1>1, <1>2, <1>9, <2>2 DEF AnswerSync, Database, DatabaseTyped, Reply
<1>10. CASE AnswerFlush
  BY <1>1, <1>2, <1>10 DEF AnswerFlush, Database, DatabaseTyped
<1>11. CASE Answer
  <2> DEFINE m == Head(upstream)
  <2>1. m \in Nat
    BY <1>2, <1>11 DEF Answer, Database
  <2>2. buffered' \in Reply /\ socket' \in Seq(Msg)
    <3>1. <<Message("C", m)>> \o Cycle(m) \in Reply /\ buffered \o <<Message("C", m)>> \in Reply
      BY <1>4, <1>5, <1>6, <2>1
    <3>2. buffered \o <<Message("C", m)>> \o Cycle(m) \in Reply
      BY <1>4, <1>5, <2>1, <3>1
    <3>3. socket \o buffered \o <<Message("N", m)>> \in Seq(Msg)
      BY <1>6, <1>7, <2>1
    <3> QED BY <1>11, <3>1, <3>2, <3>3 DEF Answer, Database, DatabaseTyped
  <2> QED BY <1>1, <1>2, <1>11, <2>2 DEF Answer, Database, DatabaseTyped, Reply
<1>12. CASE Fail
  <2>1. Head(upstream) \in Nat
    BY <1>2, <1>12 DEF Fail, Database
  <2>2. buffered' \in Reply /\ socket' \in Seq(Msg)
    BY <1>5, <1>6, <1>7, <1>12, <2>1 DEF Fail, Database
  <2> QED BY <1>1, <1>2, <1>12, <2>2 DEF Fail, Database, DatabaseTyped, Reply
<1>13. CASE Send
  <2>1. PICK k \in 1..Len(buffered) :
            /\ socket' = socket \o SubSeq(buffered, 1, k)
            /\ buffered' = SubSeq(buffered, k + 1, Len(buffered))
    BY <1>13 DEF Send
  <2>2. buffered \in Seq(Msg) /\ Len(buffered) \in Nat /\ k \in Nat
    BY DEF DatabaseTyped
  <2>3. SubSeq(buffered, 1, k) \in Seq(Msg) /\ buffered' \in Seq(Msg)
        /\ Len(buffered') = Len(buffered) - k
        /\ \A i \in 1..Len(buffered') : buffered'[i] = buffered[k + i]
    BY <2>1, <2>2
  <2>4. ASSUME NEW i \in DOMAIN buffered' PROVE buffered'[i].tag \in {"C", "Z"}
    <3>1. i \in 1..Len(buffered') /\ k + i \in DOMAIN buffered
      BY <2>2, <2>3
    <3> QED BY <2>3, <3>1 DEF DatabaseTyped
  <2>5. socket' \in Seq(Msg)
    BY <2>1, <2>3 DEF DatabaseTyped
  <2>6. DatabaseTyped'
    BY <1>13, <2>3, <2>4, <2>5 DEF Send, DatabaseTyped
  <2> QED BY <1>1, <1>13, <2>6 DEF Send
<1>14. CASE Close
  BY <1>1, <1>14 DEF Close, DatabaseTyped, dbVars
<1> QED BY <1>8, <1>9, <1>10, <1>11, <1>12, <1>13, <1>14 DEF DB

(* The relay delivers what it read and writes what it was handed.           *)
LEMMA RelayKeepsTypes ==
    ASSUME Typed, MidFrameStops, RelayTask
    PROVE  Typed'
<1> USE DEF Typed
<1>1. ASSUME UNCHANGED <<work, loopVars, upstream, buffered>>, socket' \in Seq(Msg),
             InjectionTyped', RelayTyped', ClientTyped'
      PROVE  Typed'
  BY <1>1 DEF loopVars, LoopTyped, DatabaseTyped, n
<1>2. ASSUME NEW r \in Queued, NEW ordered \in BOOLEAN, NEW next \in {"fill", "framed"},
             WriteAnswer(r, ordered, next)
      PROVE  /\ pending' = <<>> /\ ClientTyped' /\ relay' \in {next, "unframed"}
  BY <1>2, WriteTyped DEF WriteAnswer, ClientTyped, Queued
<1>3. \A q \in Seq(Queued) : q # <<>> => Head(q) \in Queued
  OBVIOUS
<1>4. ASSUME NEW q \in Seq(Queued), NEW f, WriteQueued(q, f)
      PROVE  /\ pending' \in Seq(Queued) /\ ClientTyped' /\ relay' \in {"fill", "unframed"}
  <2>1. TRUE \in BOOLEAN /\ "fill" \in {"fill", "framed"}
    OBVIOUS
  <2>2. CASE q # <<>> /\ Releasable(Head(q), f)
    <3>1. WriteAnswer(Head(q), TRUE, "fill") /\ Head(q) \in Queued
      BY <1>3, <1>4, <2>2 DEF WriteQueued
    <3>2. pending' = <<>> /\ ClientTyped' /\ relay' \in {"fill", "unframed"}
      BY <1>2, <2>1, <3>1
    <3> QED BY <3>2
  <2>3. CASE ~(q # <<>> /\ Releasable(Head(q), f))
    BY <1>4, <2>3 DEF WriteQueued, ClientTyped
  <2> QED BY <2>2, <2>3
<1>5. CASE Settle
  <2>1. InjectionTyped' /\ ClientTyped' /\ relay' \in {"fill", "unframed"}
    BY <1>4, <1>5 DEF Settle, InjectionTyped
  <2>2. RelayTyped'
    BY <1>5, <2>1 DEF Settle, RelayTyped
  <2> QED BY <1>1, <1>5, <2>1, <2>2 DEF Settle, dbVars, DatabaseTyped
<1>6. CASE Proceed
  <2>1. InjectionTyped' /\ ClientTyped' /\ relay' \in {"fill", "unframed"}
    BY <1>4, <1>6 DEF Proceed, InjectionTyped
  <2>2. RelayTyped'
    BY <1>6, <2>1 DEF Proceed, RelayTyped
  <2> QED BY <1>1, <1>6, <2>1, <2>2 DEF Proceed, dbVars, DatabaseTyped
<1>7. CASE TakeInjection
  <2>1. InjectionTyped' /\ ClientTyped' /\ relay' \in {"fill", "unframed"}
    BY <1>4, <1>7 DEF TakeInjection, InjectionTyped
  <2>2. RelayTyped'
    BY <1>7, <2>1 DEF TakeInjection, RelayTyped
  <2> QED BY <1>1, <1>7, <2>1, <2>2 DEF TakeInjection, dbVars, DatabaseTyped
<1>8. ASSUME pending # <<>>, NEW next \in {"fill", "framed"},
             WriteAnswer(Head(pending), FALSE, next)
      PROVE  pending' \in Seq(Queued) /\ ClientTyped' /\ relay' \in {next, "unframed"}
  <2>1. Head(pending) \in Queued /\ FALSE \in BOOLEAN
    BY <1>8, <1>3 DEF InjectionTyped
  <2>2. pending' = <<>> /\ ClientTyped' /\ relay' \in {next, "unframed"}
    BY <1>2, <1>8, <2>1
  <2> QED BY <2>2
<1>9. CASE GiveUp
  <2>1. Head(pending) \in Queued
    BY <1>9, <1>3 DEF GiveUp, InjectionTyped
  <2>2. InjectionTyped' /\ ClientTyped' /\ relay' \in {"fill", "unframed"}
    BY <1>8, <1>9 DEF GiveUp, InjectionTyped
  <2>3. sync' \in [received : Nat, abandoned : Nat] /\ flush' \in [received : Nat, abandoned : Nat]
    BY <1>9, <2>1 DEF GiveUp, AtLeast, RelayTyped, Queued
  <2>4. RelayTyped'
    BY <1>9, <2>1, <2>2, <2>3 DEF GiveUp, RelayTyped, Queued
  <2> QED BY <1>1, <1>9, <2>2, <2>4 DEF GiveUp, dbVars, DatabaseTyped
<1>10. CASE OrderBudgetSpent
  <2>1. InjectionTyped' /\ ClientTyped' /\ relay' \in {"fill", "unframed"}
    BY <1>8, <1>10 DEF OrderBudgetSpent, InjectionTyped
  <2>2. RelayTyped'
    BY <1>10, <2>1 DEF OrderBudgetSpent, RelayTyped
  <2> QED BY <1>1, <1>10, <2>1, <2>2 DEF OrderBudgetSpent, dbVars, DatabaseTyped
<1>11. CASE Deliver \/ FinishCopy
  <2>1. socket # <<>> => Head(socket) \in Msg /\ Tail(socket) \in Seq(Msg)
    BY DEF DatabaseTyped
  <2>2. Relayed /\ socket # <<>>
    BY <1>11 DEF Deliver, FinishCopy, MidFrameStops
  <2>3. ClientTyped' /\ socket' \in Seq(Msg)
    BY <2>1, <2>2 DEF Relayed, ClientTyped
  <2>4. Head(socket).tag \in {"C", "E", "N", "Z"}
    BY <2>1, <2>2 DEF Msg
  <2>5. sync' \in [received : Nat, abandoned : Nat] /\ flush' \in [received : Nat, abandoned : Nat]
    BY <2>2 DEF Relayed, Delivered, AtLeast, RelayTyped, LoopTyped
  <2>6. RelayTyped' /\ InjectionTyped'
    BY <2>2, <2>4, <2>5 DEF Relayed, Delivered, RelayTyped, InjectionTyped
  <2> QED BY <1>1, <2>2, <2>3, <2>6 DEF Relayed, dbVars
<1>12. CASE StartCopy \/ Truncate \/ UpstreamEnds
  BY <1>1, <1>12 DEF StartCopy, Truncate, UpstreamEnds, dbVars, InjectionTyped, DatabaseTyped,
                     RelayTyped, ClientTyped
<1>13. CASE Stop
  <2>1. InjectionTyped' /\ ClientTyped' /\ relay' \in {"framed", "unframed"}
    BY <1>8, <1>13 DEF Stop, InjectionTyped, ClientTyped
  <2>2. RelayTyped'
    BY <1>13, <2>1 DEF Stop, RelayTyped
  <2> QED BY <1>1, <1>13, <2>1, <2>2 DEF Stop, dbVars, DatabaseTyped
<1> QED BY <1>5, <1>6, <1>7, <1>9, <1>10, <1>11, <1>12, <1>13 DEF RelayTask

-----------------------------------------------------------------------------
(* What the client holds after one more message, or one more refusal.       *)
LEMMA MessageArrives ==
    ASSUME Typed, NEW x \in Msg, client' = Append(client, x)
    PROVE  /\ Refusals' = Refusals
           /\ \A i \in Refusals : client'[i] = client[i]
           /\ \A m : Answered(m)' <=> Answered(m)
<1>1. client \in Seq(Msg \union Ref) /\ x \in Msg \union Ref
  BY DEF Typed, ClientTyped
<1>2. /\ DOMAIN client' = DOMAIN client \union {Len(client) + 1}
      /\ \A i \in DOMAIN client : client'[i] = client[i]
      /\ client'[Len(client) + 1] = x
  BY <1>1
<1>3. x.tag # "refusal"
  BY DEF Msg
<1> QED BY <1>2, <1>3 DEF Refusals, Answered

(* A refusal received is the newest, and answers its own frame.              *)
LEMMA RefusalArrives ==
    ASSUME Typed, NEW x \in Ref, client' = Append(client, x)
    PROVE  /\ Refusals' = Refusals \union {Len(client) + 1}
           /\ \A i \in Refusals : client'[i] = client[i] /\ i < Len(client) + 1
           /\ client'[Len(client) + 1] = x
           /\ \A m : Answered(m)' <=> Answered(m) \/ m = x.frame
<1>1. client \in Seq(Msg \union Ref) /\ x \in Msg \union Ref
  BY DEF Typed, ClientTyped
<1>2. /\ DOMAIN client' = DOMAIN client \union {Len(client) + 1}
      /\ \A i \in DOMAIN client : client'[i] = client[i] /\ i < Len(client) + 1
      /\ client'[Len(client) + 1] = x
  BY <1>1
<1>3. x.tag = "refusal"
  BY DEF Ref
<1> QED BY <1>2, <1>3 DEF Refusals, Answered

(* A client that receives nothing has the same refusals.                     *)
LEMMA NothingArrives ==
    ASSUME client' = client
    PROVE  Refusals' = Refusals /\ \A m : Answered(m)' <=> Answered(m)
  BY DEF Refusals, Answered

(* The answer to the loop's last frame comes after those to the others.      *)
LEMMA LastInOrder ==
    ASSUME Typed, Turn, NEW x \in Ref, x.frame = n, client' = Append(client, x),
           n > 0, ~Answered(n), n' = n, forgiven' <= n
    PROVE  RefusalsInOrder'
<1> DEFINE last == Len(client) + 1
<1>1. /\ Refusals' = Refusals \union {last}
      /\ \A i \in Refusals : client'[i] = client[i] /\ i < last
      /\ client'[last].frame = n
  BY RefusalArrives
<1>2. Refusals \subseteq 1..Len(client) /\ Len(client) \in Nat /\ n \in 1..n
  BY FramesTyped DEF Refusals, Typed, ClientTyped
<1>3. \A i \in Refusals : client[i].frame \in 1..n /\ client[i].frame < n
  BY FramesTyped DEF Turn, RefusalsInOrder, Answered, Typed
<1>4. ASSUME NEW i \in Refusals', NEW j \in Refusals', i < j
      PROVE  client'[i].frame < client'[j].frame
  <2>1. i \in Refusals
    BY <1>1, <1>2, <1>4
  <2>2. CASE j = last
    BY <1>1, <1>3, <2>1, <2>2
  <2>3. CASE j \in Refusals
    BY <1>1, <1>4, <2>1, <2>3 DEF Turn, RefusalsInOrder
  <2> QED BY <1>1, <2>2, <2>3
<1>5. \A i \in Refusals' : client'[i].frame \in 1..n
  BY <1>1, <1>2, <1>3
<1> QED BY <1>4, <1>5 DEF RefusalsInOrder

(* The one step that answers: whoever is handed the refusal on its way.     *)
Handed(r) ==
    /\ Running /\ relay # "copy"
    /\ \/ pending # <<>> /\ r = Head(pending)
       \/ channel # <<>> /\ r = Head(channel)

(* An injection the running relay has is due: of the last frame, and not yet *)
(* answered.                                                                 *)
LEMMA HandedIsDue ==
    ASSUME Typed, Turn, NEW r, Handed(r)
    PROVE  /\ r \in Queued /\ Tagged(r) /\ n > 0 /\ frames[n] \in Refused
           /\ ~acked /\ ~Answered(n) /\ loop \in {"awaiting", "notice", "over"}
           /\ \A i \in Refusals : client[i].frame < n
<1>1. r \in Queued /\ Tagged(r) /\ loop \in {"awaiting", "notice", "unwritten", "over"}
      /\ n > 0 /\ frames[n] \in Refused /\ ~acked /\ ~Answered(n)
  BY DEF Handed, Typed, InjectionTyped, Turn, OneOnItsWay
<1>2. loop # "unwritten"
  BY DEF Handed, Running, Stopped, Turn, LoopKnows
<1>3. \A i \in Refusals : client[i].frame \in 1..n /\ client[i].frame # n
  BY <1>1 DEF Turn, RefusalsInOrder, Answered
<1> QED BY <1>1, <1>2, <1>3, FramesTyped DEF Typed

(* Writing a due refusal answers the last frame, once.                       *)
LEMMA WritingKeepsTurn ==
    ASSUME Typed, Turn, NEW r, Handed(r), NEW ordered \in BOOLEAN,
           NEW next \in {"fill", "framed"}, WriteAnswer(r, ordered, next),
           channel' = <<>>, UNCHANGED loopVars, forgiven' \in {forgiven, n}
    PROVE  Turn'
<1> DEFINE x == Refusal(r.frame, ordered)
<1>0. pending' = <<>> /\ n' = n /\ frames' = frames /\ fwd' = fwd /\ loop' = loop
  BY DEF WriteAnswer, loopVars, n
<1>1. n \in Nat /\ forgiven' <= n
  BY FramesTyped DEF Typed, Turn, RefusalsInOrder
<1>2. CASE client' = Append(client, x) /\ acked' = TRUE /\ relay' = next /\ midFrame' = midFrame
  <2>1. x \in Ref /\ x.frame = n
    BY HandedIsDue DEF Refusal, Ref, Queued, Tagged, Typed, RelayTyped
  <2> HIDE DEF x
  <2>2. Answered(n)' /\ \A m \in 1..n : m # n => (Answered(m)' <=> Answered(m))
    BY <1>0, <1>2, <2>1, RefusalArrives
  <2>3. OneOnItsWay'
    BY <1>0 DEF OneOnItsWay
  <2>4. LoopKnows'
    BY <1>0, <1>1, <1>2, <2>2, HandedIsDue DEF Turn, LoopKnows
  <2>5. RefusalsInOrder'
    BY <1>0, <1>1, <1>2, <2>1, HandedIsDue, LastInOrder
  <2>6. MidFrameStops'
    BY <1>2 DEF Turn, MidFrameStops, Handed, Running
  <2> QED BY <2>3, <2>4, <2>5, <2>6 DEF Turn
<1>3. CASE relay' = "unframed" /\ client' = client /\ acked' = acked
  <2>1. OneOnItsWay'
    BY <1>0 DEF OneOnItsWay
  <2>2. LoopKnows'
    BY <1>0, <1>1, <1>3, NothingArrives, HandedIsDue DEF Turn, LoopKnows
  <2>3. RefusalsInOrder'
    BY <1>0, <1>1, <1>3, NothingArrives DEF Turn, RefusalsInOrder
  <2>4. MidFrameStops'
    BY <1>3 DEF MidFrameStops
  <2> QED BY <2>1, <2>2, <2>3, <2>4 DEF Turn
<1> QED BY <1>2, <1>3 DEF WriteAnswer

(* A refusal that may not be released yet becomes, or stays, the pending one.*)
LEMMA QueueingKeepsTurn ==
    ASSUME Typed, Turn, NEW q, pending' = q, channel' = <<>>, relay' = "fill", Running,
           relay # "copy",
           q = pending \/ (pending = <<>> /\ q = channel),
           UNCHANGED <<loopVars, client, acked, midFrame, forgiven>>
    PROVE  Turn'
<1>1. n' = n /\ frames' = frames /\ fwd' = fwd /\ loop' = loop
  BY DEF loopVars, n
<1>2. OneOnItsWay'
  BY <1>1, NothingArrives DEF Turn, OneOnItsWay, Tagged, Running
<1>3. LoopKnows'
  BY <1>1, NothingArrives DEF Turn, LoopKnows, Stopped, Running
<1>4. RefusalsInOrder'
  BY <1>1, NothingArrives DEF Turn, RefusalsInOrder
<1>5. MidFrameStops'
  BY DEF Turn, MidFrameStops, Running
<1> QED BY <1>2, <1>3, <1>4, <1>5 DEF Turn

(* The database is no party to it.                                          *)
LEMMA DatabaseKeepsTurn ==
    ASSUME Typed, Turn, DB
    PROVE  Turn'
<1>1. UNCHANGED <<loopVars, channel, acked, relayVars>>
  BY DEF DB, Discard, AnswerSync, AnswerFlush, Answer, Fail, Send, Close, Database
<1>2. /\ frames' = frames /\ n' = n /\ loop' = loop /\ fwd' = fwd /\ pending' = pending
      /\ channel' = channel /\ client' = client /\ acked' = acked /\ relay' = relay
      /\ forgiven' = forgiven /\ midFrame' = midFrame
  BY <1>1 DEF loopVars, relayVars, n
<1>3. socket # <<>> => socket' # <<>>
  <2>1. socket' = socket \/ \E t \in Seq(Msg) : socket' = socket \o t
    <3>1. buffered \in Seq(Msg) /\ socket \in Seq(Msg)
      BY DEF Typed, DatabaseTyped
    <3>2. ASSUME NEW tag \in {"E", "N"}, NEW m \in Nat,
                 socket' = socket \o buffered \o <<Message(tag, m)>>
          PROVE  \E t \in Seq(Msg) : socket' = socket \o t
      <4>1. <<Message(tag, m)>> \in Seq(Msg)
        BY DEF Message, Msg
      <4>2. socket' = socket \o (buffered \o <<Message(tag, m)>>)
        BY <3>1, <3>2, <4>1, ConcatAssociative
      <4>3. buffered \o <<Message(tag, m)>> \in Seq(Msg)
        BY <3>1, <4>1
      <4> QED BY <4>2, <4>3
    <3>3. upstream # <<>> => Head(upstream) \in Nat
      BY DEF Typed, DatabaseTyped
    <3>4. CASE Answer
      BY <3>2, <3>3, <3>4 DEF Answer, Database
    <3>5. CASE Fail
      BY <3>2, <3>3, <3>5 DEF Fail, Database
    <3>6. CASE Send
      <4>1. PICK k \in 1..Len(buffered) : socket' = socket \o SubSeq(buffered, 1, k)
        BY <3>6 DEF Send
      <4>2. SubSeq(buffered, 1, k) \in Seq(Msg)
        BY <3>1
      <4> QED BY <4>1, <4>2
    <3>7. CASE Discard \/ AnswerSync \/ AnswerFlush \/ Close
      BY <3>7 DEF Discard, AnswerSync, AnswerFlush, Close, Database
    <3> QED BY <3>4, <3>5, <3>6, <3>7 DEF DB
  <2>2. \A t \in Seq(Msg) : socket # <<>> => socket \o t # <<>>
    BY DEF Typed, DatabaseTyped
  <2> QED BY <2>1, <2>2
<1>4. OneOnItsWay'
  BY <1>2, NothingArrives DEF Turn, OneOnItsWay, Tagged, Running
<1>5. LoopKnows'
  BY <1>2, NothingArrives DEF Turn, LoopKnows, Stopped
<1>6. RefusalsInOrder'
  BY <1>2, NothingArrives DEF Turn, RefusalsInOrder
<1>7. MidFrameStops'
  BY <1>2, <1>3 DEF Turn, MidFrameStops
<1> QED BY <1>4, <1>5, <1>6, <1>7 DEF Turn

(* The relay answers only what it was handed, and delivers only messages.   *)
LEMMA RelayKeepsTurn ==
    ASSUME Typed, Turn, RelayTask
    PROVE  Turn'
<1>1. ASSUME NEW q, NEW f, WriteQueued(q, f), Running, relay # "copy", channel' = <<>>,
             q = pending \/ (pending = <<>> /\ q = channel),
             UNCHANGED <<loopVars, forgiven>>
      PROVE  Turn'
  <2>1. CASE q # <<>> /\ Releasable(Head(q), f)
    <3>1. Handed(Head(q)) /\ TRUE \in BOOLEAN /\ "fill" \in {"fill", "framed"}
      BY <1>1, <2>1 DEF Handed
    <3>2. WriteAnswer(Head(q), TRUE, "fill")
      BY <1>1, <2>1 DEF WriteQueued
    <3> QED BY <1>1, <3>1, <3>2, WritingKeepsTurn
  <2>2. CASE ~(q # <<>> /\ Releasable(Head(q), f))
    <3>1. pending' = q /\ relay' = "fill" /\ UNCHANGED <<client, acked, midFrame>>
      BY <1>1, <2>2 DEF WriteQueued
    <3> QED BY <1>1, <3>1, QueueingKeepsTurn
  <2> QED BY <2>1, <2>2
<1>2. ASSUME pending # <<>>, Running, relay # "copy", NEW next \in {"fill", "framed"},
             WriteAnswer(Head(pending), FALSE, next), channel' = channel,
             UNCHANGED loopVars, forgiven' \in {forgiven, n}
      PROVE  Turn'
  <2>1. Handed(Head(pending)) /\ FALSE \in BOOLEAN /\ channel' = <<>>
    BY <1>2 DEF Handed, Turn, OneOnItsWay
  <2> QED BY <1>2, <2>1, WritingKeepsTurn
<1>3. CASE Settle \/ Proceed
  <2>1. PICK f : WriteQueued(pending, f)
    BY <1>3 DEF Settle, Proceed
  <2>2. CASE pending = <<>>
    <3>1. pending' = <<>> /\ relay' = "fill" /\ UNCHANGED <<client, acked, midFrame>>
      BY <2>1, <2>2 DEF WriteQueued
    <3>2. UNCHANGED <<loopVars, channel, forgiven>> /\ relay = "top"
      BY <1>3 DEF Settle, Proceed, Settling
    <3>3. n' = n /\ frames' = frames /\ fwd' = fwd /\ loop' = loop
      BY <3>2 DEF loopVars, n
    <3>4. OneOnItsWay'
      BY <2>2, <3>1, <3>2, <3>3, NothingArrives DEF Turn, OneOnItsWay, Tagged, Running
    <3>5. LoopKnows'
      BY <3>1, <3>2, <3>3, NothingArrives DEF Turn, LoopKnows, Stopped
    <3>6. RefusalsInOrder' /\ MidFrameStops'
      BY <3>1, <3>2, <3>3, NothingArrives DEF Turn, RefusalsInOrder, MidFrameStops
    <3> QED BY <3>4, <3>5, <3>6 DEF Turn
  <2>3. CASE pending # <<>>
    <3>1. channel' = <<>> /\ relay = "top" /\ UNCHANGED <<loopVars, forgiven>>
      BY <1>3, <2>3 DEF Settle, Proceed, Settling, Turn, OneOnItsWay
    <3> QED BY <1>1, <2>1, <2>3, <3>1 DEF Running
  <2> QED BY <2>2, <2>3
<1>4. CASE TakeInjection
  BY <1>1, <1>4 DEF TakeInjection, Running
<1>5. CASE GiveUp
  <2>1. Head(pending).frame = n
    BY <1>5 DEF GiveUp, Turn, OneOnItsWay, Tagged
  <2> QED BY <1>2, <1>5, <2>1 DEF GiveUp, Running
<1>6. CASE OrderBudgetSpent
  BY <1>2, <1>6 DEF OrderBudgetSpent, Running
<1>7. CASE Deliver \/ FinishCopy
  <2>1. Relayed /\ socket # <<>>
    BY <1>7 DEF Deliver, FinishCopy, Turn, MidFrameStops
  <2>2. Head(socket) \in Msg
    BY <2>1 DEF Typed, DatabaseTyped
  <2>3. /\ client' = Append(client, Head(socket)) /\ relay' = "top" /\ midFrame' = FALSE
        /\ UNCHANGED <<loopVars, channel, acked, pending, forgiven>>
        /\ Running
    BY <1>7, <2>1 DEF Relayed, Running, Deliver, FinishCopy, Reading
  <2>4. n' = n /\ frames' = frames /\ fwd' = fwd /\ loop' = loop
    BY <2>3 DEF loopVars, n
  <2>5. OneOnItsWay'
    BY <2>2, <2>3, <2>4, MessageArrives DEF Turn, OneOnItsWay, Tagged, Running
  <2>6. LoopKnows'
    BY <2>2, <2>3, <2>4, MessageArrives DEF Turn, LoopKnows, Stopped, Running
  <2>7. RefusalsInOrder' /\ MidFrameStops'
    BY <2>2, <2>3, <2>4, MessageArrives DEF Turn, RefusalsInOrder, MidFrameStops
  <2> QED BY <2>5, <2>6, <2>7 DEF Turn
<1>8. CASE StartCopy \/ Truncate \/ UpstreamEnds
  <2>1. /\ UNCHANGED <<loopVars, channel, acked, pending, client, forgiven>>
        /\ \/ relay' = "copy" /\ socket' # <<>>
           \/ relay' = "unframed"
           \/ relay' = "stopping" /\ midFrame' = midFrame /\ relay # "copy"
        /\ Running
    BY <1>8 DEF StartCopy, Truncate, UpstreamEnds, Reading, Settling, Running
  <2>2. n' = n /\ frames' = frames /\ fwd' = fwd /\ loop' = loop
    BY <2>1 DEF loopVars, n
  <2>3. OneOnItsWay'
    BY <2>1, <2>2, NothingArrives DEF Turn, OneOnItsWay, Tagged, Running
  <2>4. LoopKnows'
    BY <2>1, <2>2, NothingArrives DEF Turn, LoopKnows, Stopped, Running
  <2>5. RefusalsInOrder' /\ MidFrameStops'
    BY <2>1, <2>2, NothingArrives DEF Turn, RefusalsInOrder, MidFrameStops, Running
  <2> QED BY <2>3, <2>4, <2>5 DEF Turn
<1>9. CASE Stop
  <2>1. CASE pending # <<>>
    BY <1>2, <1>9, <2>1 DEF Stop, Running
  <2>2. CASE pending = <<>>
    <3>1. /\ relay' = "framed" /\ relay = "stopping"
          /\ UNCHANGED <<loopVars, channel, acked, pending, client, midFrame, forgiven>>
      BY <1>9, <2>2 DEF Stop
    <3>2. n' = n /\ frames' = frames /\ fwd' = fwd /\ loop' = loop
      BY <3>1 DEF loopVars, n
    <3>3. OneOnItsWay'
      BY <3>1, <3>2, NothingArrives DEF Turn, OneOnItsWay, Tagged, Running
    <3>4. LoopKnows'
      BY <3>1, <3>2, NothingArrives DEF Turn, LoopKnows, Stopped
    <3>5. RefusalsInOrder' /\ MidFrameStops'
      BY <3>1, <3>2, NothingArrives DEF Turn, RefusalsInOrder, MidFrameStops
    <3> QED BY <3>3, <3>4, <3>5 DEF Turn
  <2> QED BY <2>1, <2>2
<1> QED BY <1>3, <1>4, <1>5, <1>6, <1>7, <1>8, <1>9 DEF RelayTask

(* The loop injects one refusal, of its last frame, and waits for it.        *)
LEMMA LoopKeepsTurn ==
    ASSUME Typed, Turn, MessageLoop \/ Session
    PROVE  Turn'
<1>0. n \in Nat /\ n = Len(frames) /\ LoopTyped
  BY FramesTyped DEF Typed
<1>1. ASSUME NEW k \in FrameKinds, Read(k), UNCHANGED <<relayVars, channel, acked, socket>>,
             \/ loop' = "forwarding" /\ k \notin Refused
             \/ loop' = "held" /\ k = "Paused"
      PROVE  Turn'
  <2>1. /\ n' = n + 1 /\ frames'[n + 1] = k /\ \A m \in 1..n : frames'[m] = frames[m]
        /\ loop = "reading"
    BY <1>0, <1>1, ReadTyped DEF Read
  <2>2. channel = <<>> /\ pending = <<>> /\ \A m \in 1..n : frames[m] \in Refused => Answered(m)
    BY <2>1 DEF Turn, OneOnItsWay, LoopKnows
  <2>3. /\ client' = client /\ pending' = pending /\ channel' = channel /\ relay' = relay
        /\ forgiven' = forgiven /\ midFrame' = midFrame /\ socket' = socket
    BY <1>1 DEF relayVars
  <2>4. \A i \in Refusals : client[i].frame \in 1..n /\ client[i].frame # n + 1
    BY <1>0 DEF Turn, RefusalsInOrder
  <2>5. OneOnItsWay'
    BY <2>2, <2>3 DEF OneOnItsWay
  <2>6. LoopKnows'
    <3>1. frames'[n'] = k /\ n' > 0
      BY <1>0, <2>1
    <3>2. ~Answered(n + 1)' /\ \A m \in 1..n : Answered(m)' <=> Answered(m)
      BY <1>0, <2>1, <2>3, <2>4, NothingArrives DEF Answered
    <3>3. ~(\E i \in Refusals' : client'[i].frame = n')
      BY <2>1, <2>3, <2>4, NothingArrives
    <3>4. \A m \in 1..n' : m \in 1..n \/ m = n'
      BY <1>0, <2>1
    <3>5. \A m \in 1..n' : frames'[m] \in Refused =>
              Answered(m)' \/ (m = n' /\ loop' \notin {"reading", "forwarding", "draining"})
      BY <1>0, <1>1, <2>1, <2>2, <3>1, <3>2, <3>4
    <3>6. ~Answered(n)'
      BY <3>3 DEF Answered
    <3>7. loop' = "forwarding" => frames'[n'] \notin Refused
      BY <1>1, <3>1
    <3>8. loop' = "held" => frames'[n'] = "Paused"
      BY <1>1, <3>1
    <3>9. loop' \in {"forwarding", "held"}
      BY <1>1
    <3> QED BY <3>1, <3>5, <3>6, <3>7, <3>8, <3>9 DEF LoopKnows
  <2>7. RefusalsInOrder'
    <3>1. forgiven \in Nat /\ forgiven <= n /\ \A i \in Refusals : client[i].frame \in 1..n
      BY DEF Typed, RelayTyped, Turn, RefusalsInOrder
    <3> QED BY <1>0, <2>1, <2>3, <3>1, NothingArrives DEF Turn, RefusalsInOrder
  <2>8. MidFrameStops'
    BY <2>3 DEF Turn, MidFrameStops
  <2> QED BY <2>5, <2>6, <2>7, <2>8 DEF Turn
<1>2. ASSUME NEW k \in FrameKinds, Forward(k) PROVE Turn'
  BY <1>1, <1>2 DEF Forward, Refused
<1>3. CASE Hold
  BY <1>1, <1>3 DEF Hold, FrameKinds
<1>4. ASSUME UNCHANGED <<frames, fwd, channel, pending, acked, client, relay, forgiven, midFrame,
                         socket>>, LoopKnows',
             channel # <<>> \/ pending # <<>> =>
                 loop' \in {"awaiting", "notice", "unwritten", "over"}
      PROVE  Turn'
  <2>1. n' = n
    BY <1>4 DEF n
  <2>2. OneOnItsWay'
    BY <1>4, <2>1, NothingArrives DEF Turn, OneOnItsWay, Tagged, Running
  <2>3. RefusalsInOrder' /\ MidFrameStops'
    BY <1>4, <2>1, NothingArrives DEF Turn, RefusalsInOrder, MidFrameStops
  <2> QED BY <1>4, <2>2, <2>3 DEF Turn
<1>6. CASE Write
  <2>1. UNCHANGED <<frames, fwd, channel, pending, acked, client, relay, forgiven, midFrame,
                    socket>> /\ loop' = "reading" /\ loop = "forwarding" /\ n' = n
    BY <1>6 DEF Write, relayVars, n
  <2>2. LoopKnows'
    BY <2>1, NothingArrives DEF Turn, LoopKnows
  <2> QED BY <1>4, <2>1, <2>2 DEF Turn, OneOnItsWay
<1>7. ASSUME NEW m \in Nat, m = n', NEW notice \in BOOLEAN, Inject(m, notice),
             UNCHANGED <<fwd, pending, client, relay, forgiven, midFrame, socket>>,
             \/ Read("Denied")
             \/ loop = "held" /\ frames' = frames
      PROVE  Turn'
  <2> DEFINE r == [frame |-> m, sync |-> fwd.sync, flush |-> fwd.flush, notice |-> notice]
  <2>1. channel = <<>> /\ pending = <<>>
    BY <1>7 DEF Turn, OneOnItsWay, Read
  <2>2. channel' = <<r>> /\ acked' = FALSE /\ loop' \in {"awaiting", "notice"}
    <3>1. channel' = <<r>>
      BY <1>7, <2>1 DEF Inject
    <3>2. acked' = FALSE
      BY <1>7, Zenon DEF Inject
    <3>3. loop' \in {"awaiting", "notice"}
      BY <1>7 DEF Inject
    <3> QED BY <3>1, <3>2, <3>3
  <2>3. Len(channel') = 1 /\ Head(channel') = r
    BY <2>2
  <2>4. /\ m > 0 /\ frames'[m] \in Refused
        /\ \A i \in Refusals : client[i].frame \in 1..m /\ client[i].frame # m
        /\ \A k \in 1..m : frames'[k] \in Refused => Answered(k) \/ k = m
        /\ forgiven <= m
    <3>1. CASE Read("Denied")
      <4>1. "Denied" \in FrameKinds
        BY DEF FrameKinds
      <4>2. n' = n + 1 /\ frames'[n + 1] = "Denied" /\ \A k \in 1..n : frames'[k] = frames[k]
        BY <1>0, <3>1, <4>1, ReadTyped
      <4>3. \A k \in 1..n : frames[k] \in Refused => Answered(k)
        BY <3>1 DEF Turn, LoopKnows, Read
      <4>4. \A i \in Refusals : client[i].frame \in 1..n
        BY DEF Turn, RefusalsInOrder
      <4>5. forgiven \in Nat /\ forgiven <= n
        BY DEF Typed, RelayTyped, Turn, RefusalsInOrder
      <4> QED BY <1>0, <1>7, <4>2, <4>3, <4>4, <4>5 DEF Refused
    <3>2. CASE loop = "held" /\ frames' = frames
      <4>1. n' = n
        BY <3>2 DEF n
      <4>2. n > 0 /\ frames[n] = "Paused" /\ ~Answered(n)
        BY <3>2 DEF Turn, LoopKnows
      <4>3. \A i \in Refusals : client[i].frame \in 1..n /\ client[i].frame # n
        BY <4>2 DEF Turn, RefusalsInOrder, Answered
      <4>4. \A k \in 1..n : frames[k] \in Refused => Answered(k) \/ k = n
        BY DEF Turn, LoopKnows
      <4> QED BY <1>7, <3>2, <4>1, <4>2, <4>3, <4>4 DEF Refused, Turn, RefusalsInOrder
    <3> QED BY <1>7, <3>1, <3>2
  <2>5. ~Answered(n)' /\ \A k : Answered(k)' <=> Answered(k)
    BY <1>7, <2>4, NothingArrives DEF Answered
  <2>6. OneOnItsWay'
    BY <1>7, <2>1, <2>2, <2>3, <2>4, <2>5 DEF OneOnItsWay, Tagged
  <2>7. LoopKnows'
    BY <1>7, <2>2, <2>4, <2>5 DEF LoopKnows
  <2>8. RefusalsInOrder'
    BY <1>7, <2>4, NothingArrives DEF Turn, RefusalsInOrder
  <2>9. MidFrameStops'
    BY <1>7 DEF Turn, MidFrameStops
  <2> QED BY <2>6, <2>7, <2>8, <2>9 DEF Turn
<1>8. CASE Refuse
  <2>0. n + 1 \in Nat /\ FALSE \in BOOLEAN
    BY <1>0
  <2>1. Read("Denied") /\ Inject(n + 1, FALSE)
    BY <1>8 DEF Refuse
  <2>2. n + 1 = n'
    BY <1>0, <2>1, ReadTyped DEF FrameKinds
  <2>3. UNCHANGED <<fwd, pending, client, relay, forgiven, midFrame, socket>>
    BY <1>8 DEF Refuse, relayVars
  <2> QED BY <1>7, <2>0, <2>1, <2>2, <2>3
<1>9. CASE Rejected \/ Abandoned
  <2>1. loop = "held" /\ frames' = frames
        /\ UNCHANGED <<fwd, pending, client, relay, forgiven, midFrame, socket>>
    BY <1>9 DEF Rejected, Abandoned, relayVars
  <2>2. \E notice \in BOOLEAN : Inject(n, notice)
    BY <1>9 DEF Rejected, Abandoned
  <2>3. n = n'
    BY <2>1 DEF n
  <2> QED BY <1>0, <1>7, <2>1, <2>2, <2>3
<1>10. CASE Approved
  <2>1. /\ loop = "held" /\ loop' = "forwarding" /\ n > 0
        /\ n' = n /\ frames'[n] = "Query" /\ \A m \in 1..n : m # n => frames'[m] = frames[m]
        /\ UNCHANGED <<channel, pending, acked, client, relay, forgiven, midFrame, socket>>
    <3>1. n \in 1..Len(frames) /\ frames \in Seq(FrameKinds) /\ "Query" \in FrameKinds
      BY <1>0, <1>10 DEF Approved, Turn, LoopKnows, LoopTyped, FrameKinds
    <3> QED BY <1>0, <1>10, <3>1, ExceptSeq DEF Approved, relayVars, n
  <2>2. channel = <<>> /\ pending = <<>>
    BY <2>1 DEF Turn, OneOnItsWay
  <2>3. OneOnItsWay'
    BY <2>1, <2>2 DEF OneOnItsWay
  <2>4. LoopKnows'
    <3>1. frames'[n'] \notin Refused
      BY <2>1 DEF Refused
    <3>2. \A m \in 1..n' : frames'[m] \in Refused => Answered(m)'
      <4>1. \A m \in 1..n : m # n /\ frames[m] \in Refused => Answered(m)
        BY <2>1 DEF Turn, LoopKnows
      <4> QED BY <2>1, <3>1, <4>1, NothingArrives
    <3> QED BY <2>1, <3>1, <3>2 DEF LoopKnows
  <2>5. RefusalsInOrder' /\ MidFrameStops'
    BY <2>1, NothingArrives DEF Turn, RefusalsInOrder, MidFrameStops
  <2> QED BY <2>3, <2>4, <2>5 DEF Turn
<1>11. CASE Resume \/ NoticeTimesOut \/ Unwritten \/ LoopDropped \/ ClientEnds \/ DrainEnds
  <2>1. UNCHANGED <<frames, fwd, channel, pending, acked, client, relay, forgiven, midFrame,
                    socket>> /\ n' = n
    BY <1>11 DEF Resume, NoticeTimesOut, Unwritten, LoopDropped, ClientEnds, DrainEnds,
                 relayVars, n
  <2>2. LoopKnows'
    <3>1. CASE loop' = "over"
      BY <2>1, <3>1, NothingArrives DEF Turn, LoopKnows
    <3>2. CASE Resume /\ loop' # "over"
      BY <2>1, <3>2, NothingArrives DEF Resume, Turn, LoopKnows
    <3>3. CASE Unwritten /\ loop' # "over"
      BY <2>1, <3>3, NothingArrives DEF Unwritten, Turn, LoopKnows, Stopped
    <3>4. CASE ClientEnds
      BY <2>1, <3>4, NothingArrives DEF ClientEnds, Turn, LoopKnows
    <3> QED BY <1>11, <3>1, <3>2, <3>3, <3>4 DEF NoticeTimesOut, LoopDropped, DrainEnds
  <2>3. channel # <<>> \/ pending # <<>> =>
            loop' \in {"awaiting", "notice", "unwritten", "over"}
    BY <1>11 DEF Resume, NoticeTimesOut, Unwritten, LoopDropped, ClientEnds, DrainEnds,
                 Turn, OneOnItsWay
  <2> QED BY <1>4, <2>1, <2>2, <2>3
<1>12. CASE Abort
  <2>1. UNCHANGED <<frames, fwd, loop, channel, pending, acked, client, forgiven, midFrame>>
        /\ relay' = "aborted" /\ loop = "over" /\ n' = n
    BY <1>12 DEF Abort, loopVars, n
  <2>2. OneOnItsWay'
    BY <2>1 DEF Turn, OneOnItsWay, Tagged, Running
  <2>3. LoopKnows'
    BY <2>1, NothingArrives DEF Turn, LoopKnows
  <2>4. RefusalsInOrder' /\ MidFrameStops'
    BY <2>1, NothingArrives DEF Turn, RefusalsInOrder, MidFrameStops
  <2> QED BY <2>2, <2>3, <2>4 DEF Turn
<1>13. CASE AnswerOnHandBack
  <2>1. /\ UNCHANGED <<frames, fwd, channel, pending, acked, relay, forgiven, midFrame, socket>>
        /\ loop = "unwritten" /\ loop' = "over" /\ n' = n
    BY <1>13 DEF AnswerOnHandBack, n
  <2>2. CASE client' = client
    <3>1. LoopKnows'
      BY <2>1, <2>2, NothingArrives DEF Turn, LoopKnows
    <3> QED BY <1>4, <2>1, <2>2, <3>1
  <2>3. CASE client' = Append(client, Refusal(n, FALSE))
    <3> DEFINE x == Refusal(n, FALSE)
    <3>1. x \in Ref /\ x.frame = n /\ client' = Append(client, x)
      BY <1>0, <2>3 DEF Refusal, Ref, Typed, RelayTyped
    <3> HIDE DEF x
    <3>2. n > 0 /\ ~Answered(n) /\ ~Running
      BY <2>1 DEF Turn, LoopKnows, Stopped, Running
    <3>3. OneOnItsWay'
      BY <2>1, <3>2 DEF Turn, OneOnItsWay, Tagged, Running
    <3>4. LoopKnows'
      BY <2>1, <3>1, RefusalArrives DEF Turn, LoopKnows
    <3>5. RefusalsInOrder'
      BY <2>1, <3>1, <3>2, LastInOrder DEF Turn, RefusalsInOrder
    <3>6. MidFrameStops'
      BY <2>1 DEF Turn, MidFrameStops
    <3> QED BY <3>3, <3>4, <3>5, <3>6 DEF Turn
  <2> QED BY <1>13, <2>2, <2>3 DEF AnswerOnHandBack
<1> QED BY <1>2, <1>3, <1>6, <1>8, <1>9, <1>10, <1>11, <1>12, <1>13 DEF MessageLoop, Session

-----------------------------------------------------------------------------
(* The pipeline.  A step leaves it as it is, queues a frame at its end,      *)
(* drops that one again, answers the frame at its head or delivers the head  *)
(* of its answers.                                                          *)
LEMMA PipelineTyped ==
    ASSUME Typed
    PROVE  /\ Line \in Seq(Msg) /\ Queue \in Seq(Nat) /\ Len(Line) \in Nat /\ Len(Queue) \in Nat
           /\ DOMAIN Line = 1..Len(Line) /\ DOMAIN Queue = 1..Len(Queue)
           /\ \A i \in DOMAIN Line : Line[i].frame \in Nat
           /\ \A i \in DOMAIN Queue : Queue[i] \in Nat
<1>1. Line \in Seq(Msg)
  BY DEF Line, Typed, DatabaseTyped
<1>2. Queue \in Seq(Nat)
  BY FramesTyped DEF Queue, Typed, DatabaseTyped
<1> HIDE DEF Line, Queue
<1>3. \A x \in Msg : x.frame \in Nat
  BY DEF Msg
<1>4. \A i \in 1..Len(Line) : Line[i] \in Msg
  BY <1>1
<1>5. \A i \in 1..Len(Queue) : Queue[i] \in Nat
  BY <1>2
<1> QED BY <1>1, <1>2, <1>3, <1>4, <1>5

(* The frames a step knows of already keep their kinds, but for the last one *)
(* if it was held and is approved.                                          *)
NextKind(m) == IF m = 0 THEN "Sync" ELSE frames'[m]
KindsStay ==
    /\ n \in Nat /\ n' \in Nat /\ n <= n'
    /\ \A m \in 0..n : m < n \/ Kind(m) \notin Refused => NextKind(m) = Kind(m)

(* ... and what is cleared stays so.                                        *)
ClearStays == \A s \in 0..n : (s < n \/ Kind(s) \notin Refused) /\ Clear(s) => Clear(s)'

StaysPut == Line' = Line /\ Queue' = Queue /\ skipping' = skipping
Queues ==
    /\ Line' = Line /\ Queue' = Append(Queue, n') /\ skipping' = skipping
    /\ \A i \in DOMAIN Queue : Queue[i] < n'
    /\ \A i \in DOMAIN Line : Line[i].frame < n'
    /\ NextKind(n') \notin Refused
    /\ n < n' \/ Kind(n) \in Refused
Drops == /\ Line' = Line /\ skipping' = skipping
         /\ \E m \in Nat, q \in Seq(Nat) : Queue = Append(q, m) /\ Queue' = q
Answers(t) ==
    /\ Queue # <<>> /\ Queue' = Tail(Queue)
    /\ t \in Seq(Msg) /\ Line' = Line \o t
    /\ \A i \in DOMAIN t :
          /\ t[i].frame = Head(Queue)
          /\ t[i].tag = "Z" => i = Len(t) /\ Head(Queue) \in SPs
    /\ skipping /\ Kind(Head(Queue)) # "Sync" => t = <<>> /\ skipping'
Delivers == Line # <<>> /\ Line' = Tail(Line) /\ Queue' = Queue /\ skipping' = skipping

(* The pipeline's frames are known and of a kind that is answered.           *)
LEMMA PipelineKnown ==
    ASSUME Typed, PipelineInOrder, KindsStay
    PROVE  /\ \A i \in DOMAIN Queue : /\ Queue[i] \in 0..n /\ Queue[i] <= n'
                                      /\ NextKind(Queue[i]) = Kind(Queue[i])
                                      /\ Kind(Queue[i]) \notin Refused
           /\ \A i \in DOMAIN Line : /\ Line[i].frame \in 0..n /\ Line[i].frame <= n'
                                     /\ NextKind(Line[i].frame) = Kind(Line[i].frame)
                                     /\ Kind(Line[i].frame) \notin Refused
<1>1. n \in Nat /\ n' \in Nat /\ n <= n'
  BY DEF KindsStay
<1>2. \A i \in DOMAIN Queue : Queue[i] \in 0..n /\ Queue[i] <= n' /\ Kind(Queue[i]) \notin Refused
  BY <1>1, PipelineTyped DEF PipelineInOrder
<1>3. \A i \in DOMAIN Line :
          Line[i].frame \in 0..n /\ Line[i].frame <= n' /\ Kind(Line[i].frame) \notin Refused
  BY <1>1, PipelineTyped DEF PipelineInOrder
<1> QED BY <1>2, <1>3 DEF KindsStay

(* A pipeline left as it is keeps its order.                                 *)
LEMMA PutKeepsOrder ==
    ASSUME Typed, PipelineInOrder, KindsStay, StaysPut
    PROVE  PipelineInOrder' /\ ClearStays
<1>1. \A m : Kind(m)' = NextKind(m)
  BY DEF Kind, NextKind
<1>2. Line' = Line /\ Queue' = Queue /\ skipping' = skipping
  BY DEF StaysPut
<1>3. \A i \in DOMAIN Line : Line[i].frame \in SPs => Line[i].frame \in SPs'
  BY <1>1, PipelineKnown DEF SPs, KindsStay
<1>4. PipelineInOrder'
  BY <1>1, <1>2, <1>3, PipelineKnown DEF PipelineInOrder, Kind, NextKind
<1>5. ASSUME NEW s \in 0..n, Clear(s) PROVE Clear(s)'
  <2>1. \A k \in DOMAIN Queue : Doomed(k) => Doomed(k)'
    BY <1>2, PipelineKnown, PipelineTyped DEF Doomed, Kind, NextKind
  <2> QED BY <1>2, <1>5, <2>1 DEF Clear
<1> QED BY <1>4, <1>5 DEF ClearStays

(* A frame queued goes behind everything in the pipeline.                    *)
LEMMA QueuesKeepsOrder ==
    ASSUME Typed, PipelineInOrder, KindsStay, Queues
    PROVE  PipelineInOrder' /\ ClearStays
<1>1. \A m : Kind(m)' = NextKind(m)
  BY DEF Kind, NextKind
<1>2. /\ Line' = Line /\ skipping' = skipping
      /\ \A i \in DOMAIN Queue : Queue[i] < n'
      /\ \A i \in DOMAIN Line : Line[i].frame < n'
      /\ n' \in Nat
  BY DEF Queues, KindsStay
<1>3. \A i \in DOMAIN Line : Line[i].frame \in SPs => Line[i].frame \in SPs'
  BY <1>1, PipelineKnown DEF SPs, KindsStay
<1> DEFINE last == Len(Queue) + 1
<1>4. /\ DOMAIN Queue' = DOMAIN Queue \union {last} /\ last \notin DOMAIN Queue
      /\ \A i \in DOMAIN Queue : Queue'[i] = Queue[i] /\ i < last /\ 1..i \subseteq DOMAIN Queue
      /\ Queue'[last] = n' /\ last \in Nat /\ DOMAIN Queue \subseteq Nat
  BY <1>2, PipelineTyped, AppendProperties DEF Queues
<1>5. NextKind(n') \notin Refused
  BY DEF Queues
<1> HIDE DEF last
<1>6. PipelineInOrder'
  <2>1. \A i, j \in DOMAIN Queue' : i < j => Queue'[i] < Queue'[j]
    BY <1>2, <1>4 DEF PipelineInOrder
  <2>2. \A i \in DOMAIN Queue' : Queue'[i] <= n' /\ NextKind(Queue'[i]) \notin Refused
    BY <1>2, <1>4, <1>5, PipelineKnown
  <2>3. \A i \in DOMAIN Line : /\ Line[i].frame <= n' /\ NextKind(Line[i].frame) \notin Refused
                               /\ Line[i].tag = "Z" => Line[i].frame \in SPs'
    BY <1>3, PipelineKnown DEF PipelineInOrder
  <2>4. \A i \in DOMAIN Line, k \in DOMAIN Queue' : Line[i].frame < Queue'[k]
    BY <1>2, <1>4 DEF PipelineInOrder
  <2>5. \A i, j \in DOMAIN Line : i < j =>
          /\ Line[i].frame <= Line[j].frame
          /\ Line[i].tag = "Z" => Line[i].frame < Line[j].frame
    BY DEF PipelineInOrder
  <2> QED BY <1>1, <1>2, <2>1, <2>2, <2>3, <2>4, <2>5 DEF PipelineInOrder, Kind, NextKind
<1>7. ASSUME NEW s \in 0..n, Clear(s), s < n \/ Kind(s) \notin Refused PROVE Clear(s)'
  <2>1. \A k \in DOMAIN Queue : Doomed(k) => Doomed(k)'
    BY <1>2, <1>4, PipelineKnown, PipelineTyped DEF Doomed, Kind, NextKind
  <2>2. s < n'
    BY <1>7 DEF KindsStay, Queues
  <2> QED BY <1>2, <1>4, <1>7, <2>1, <2>2 DEF Clear
<1> QED BY <1>6, <1>7 DEF ClearStays

(* A frame the loop never wrote leaves the end of the queue.                 *)
LEMMA DropsKeepsOrder ==
    ASSUME Typed, PipelineInOrder, KindsStay, Drops
    PROVE  PipelineInOrder' /\ ClearStays
<1>1. \A m : Kind(m)' = NextKind(m)
  BY DEF Kind, NextKind
<1>2. Line' = Line /\ skipping' = skipping
  BY DEF Drops
<1>3. \A i \in DOMAIN Line : Line[i].frame \in SPs => Line[i].frame \in SPs'
  BY <1>1, PipelineKnown DEF SPs, KindsStay
<1>4. /\ DOMAIN Queue' \subseteq DOMAIN Queue
      /\ \A i \in DOMAIN Queue' : Queue'[i] = Queue[i] /\ 1..i \subseteq DOMAIN Queue'
  <2>1. PICK m \in Nat, q \in Seq(Nat) : Queue = Append(q, m) /\ Queue' = q
    BY DEF Drops
  <2> QED BY <2>1, AppendProperties
<1>5. PipelineInOrder'
  BY <1>1, <1>2, <1>3, <1>4, PipelineKnown DEF PipelineInOrder, Kind, NextKind
<1>6. ASSUME NEW s \in 0..n, Clear(s) PROVE Clear(s)'
  <2>1. \A k \in DOMAIN Queue' : Doomed(k) => Doomed(k)'
    BY <1>2, <1>4, PipelineKnown, PipelineTyped DEF Doomed, Kind, NextKind
  <2> QED BY <1>2, <1>4, <1>6, <2>1 DEF Clear
<1> QED BY <1>5, <1>6 DEF ClearStays

(* A message delivered leaves the head of the line.                          *)
LEMMA DeliversKeepsOrder ==
    ASSUME Typed, PipelineInOrder, KindsStay, Delivers
    PROVE  PipelineInOrder' /\ ClearStays
<1>1. \A m : Kind(m)' = NextKind(m)
  BY DEF Kind, NextKind
<1>2. Queue' = Queue /\ skipping' = skipping
  BY DEF Delivers
<1>3. \A i \in DOMAIN Line : Line[i].frame \in SPs => Line[i].frame \in SPs'
  BY <1>1, PipelineKnown DEF SPs, KindsStay
<1>4. \A i \in DOMAIN Line' : i + 1 \in DOMAIN Line /\ Line'[i] = Line[i + 1] /\ i \in Nat
  BY PipelineTyped, HeadTailProperties DEF Delivers
<1>5. PipelineInOrder'
  <2>1. \A i \in DOMAIN Queue : Queue[i] <= n' /\ NextKind(Queue[i]) \notin Refused
    BY PipelineKnown
  <2>2. \A i \in DOMAIN Line' : /\ Line'[i].frame <= n' /\ NextKind(Line'[i].frame) \notin Refused
                                /\ Line'[i].tag = "Z" => Line'[i].frame \in SPs'
    BY <1>3, <1>4, PipelineKnown DEF PipelineInOrder
  <2>3. \A i, j \in DOMAIN Line' : i < j =>
          /\ Line'[i].frame <= Line'[j].frame
          /\ Line'[i].tag = "Z" => Line'[i].frame < Line'[j].frame
    BY <1>4 DEF PipelineInOrder
  <2>4. \A i \in DOMAIN Line', k \in DOMAIN Queue : Line'[i].frame < Queue[k]
    BY <1>4 DEF PipelineInOrder
  <2>5. \A i, j \in DOMAIN Queue : i < j => Queue[i] < Queue[j]
    BY DEF PipelineInOrder
  <2> QED BY <1>1, <1>2, <2>1, <2>2, <2>3, <2>4, <2>5 DEF PipelineInOrder, Kind, NextKind
<1>6. ASSUME NEW s \in 0..n, Clear(s) PROVE Clear(s)'
  <2>1. \A k \in DOMAIN Queue : Doomed(k) => Doomed(k)'
    BY <1>2, PipelineKnown, PipelineTyped DEF Doomed, Kind, NextKind
  <2> QED BY <1>2, <1>4, <1>6, <2>1 DEF Clear
<1> QED BY <1>5, <1>6 DEF ClearStays

(* The answers to the head of the queue go behind all earlier answers.       *)
LEMMA AnswersKeepsOrder ==
    ASSUME Typed, PipelineInOrder, KindsStay, NEW t, Answers(t)
    PROVE  PipelineInOrder' /\ ClearStays
<1> DEFINE h == Head(Queue)
<1>1. \A m : Kind(m)' = NextKind(m)
  BY DEF Kind, NextKind
<1>2. 1 \in DOMAIN Queue /\ h = Queue[1]
  BY PipelineTyped DEF Answers
<1>3. /\ \A i \in DOMAIN Line : Line[i].frame < h
      /\ \A k \in DOMAIN Queue : k # 1 => h < Queue[k]
      /\ h \in 0..n /\ h <= n' /\ NextKind(h) \notin Refused
  BY <1>2, PipelineKnown, PipelineTyped DEF PipelineInOrder
<1>4. \A i \in DOMAIN Line : Line[i].frame \in SPs => Line[i].frame \in SPs'
  BY <1>1, PipelineKnown DEF SPs, KindsStay
<1>5. \A k \in DOMAIN Queue' : /\ k + 1 \in DOMAIN Queue /\ Queue'[k] = Queue[k + 1]
                               /\ k \in Nat /\ k + 1 # 1
                               /\ \A i \in 1..k : i + 1 \in DOMAIN Queue /\ Queue'[i] = Queue[i + 1]
  <2>1. /\ DOMAIN Queue' = 1..(Len(Queue) - 1) /\ Len(Queue) \in Nat /\ DOMAIN Queue = 1..Len(Queue)
        /\ \A k \in DOMAIN Queue' : Queue'[k] = Queue[k + 1]
    <3>1. Queue \in Seq(Nat) /\ Queue # <<>> /\ Queue' = Tail(Queue)
      BY PipelineTyped DEF Answers
    <3> QED BY <3>1, HeadTailProperties
  <2> QED BY <2>1
<1>6. /\ t \in Seq(Msg) /\ Len(t) \in Nat /\ DOMAIN t = 1..Len(t)
      /\ \A i \in DOMAIN t : t[i].frame = h
      /\ \A i \in DOMAIN t : t[i].tag = "Z" => i = Len(t) /\ h \in SPs
  BY DEF Answers
<1>7. \A i \in DOMAIN Line' :
         \/ i \in DOMAIN Line /\ Line'[i] = Line[i]
         \/ i - Len(Line) \in DOMAIN t /\ Line'[i] = t[i - Len(Line)] /\ i > Len(Line) /\ i \in Nat
  <2>1. /\ Len(Line') = Len(Line) + Len(t) /\ DOMAIN Line' = 1..Len(Line')
        /\ \A i \in 1..(Len(Line) + Len(t)) :
              Line'[i] = IF i <= Len(Line) THEN Line[i] ELSE t[i - Len(Line)]
    BY PipelineTyped, <1>6, ConcatProperties DEF Answers
  <2> HIDE DEF h
  <2>2. Len(Line) \in Nat /\ DOMAIN Line = 1..Len(Line)
    BY PipelineTyped
  <2>3. \A i \in DOMAIN Line' : i \in Nat /\ i <= Len(Line) + Len(t) /\ i >= 1
    BY <1>6, <2>1, <2>2
  <2> QED BY <1>6, <2>1, <2>2, <2>3
<1>8. Len(Line) \in Nat /\ DOMAIN Line = 1..Len(Line) /\ \A i \in DOMAIN Line' : i \in Nat
  <2>1. Len(Line) \in Nat /\ DOMAIN Line = 1..Len(Line)
    BY PipelineTyped
  <2>2. \A i \in DOMAIN Line : i \in Nat
    BY <2>1
  <2> QED BY <1>7, <2>1, <2>2
<1>9. h \in SPs => h \in SPs'
  BY <1>1, <1>2, PipelineKnown DEF SPs, KindsStay
<1> HIDE DEF h
<1>10. PipelineInOrder'
  <2>1. \A i, j \in DOMAIN Queue' : i < j => Queue'[i] < Queue'[j]
    BY <1>5 DEF PipelineInOrder
  <2>2. \A i \in DOMAIN Queue' : Queue'[i] <= n' /\ NextKind(Queue'[i]) \notin Refused
    BY <1>5, PipelineKnown
  <2>3. \A i \in DOMAIN Line' : /\ Line'[i].frame <= n' /\ NextKind(Line'[i].frame) \notin Refused
                                /\ Line'[i].tag = "Z" => Line'[i].frame \in SPs'
                                /\ Line'[i].frame <= h
    <3>1. \A i \in DOMAIN Line : /\ Line[i].frame <= n' /\ NextKind(Line[i].frame) \notin Refused
                                 /\ Line[i].tag = "Z" => Line[i].frame \in SPs'
                                 /\ Line[i].frame <= h
      BY <1>3, <1>4, PipelineKnown, PipelineTyped DEF PipelineInOrder
    <3>2. \A i \in DOMAIN t : /\ t[i].frame <= n' /\ NextKind(t[i].frame) \notin Refused
                              /\ t[i].tag = "Z" => t[i].frame \in SPs'
                              /\ t[i].frame <= h
      BY <1>3, <1>6, <1>9
    <3> QED BY <1>7, <3>1, <3>2
  <2>4. \A i \in DOMAIN Line', k \in DOMAIN Queue' : Line'[i].frame < Queue'[k]
    <3>1. \A k \in DOMAIN Queue' : h < Queue'[k] /\ Queue'[k] \in Nat
      BY <1>3, <1>5, PipelineTyped
    <3>2. \A i \in DOMAIN Line' : Line'[i].frame \in Nat /\ Line'[i].frame <= h
      BY <1>3, <1>6, <1>7, <2>3, PipelineTyped
    <3> QED BY <1>3, <3>1, <3>2
  <2>5. ASSUME NEW i \in DOMAIN Line', NEW j \in DOMAIN Line', i < j
        PROVE  /\ Line'[i].frame <= Line'[j].frame
               /\ Line'[i].tag = "Z" => Line'[i].frame < Line'[j].frame
    <3>1. CASE i \in DOMAIN Line /\ Line'[i] = Line[i]
      <4>1. CASE j \in DOMAIN Line /\ Line'[j] = Line[j]
        BY <2>5, <3>1, <4>1 DEF PipelineInOrder
      <4>2. CASE j - Len(Line) \in DOMAIN t /\ Line'[j] = t[j - Len(Line)]
        BY <1>3, <1>6, <3>1, <4>2, PipelineTyped
      <4> QED BY <1>7, <4>1, <4>2
    <3>2. CASE i - Len(Line) \in DOMAIN t /\ Line'[i] = t[i - Len(Line)] /\ i > Len(Line)
      <4>1. j - Len(Line) \in DOMAIN t /\ Line'[j] = t[j - Len(Line)]
        BY <1>7, <1>8, <2>5, <3>2
      <4>2. Line'[i].frame = h /\ Line'[j].frame = h /\ h \in Nat
        BY <1>3, <1>6, <3>2, <4>1
      <4>3. Line'[i].tag # "Z"
        BY <1>6, <1>8, <2>5, <3>2, <4>1
      <4> QED BY <4>2, <4>3
    <3> QED BY <1>7, <3>1, <3>2
  <2> QED BY <1>1, <2>1, <2>2, <2>3, <2>4, <2>5 DEF PipelineInOrder, Kind, NextKind
<1>11. ASSUME NEW s \in 0..n, Clear(s) PROVE Clear(s)'
  <2>1. CASE s < h
    <3>1. \A k \in DOMAIN Queue' : s < Queue'[k]
      BY <1>3, <1>5, <2>1, PipelineTyped
    <3>2. \A i \in DOMAIN Line' : s < Line'[i].frame
      BY <1>6, <1>7, <1>11, <2>1 DEF Clear
    <3> QED BY <3>1, <3>2 DEF Clear
  <2>2. CASE ~(s < h)
    <3>1. skipping /\ Kind(h) # "Sync"
      BY <1>2, <1>11, <2>2, PipelineTyped DEF Clear, Doomed
    <3>2. t = <<>> /\ skipping'
      BY <3>1 DEF Answers, h
    <3>3. \A i \in DOMAIN Line' : s < Line'[i].frame
      BY <1>6, <1>7, <1>11, <3>2 DEF Clear
    <3>4. ASSUME NEW k \in DOMAIN Queue' PROVE s < Queue'[k] \/ Doomed(k)'
      <4>1. s < Queue[k + 1] \/ Doomed(k + 1)
        BY <1>5, <1>11 DEF Clear
      <4>2. ASSUME Doomed(k + 1) PROVE Doomed(k)'
        <5>1. \A i \in 1..k : i + 1 \in 1..(k + 1) /\ i + 1 \in DOMAIN Queue
                              /\ Queue'[i] = Queue[i + 1]
          BY <1>5
        <5>2. \A i \in 1..k : NextKind(Queue'[i]) # "Sync"
          BY <4>2, <5>1, PipelineKnown DEF Doomed
        <5> QED BY <3>2, <5>2 DEF Doomed, Kind, NextKind
      <4> QED BY <1>5, <4>1, <4>2
    <3> QED BY <3>3, <3>4 DEF Clear
  <2> QED BY <2>1, <2>2
<1> QED BY <1>10, <1>11 DEF ClearStays

(* What each task does to the pipeline.                                      *)
LEMMA LoopMovesPipeline ==
    ASSUME Typed, Turn, PipelineInOrder, MessageLoop \/ Session
    PROVE  KindsStay /\ (StaysPut \/ Queues \/ Drops)
<1>0. n \in Nat /\ n = Len(frames) /\ LoopTyped
  BY FramesTyped DEF Typed
<1>1. ASSUME NEW k \in FrameKinds, Read(k)
      PROVE  KindsStay /\ n' = n + 1 /\ NextKind(n') = k /\ loop = "reading"
  <2>1. n' = n + 1 /\ frames'[n + 1] = k /\ \A m \in 1..n : frames'[m] = frames[m]
    BY <1>0, <1>1, ReadTyped
  <2>2. n' \in Nat /\ n <= n' /\ n' # 0
    BY <1>0, <2>1
  <2>5. loop = "reading"
    BY <1>1, Zenon DEF Read
  <2>3. \A m \in 0..n : NextKind(m) = Kind(m)
    BY <1>0, <2>1 DEF NextKind, Kind
  <2>4. NextKind(n') = k
    BY <2>1, <2>2 DEF NextKind
  <2> QED BY <1>0, <2>1, <2>2, <2>3, <2>4, <2>5 DEF KindsStay
<1>2. ASSUME frames' = frames PROVE KindsStay
  BY <1>0, <1>2 DEF KindsStay, NextKind, Kind, n
<1>3. ASSUME loop # "forwarding", loop' # "forwarding", UNCHANGED <<upstream, dbVars, socket>>
      PROVE  StaysPut
  BY <1>3 DEF StaysPut, Queue, Line, dbVars
<1>4. ASSUME NEW k \in FrameKinds, Forward(k) PROVE KindsStay /\ Queues
  <2>1. KindsStay /\ n' = n + 1 /\ NextKind(n') = k /\ loop = "reading" /\ loop' = "forwarding"
        /\ UNCHANGED <<upstream, dbVars, socket>> /\ k \notin Refused
    BY <1>1, <1>4 DEF Forward, Refused
  <2>2. Line' = Line /\ skipping' = skipping /\ Queue' = Append(Queue, n')
    BY <2>1 DEF Line, Queue, dbVars
  <2>3. \A i \in DOMAIN Queue : Queue[i] < n'
    BY <1>0, <2>1, PipelineTyped DEF PipelineInOrder
  <2>4. \A i \in DOMAIN Line : Line[i].frame < n'
    BY <1>0, <2>1, PipelineTyped DEF PipelineInOrder
  <2> QED BY <1>0, <2>1, <2>2, <2>3, <2>4 DEF Queues
<1>5. CASE Write
  <2>1. n' = n
    BY <1>5 DEF Write, n
  <2> QED BY <1>2, <1>5, <2>1 DEF Write, StaysPut, Queue, Line, dbVars
<1>6. CASE Refuse
  <2>1. Read("Denied") /\ "Denied" \in FrameKinds /\ Inject(n + 1, FALSE)
    BY <1>6 DEF Refuse, FrameKinds
  <2>2. loop' # "forwarding"
    BY <2>1 DEF Inject
  <2> QED BY <1>1, <1>3, <1>6, <2>1, <2>2 DEF Refuse
<1>7. CASE Hold
  <2>1. Read("Paused") /\ "Paused" \in FrameKinds
    BY <1>7 DEF Hold, FrameKinds
  <2> QED BY <1>1, <1>3, <1>7, <2>1 DEF Hold
<1>8. CASE Approved
  <2>1. /\ loop = "held" /\ loop' = "forwarding" /\ n > 0 /\ Kind(n) = "Paused"
        /\ n' = n /\ frames'[n] = "Query" /\ \A m \in 1..n : m # n => frames'[m] = frames[m]
        /\ UNCHANGED <<upstream, dbVars, socket>>
    <3>1. n \in 1..Len(frames) /\ frames \in Seq(FrameKinds) /\ "Query" \in FrameKinds
      BY <1>0, <1>8 DEF Approved, Turn, LoopKnows, LoopTyped, FrameKinds
    <3> QED BY <1>0, <1>8, <3>1, ExceptSeq DEF Approved, Turn, LoopKnows, Kind, n
  <2>2. KindsStay
    BY <1>0, <2>1 DEF KindsStay, NextKind, Kind, Refused
  <2>3. Line' = Line /\ skipping' = skipping /\ Queue' = Append(Queue, n')
    BY <2>1 DEF Line, Queue, dbVars
  <2>4. \A i \in DOMAIN Queue : Queue[i] < n'
    BY <1>0, <2>1, PipelineTyped DEF PipelineInOrder, Refused
  <2>5. \A i \in DOMAIN Line : Line[i].frame < n'
    BY <1>0, <2>1, PipelineTyped DEF PipelineInOrder, Refused
  <2>6. NextKind(n') \notin Refused /\ Kind(n) \in Refused
    BY <2>1 DEF NextKind, Refused
  <2> QED BY <2>2, <2>3, <2>4, <2>5, <2>6 DEF Queues
<1>9. CASE Rejected \/ Abandoned
  <2>1. loop' # "forwarding"
    BY <1>9 DEF Rejected, Abandoned, Inject
  <2> QED BY <1>2, <1>3, <1>9, <2>1 DEF Rejected, Abandoned
<1>10. CASE Resume \/ NoticeTimesOut \/ Unwritten \/ ClientEnds \/ DrainEnds \/ AnswerOnHandBack
  <2>1. loop # "forwarding" /\ loop' # "forwarding" /\ frames' = frames
        /\ UNCHANGED <<upstream, dbVars, socket>>
    BY <1>10 DEF Resume, NoticeTimesOut, Unwritten, ClientEnds, DrainEnds, AnswerOnHandBack
  <2> QED BY <1>2, <1>3, <2>1
<1>11. CASE Abort
  <2>1. UNCHANGED <<upstream, dbVars, socket, loop, frames>>
    BY <1>11 DEF Abort, loopVars
  <2> QED BY <1>2, <2>1 DEF StaysPut, Queue, Line, dbVars, n
<1>12. CASE LoopDropped
  <2>1. UNCHANGED <<upstream, dbVars, socket, frames>> /\ loop' = "over"
    BY <1>12 DEF LoopDropped
  <2>2. CASE loop = "forwarding"
    <3>1. upstream \in Seq(Nat)
      BY DEF Typed, DatabaseTyped
    <3>2. Line' = Line /\ skipping' = skipping /\ Queue = Append(upstream, n) /\ Queue' = upstream
      BY <2>1, <2>2 DEF Line, Queue, dbVars
    <3> QED BY <1>0, <1>2, <2>1, <3>1, <3>2 DEF Drops
  <2>3. CASE loop # "forwarding"
    BY <1>2, <1>3, <2>1, <2>3
  <2> QED BY <2>2, <2>3
<1> QED BY <1>4, <1>5, <1>6, <1>7, <1>8, <1>9, <1>10, <1>11, <1>12 DEF MessageLoop, Session

(* The relay only takes the head of the line.                                *)
LEMMA RelayMovesPipeline ==
    ASSUME Typed, Turn, RelayTask
    PROVE  KindsStay /\ (StaysPut \/ (Delivers /\ Relayed /\ socket # <<>> /\ Head(Line) = Head(socket)))
<1>0. n \in Nat
  BY FramesTyped DEF Typed
<1>1. UNCHANGED <<loopVars, upstream, dbVars>>
  BY DEF RelayTask, Settle, Proceed, TakeInjection, GiveUp, OrderBudgetSpent, Deliver, FinishCopy,
         Relayed, StartCopy, Truncate, UpstreamEnds, Stop
<1>2. KindsStay /\ Queue' = Queue /\ skipping' = skipping /\ buffered' = buffered
  BY <1>0, <1>1 DEF KindsStay, NextKind, Kind, loopVars, dbVars, Queue, n
<1>3. CASE Deliver \/ FinishCopy
  <2>1. Relayed /\ socket # <<>>
    BY <1>3 DEF Deliver, FinishCopy, Turn, MidFrameStops
  <2>2. socket \in Seq(Msg) /\ buffered \in Seq(Msg) /\ socket' = Tail(socket)
    BY <2>1 DEF Typed, DatabaseTyped, Relayed
  <2>3. Line # <<>> /\ Tail(socket) \o buffered = Tail(socket \o buffered)
        /\ Head(socket \o buffered) = Head(socket)
    BY <2>1, <2>2 DEF Line
  <2> QED BY <1>2, <2>1, <2>2, <2>3 DEF Delivers, Line
<1>4. CASE ~(Deliver \/ FinishCopy)
  <2>1. socket' = socket
    BY <1>4 DEF RelayTask, Settle, Proceed, TakeInjection, GiveUp, OrderBudgetSpent,
                StartCopy, Truncate, UpstreamEnds, Stop
  <2> QED BY <1>2, <2>1 DEF StaysPut, Line
<1> QED BY <1>3, <1>4

(* A frame behind a queue that is not empty leaves its head where it was.    *)
LEMMA AppendTail ==
    ASSUME NEW q \in Seq(Nat), q # <<>>, NEW m \in Nat
    PROVE  /\ Append(q, m) # <<>> /\ Tail(Append(q, m)) = Append(Tail(q), m)
           /\ Head(Append(q, m)) = Head(q)
<1>1. /\ Append(q, m) \in Seq(Nat) /\ Len(Append(q, m)) = Len(q) + 1
      /\ \A i \in 1..Len(q) : Append(q, m)[i] = q[i]
      /\ Append(q, m)[Len(q) + 1] = m
  BY AppendProperties
<1>2. Len(q) \in Nat /\ Len(q) > 0 /\ Append(q, m) # <<>>
  BY <1>1
<1>3. Tail(q) \in Seq(Nat) /\ Len(Tail(q)) = Len(q) - 1 /\ \A i \in 1..Len(Tail(q)) : Tail(q)[i] = q[i + 1]
  BY HeadTailProperties
<1> DEFINE l == Tail(Append(q, m))  r == Append(Tail(q), m)
<1>4. l \in Seq(Nat) /\ Len(l) = Len(q) /\ \A i \in 1..Len(q) : l[i] = Append(q, m)[i + 1]
  <2> DEFINE a == Append(q, m)
  <2>1. a \in Seq(Nat) /\ a # <<>> /\ Len(a) = Len(q) + 1 /\ Len(q) \in Nat
    BY <1>1, <1>2
  <2> HIDE DEF a
  <2>2. Tail(a) \in Seq(Nat) /\ Len(Tail(a)) = Len(a) - 1 /\ \A i \in 1..Len(Tail(a)) : Tail(a)[i] = a[i + 1]
    BY <2>1, HeadTailProperties
  <2>3. Len(Tail(a)) = Len(q)
    BY <2>1, <2>2
  <2> QED BY <2>2, <2>3 DEF a
<1>5. r \in Seq(Nat) /\ Len(r) = Len(q) /\ r[Len(q)] = m /\ \A i \in 1..(Len(q) - 1) : r[i] = q[i + 1]
  BY <1>2, <1>3, AppendProperties
<1> DEFINE e == Append(q, m)
<1>9. /\ \A i \in 1..Len(q) : e[i] = q[i]
      /\ e[Len(q) + 1] = m /\ \A i \in 1..Len(q) : l[i] = e[i + 1]
  BY <1>1, <1>4
<1> HIDE DEF l, r, e
<1>6. ASSUME NEW i \in 1..Len(q) PROVE l[i] = r[i]
  <2>1. CASE i = Len(q)
    BY <1>5, <1>9, <2>1
  <2>2. CASE i # Len(q)
    <3>1. i \in 1..(Len(q) - 1) /\ i + 1 \in 1..Len(q)
      BY <1>2, <2>2
    <3> QED BY <1>5, <1>9, <3>1
  <2> QED BY <2>1, <2>2
<1>7. l = r
  BY <1>4, <1>5, <1>6, SeqEqual
<1>8. Head(Append(q, m)) = Head(q)
  BY <1>1, <1>2
<1> QED BY <1>2, <1>7, <1>8 DEF l, r

(* Sequences of messages put together.                                       *)
LEMMA JoinMessages ==
    ASSUME NEW a \in Seq(Msg), NEW b \in Seq(Msg)
    PROVE  /\ a \o b \in Seq(Msg) /\ Len(a \o b) = Len(a) + Len(b)
           /\ \A i \in DOMAIN (a \o b) :
                 \/ i \in DOMAIN a /\ (a \o b)[i] = a[i]
                 \/ /\ i - Len(a) \in DOMAIN b /\ i > Len(a) /\ i \in Nat
                    /\ (a \o b)[i] = b[i - Len(a)]
<1>1. /\ a \o b \in Seq(Msg) /\ Len(a \o b) = Len(a) + Len(b)
      /\ \A i \in 1..(Len(a) + Len(b)) :
            (a \o b)[i] = IF i <= Len(a) THEN a[i] ELSE b[i - Len(a)]
  BY ConcatProperties
<1>2. Len(a) \in Nat /\ Len(b) \in Nat /\ DOMAIN a = 1..Len(a) /\ DOMAIN b = 1..Len(b)
      /\ DOMAIN (a \o b) = 1..(Len(a) + Len(b))
  BY <1>1
<1> QED BY <1>1, <1>2

(* Messages joined in either order are the same.                             *)
LEMMA MessagesAssociate ==
    ASSUME NEW a \in Seq(Msg), NEW b \in Seq(Msg), NEW c \in Seq(Msg)
    PROVE  (a \o b) \o c = a \o (b \o c)
  BY ConcatAssociative

(* One message is a sequence of messages.                                    *)
LEMMA SingleMessage ==
    ASSUME NEW a \in Msg
    PROVE  <<a>> \in Seq(Msg) /\ Len(<<a>>) = 1 /\ DOMAIN <<a>> = {1} /\ <<a>>[1] = a
  OBVIOUS

(* A burst sent in two parts is the burst.                                   *)
LEMMA SplitMessages ==
    ASSUME NEW a \in Seq(Msg), NEW k \in 1..Len(a)
    PROVE  SubSeq(a, 1, k) \o SubSeq(a, k + 1, Len(a)) = a
<1>1. SubSeq(a, 1, k) \in Seq(Msg) /\ Len(SubSeq(a, 1, k)) = k
      /\ \A i \in 1..k : SubSeq(a, 1, k)[i] = a[i]
  OBVIOUS
<1>2. SubSeq(a, k + 1, Len(a)) \in Seq(Msg) /\ Len(SubSeq(a, k + 1, Len(a))) = Len(a) - k
      /\ \A i \in 1..(Len(a) - k) : SubSeq(a, k + 1, Len(a))[i] = a[k + i]
  OBVIOUS
<1> DEFINE b == SubSeq(a, 1, k)  c == SubSeq(a, k + 1, Len(a))
<1>3. b \in Seq(Msg) /\ Len(b) = k /\ \A i \in 1..k : b[i] = a[i]
  BY <1>1
<1>4. c \in Seq(Msg) /\ Len(c) = Len(a) - k /\ \A i \in 1..(Len(a) - k) : c[i] = a[k + i]
  BY <1>2
<1> HIDE DEF b, c
<1>5. Len(a) \in Nat /\ k \in Nat
  OBVIOUS
<1> DEFINE d == b \o c
<1>6. /\ d \in Seq(Msg) /\ Len(d) = Len(b) + Len(c)
      /\ \A i \in DOMAIN d : \/ i \in DOMAIN b /\ d[i] = b[i]
                             \/ /\ i - Len(b) \in DOMAIN c /\ i > Len(b) /\ i \in Nat
                                /\ d[i] = c[i - Len(b)]
  <2>1. b \in Seq(Msg) /\ c \in Seq(Msg)
    BY <1>3, <1>4
  <2> QED BY <2>1, JoinMessages
<1> HIDE DEF d
<1>7. Len(d) = Len(a) /\ DOMAIN d = 1..Len(a)
  BY <1>3, <1>4, <1>5, <1>6
<1>8. ASSUME NEW i \in 1..Len(a) PROVE d[i] = a[i]
  <2>1. CASE i \in DOMAIN b /\ d[i] = b[i]
    BY <1>3, <2>1
  <2>2. CASE i - k \in DOMAIN c /\ i \in Nat /\ d[i] = c[i - k]
    <3>1. i - k \in 1..(Len(a) - k) /\ k + (i - k) = i
      BY <1>4, <1>5, <2>2
    <3> QED BY <1>4, <2>2, <3>1
  <2> QED BY <1>3, <1>6, <1>7, <2>1, <2>2
<1>9. d = a
  BY <1>6, <1>7, <1>8, SeqEqual
<1> QED BY <1>9 DEF b, c, d

(* One message ahead of others.                                              *)
LEMMA PrependMessage ==
    ASSUME NEW a \in Seq(Msg), Len(a) = 1, NEW b \in Seq(Msg)
    PROVE  /\ a \o b \in Seq(Msg) /\ Len(a \o b) = 1 + Len(b) /\ Len(b) \in Nat
           /\ \A i \in DOMAIN (a \o b) :
                 \/ i = 1 /\ (a \o b)[i] = a[1]
                 \/ i - 1 \in DOMAIN b /\ i \in Nat /\ (a \o b)[i] = b[i - 1]
<1>1. DOMAIN a = {1} /\ Len(b) \in Nat
  OBVIOUS
<1> DEFINE c == a \o b
<1>2. /\ c \in Seq(Msg) /\ Len(c) = Len(a) + Len(b)
      /\ \A i \in DOMAIN c : \/ i \in DOMAIN a /\ c[i] = a[i]
                             \/ /\ i - Len(a) \in DOMAIN b /\ i > Len(a) /\ i \in Nat
                                /\ c[i] = b[i - Len(a)]
  BY JoinMessages
<1> HIDE DEF c
<1>3. /\ c \in Seq(Msg) /\ Len(c) = 1 + Len(b) /\ Len(b) \in Nat
      /\ \A i \in DOMAIN c : \/ i = 1 /\ c[i] = a[1]
                             \/ i - 1 \in DOMAIN b /\ i \in Nat /\ c[i] = b[i - 1]
  BY <1>1, <1>2
<1> QED BY <1>3 DEF c

(* Taking a frame from the wire takes it from the queue.                     *)
LEMMA HeadTaken ==
    ASSUME Typed, PipelineInOrder, n' = n, loop' = loop, upstream # <<>>, upstream' = Tail(upstream)
    PROVE  /\ Queue # <<>> /\ Queue' = Tail(Queue) /\ Head(Queue) = Head(upstream)
           /\ Head(Queue) \in 0..n
<1>0. n \in Nat /\ upstream \in Seq(Nat)
  BY FramesTyped DEF Typed, DatabaseTyped
<1>1. Append(upstream, n) # <<>> /\ Tail(Append(upstream, n)) = Append(Tail(upstream), n)
      /\ Head(Append(upstream, n)) = Head(upstream)
  BY <1>0, AppendTail
<1>2. Queue # <<>> /\ Queue' = Tail(Queue) /\ Head(Queue) = Head(upstream)
  BY <1>1 DEF Queue
<1>3. Queue \in Seq(Nat) /\ DOMAIN Queue = 1..Len(Queue) /\ \A i \in DOMAIN Queue : Queue[i] \in Nat
  BY PipelineTyped
<1>4. Head(Queue) = Queue[1] /\ 1 \in DOMAIN Queue
  BY <1>2, <1>3
<1>5. Queue[1] <= n /\ Queue[1] \in Nat
  BY <1>3, <1>4 DEF PipelineInOrder
<1> QED BY <1>0, <1>2, <1>4, <1>5

(* The database answers the head of the queue, or moves its output along.    *)
LEMMA DatabaseMovesPipeline ==
    ASSUME Typed, PipelineInOrder, DB
    PROVE  KindsStay /\ (StaysPut \/ \E t : Answers(t))
<1>0. n \in Nat
  BY FramesTyped DEF Typed
<1>1. UNCHANGED <<loopVars, channel, acked, relayVars>>
  BY DEF DB, Discard, AnswerSync, AnswerFlush, Answer, Fail, Send, Close, Database
<1>2. KindsStay /\ n' = n /\ loop' = loop
  BY <1>0, <1>1 DEF KindsStay, NextKind, Kind, loopVars, n
<1>3. upstream \in Seq(Nat) /\ buffered \in Seq(Msg) /\ socket \in Seq(Msg)
  BY DEF Typed, DatabaseTyped
<1>4. ASSUME upstream # <<>>, upstream' = Tail(upstream)
      PROVE  /\ Queue # <<>> /\ Queue' = Tail(Queue) /\ Head(Queue) = Head(upstream)
             /\ Head(Queue) \in 0..n
  BY <1>2, <1>4, HeadTaken
<1>5. \A tag \in {"C", "E", "N", "Z"}, m \in Nat :
          Message(tag, m) \in Msg /\ Message(tag, m).tag = tag /\ Message(tag, m).frame = m
  BY DEF Message, Msg
<1> DEFINE Reply(t, m) ==
        /\ t \in Seq(Msg)
        /\ \A i \in DOMAIN t : t[i].frame = m /\ (t[i].tag = "Z" => i = Len(t) /\ m \in SPs)
<1>6. \A tag \in {"C", "E", "N"}, m \in 0..n : Reply(<<Message(tag, m)>> \o Cycle(m), m)
  <2>1. SUFFICES ASSUME NEW tag \in {"C", "E", "N"}, NEW m \in 0..n
                 PROVE  Reply(<<Message(tag, m)>> \o Cycle(m), m)
    OBVIOUS
  <2>2. Message(tag, m) \in Msg /\ Message(tag, m).tag = tag /\ Message(tag, m).frame = m
        /\ Message("Z", m) \in Msg /\ Message("Z", m).tag = "Z" /\ Message("Z", m).frame = m
    BY <1>0, <1>5
  <2>3. CASE Kind(m) = "Query"
    <3> DEFINE a == <<Message(tag, m)>>  b == <<Message("Z", m)>>
    <3>1. Cycle(m) = b
      BY <2>3 DEF Cycle
    <3>2. m \in SPs
      BY <2>3 DEF SPs, SyncPoints
    <3>3. a \in Seq(Msg) /\ Len(a) = 1 /\ DOMAIN a = {1} /\ a[1].frame = m /\ a[1].tag # "Z"
      BY <2>2, SingleMessage
    <3>4. b \in Seq(Msg) /\ Len(b) = 1 /\ DOMAIN b = {1} /\ b[1].frame = m
      BY <2>2, SingleMessage
    <3> HIDE DEF a, b
    <3> DEFINE c == a \o b
    <3>5. /\ c \in Seq(Msg) /\ Len(c) = 1 + Len(b)
          /\ \A i \in DOMAIN c : \/ i = 1 /\ c[i] = a[1]
                                 \/ i - 1 \in DOMAIN b /\ i \in Nat /\ c[i] = b[i - 1]
      BY <3>3, <3>4, PrependMessage
    <3> HIDE DEF c
    <3>6. \A i \in DOMAIN c : (c[i] = a[1] \/ (c[i] = b[1] /\ i = Len(c)))
      BY <3>4, <3>5
    <3>7. Reply(c, m)
      BY <3>2, <3>3, <3>4, <3>5, <3>6
    <3> QED BY <3>1, <3>7 DEF a, c
  <2>4. CASE Kind(m) # "Query"
    <3> DEFINE a == <<Message(tag, m)>>
    <3>1. Cycle(m) = <<>>
      BY <2>4 DEF Cycle
    <3>2. a \in Seq(Msg) /\ Len(a) = 1 /\ DOMAIN a = {1} /\ a[1].frame = m /\ a[1].tag # "Z"
      BY <2>2, SingleMessage
    <3> HIDE DEF a
    <3>3. a \o <<>> = a
      BY <3>2
    <3>4. Reply(a, m)
      BY <3>2
    <3> QED BY <3>1, <3>3, <3>4 DEF a
  <2> QED BY <2>3, <2>4
<1>7. ASSUME NEW m \in 0..n, m = Head(upstream), upstream # <<>>, upstream' = Tail(upstream),
             NEW t, Reply(t, m), Line' = Line \o t,
             skipping /\ Kind(m) # "Sync" => t = <<>> /\ skipping'
      PROVE  Answers(t)
  BY <1>4, <1>7 DEF Answers
<1> HIDE DEF Reply
<1>8. ASSUME upstream # <<>> PROVE Head(upstream) \in 0..n
  <2>1. Queue[1] = Head(upstream) /\ 1 \in DOMAIN Queue
    <3>1. Queue = upstream \/ Queue = Append(upstream, n)
      BY DEF Queue
    <3> QED BY <1>0, <1>3, <1>8, <3>1
  <2> QED BY <1>0, <2>1, PipelineTyped DEF PipelineInOrder
<1>9. CASE Discard
  <2>1. Line' = Line \o <<>> /\ Line \in Seq(Msg)
    BY <1>9, PipelineTyped DEF Discard, Database, Line, dbVars
  <2>2. Reply(<<>>, Head(upstream))
    BY DEF Reply
  <2>3. upstream # <<>> /\ upstream' = Tail(upstream) /\ skipping'
    BY <1>9 DEF Discard, Database, dbVars
  <2> QED BY <1>2, <1>7, <1>8, <2>1, <2>2, <2>3
<1>10. CASE AnswerSync
  <2> DEFINE m == Head(upstream)
  <2>1. upstream # <<>> /\ upstream' = Tail(upstream) /\ Kind(m) = "Sync" /\ socket' = socket
        /\ buffered' = Append(buffered, Message("Z", m))
    BY <1>10 DEF AnswerSync, Database
  <2>2. m \in 0..n /\ m \in Nat /\ m \in SPs
    BY <1>0, <1>8, <2>1 DEF SPs, SyncPoints
  <2>3. Reply(<<Message("Z", m)>>, m)
    BY <1>5, <2>2 DEF Reply
  <2>4. Line' = Line \o <<Message("Z", m)>>
    BY <1>3, <1>5, <2>1, <2>2 DEF Line
  <2> HIDE DEF m
  <2> QED BY <1>2, <1>7, <2>1, <2>2, <2>3, <2>4 DEF m
<1>11. CASE AnswerFlush
  <2>1. upstream # <<>> /\ upstream' = Tail(upstream) /\ Line' = Line /\ ~skipping
    BY <1>11 DEF AnswerFlush, Database, Line
  <2>2. Reply(<<>>, Head(upstream)) /\ Line' = Line \o <<>>
    BY <2>1, PipelineTyped DEF Reply
  <2> QED BY <1>2, <1>7, <1>8, <2>1, <2>2
<1>12. CASE Answer
  <2> DEFINE m == Head(upstream)  c == <<Message("C", m)>>  z == Cycle(m)
             x == <<Message("N", m)>>
  <2>1. upstream # <<>> /\ upstream' = Tail(upstream) /\ ~skipping
    BY <1>12 DEF Answer, Database
  <2>2. m \in 0..n /\ m \in Nat
    BY <1>0, <1>8, <2>1
  <2>3. c \in Seq(Msg) /\ z \in Seq(Msg) /\ x \in Seq(Msg)
    BY <1>5, <2>2 DEF Cycle
  <2>4. Reply(c \o z, m)
    BY <1>6, <2>2
  <2>5. CASE buffered' = buffered \o c \o z /\ socket' = socket
    <3> HIDE DEF m, c, z
    <3>1. Line' = Line \o (c \o z)
      <4>1. socket \o ((buffered \o c) \o z) = (socket \o buffered) \o (c \o z)
        <5>1. (buffered \o c) \o z = buffered \o (c \o z) /\ c \o z \in Seq(Msg)
          BY <1>3, <2>3, JoinMessages, MessagesAssociate
        <5>2. (socket \o buffered) \o (c \o z) = socket \o (buffered \o (c \o z))
          BY <1>3, <5>1, MessagesAssociate
        <5> QED BY <5>1, <5>2
      <4> QED BY <2>5, <4>1 DEF Line
    <3> QED BY <1>2, <1>7, <2>1, <2>2, <2>4, <3>1 DEF m
  <2>6. CASE socket' = socket \o buffered \o x /\ buffered' = c \o z
    <3>1. Line' = Line \o (x \o (c \o z))
      <4> HIDE DEF m, c, z, x
      <4>1. c \o z \in Seq(Msg) /\ socket \o buffered \in Seq(Msg)
        BY <1>3, <2>3, JoinMessages
      <4>2. ((socket \o buffered) \o x) \o (c \o z) = (socket \o buffered) \o (x \o (c \o z))
        BY <2>3, <4>1, MessagesAssociate
      <4> QED BY <2>6, <4>2 DEF Line
    <3>2. Reply(x \o (c \o z), m)
      <4>1. Message("N", m).frame = m /\ Message("N", m).tag = "N" /\ Message("N", m) \in Msg
        BY <1>5, <2>2
      <4>2. Len(x) = 1 /\ DOMAIN x = {1} /\ x[1].frame = m /\ x[1].tag = "N"
        BY <4>1, SingleMessage
      <4> DEFINE y == c \o z
      <4> HIDE DEF m, c, z, x
      <4>3. y \in Seq(Msg) /\ Reply(y, m)
        BY <2>3, <2>4, JoinMessages
      <4> HIDE DEF y
      <4> DEFINE w == x \o y
      <4>4. w \in Seq(Msg) /\ Len(w) = 1 + Len(y) /\ Len(y) \in Nat
            /\ \A i \in DOMAIN w : \/ i = 1 /\ w[i] = x[1]
                                   \/ i - 1 \in DOMAIN y /\ i \in Nat /\ w[i] = y[i - 1]
        BY <2>3, <4>2, <4>3, PrependMessage
      <4> HIDE DEF w
      <4>5. Reply(w, m)
        BY <4>2, <4>3, <4>4 DEF Reply
      <4> QED BY <4>5 DEF y, w
    <3> HIDE DEF m, c, z, x
    <3> QED BY <1>2, <1>7, <2>1, <2>2, <3>1, <3>2 DEF m
  <2> HIDE DEF m, c, z, x
  <2> QED BY <1>12, <2>5, <2>6 DEF Answer, Database, m, c, z, x
<1>13. CASE Fail
  <2> DEFINE m == Head(upstream)  e == <<Message("E", m)>>  z == Cycle(m)
  <2>1. upstream # <<>> /\ upstream' = Tail(upstream) /\ ~skipping
        /\ socket' = socket \o buffered \o e /\ buffered' = z
    BY <1>13 DEF Fail, Database
  <2>2. m \in 0..n /\ m \in Nat
    BY <1>0, <1>8, <2>1
  <2>3. e \in Seq(Msg) /\ z \in Seq(Msg)
    BY <1>5, <2>2 DEF Cycle
  <2>4. Reply(e \o z, m)
    BY <1>6, <2>2
  <2> HIDE DEF m, e, z
  <2>5. Line' = Line \o (e \o z)
    <3>1. socket \o buffered \in Seq(Msg)
      BY <1>3, JoinMessages
    <3>2. ((socket \o buffered) \o e) \o z = (socket \o buffered) \o (e \o z)
      BY <2>3, <3>1, MessagesAssociate
    <3> QED BY <2>1, <3>2 DEF Line
  <2> QED BY <1>2, <1>7, <2>1, <2>2, <2>4, <2>5 DEF m
<1>14. CASE Send
  <2>1. PICK k \in 1..Len(buffered) :
            /\ socket' = socket \o SubSeq(buffered, 1, k)
            /\ buffered' = SubSeq(buffered, k + 1, Len(buffered))
    BY <1>14 DEF Send
  <2>2. SubSeq(buffered, 1, k) \o SubSeq(buffered, k + 1, Len(buffered)) = buffered
    BY <1>3, SplitMessages
  <2>3. SubSeq(buffered, 1, k) \in Seq(Msg) /\ SubSeq(buffered, k + 1, Len(buffered)) \in Seq(Msg)
    BY <1>3
  <2>4. Line' = socket \o (SubSeq(buffered, 1, k) \o SubSeq(buffered, k + 1, Len(buffered)))
    BY <1>3, <2>1, <2>3, MessagesAssociate DEF Line
  <2> QED BY <1>2, <1>14, <2>2, <2>4 DEF Send, StaysPut, Line, Queue
<1>15. CASE Close
  BY <1>2, <1>15 DEF Close, StaysPut, Line, Queue, dbVars
<1> QED BY <1>9, <1>10, <1>11, <1>12, <1>13, <1>14, <1>15 DEF DB

(* The order of the pipeline is kept, and what is cleared stays so.          *)
LEMMA PipelineKept ==
    ASSUME Typed, Turn, PipelineInOrder, Next
    PROVE  PipelineInOrder' /\ KindsStay /\ ClearStays
<1>1. KindsStay /\ (StaysPut \/ Queues \/ Drops \/ (\E t : Answers(t)) \/ Delivers)
  BY LoopMovesPipeline, DatabaseMovesPipeline, RelayMovesPipeline DEF Next
<1> QED BY <1>1, PutKeepsOrder, QueuesKeepsOrder, DropsKeepsOrder, AnswersKeepsOrder,
           DeliversKeepsOrder

-----------------------------------------------------------------------------
(* The counts.                                                              *)
Known(k) ==
    /\ n' \in Nat /\ n <= n' /\ n' \notin SPs /\ n' \notin Flushes
    /\ SPs' = IF k \in SyncPoints THEN SPs \union {n'} ELSE SPs
    /\ Flushes' = IF k = "Flush" THEN Flushes \union {n'} ELSE Flushes
Recount == \E k \in FrameKinds \ Refused : Count(k) /\ Known(k)
NoRecount == SPs' = SPs /\ Flushes' = Flushes /\ fwd' = fwd /\ overlapped' = overlapped

(* One frame more of kind k, in place of the last or behind it.              *)
LEMMA FrameKnown ==
    ASSUME Typed, NEW k \in FrameKinds, n' \in Nat, frames'[n'] = k, n' > 0,
           \/ n' = n + 1 /\ \A m \in 1..n : frames'[m] = frames[m]
           \/ n' = n /\ frames[n] \in Refused /\ \A m \in 1..n : m # n => frames'[m] = frames[m]
    PROVE  Known(k)
<1>0. n \in Nat
  BY FramesTyped DEF Typed
<1>1. \A m : Kind(m)' = NextKind(m)
  BY DEF Kind, NextKind
<1>2. \A m \in 0..n : m = n' \/ NextKind(m) = Kind(m)
  BY <1>0 DEF NextKind, Kind
<1>3. NextKind(n') = k
  BY DEF NextKind
<1>4. n' \in 0..n => Kind(n') \in Refused
  BY <1>0 DEF Kind
<1>5. 0..n' = 0..n \union {n'} /\ n <= n'
  BY <1>0
<1>6. n' \notin SPs /\ n' \notin Flushes
  BY <1>4 DEF SPs, Flushes, SyncPoints, Refused
<1>7. SPs' = {m \in 0..n' : NextKind(m) \in SyncPoints}
  BY <1>1 DEF SPs
<1>8. Flushes' = {m \in 0..n' : NextKind(m) = "Flush"}
  BY <1>1 DEF Flushes
<1>9. SPs' = IF k \in SyncPoints THEN SPs \union {n'} ELSE SPs
  <2>1. \A m : m \in SPs' <=> (m \in SPs \/ (m = n' /\ k \in SyncPoints))
    BY <1>2, <1>3, <1>5, <1>6, <1>7 DEF SPs
  <2> HIDE DEF SPs
  <2> QED BY <2>1
<1>10. Flushes' = IF k = "Flush" THEN Flushes \union {n'} ELSE Flushes
  <2>1. \A m : m \in Flushes' <=> (m \in Flushes \/ (m = n' /\ k = "Flush"))
    BY <1>2, <1>3, <1>5, <1>6, <1>8 DEF Flushes
  <2> HIDE DEF Flushes
  <2> QED BY <2>1
<1> QED BY <1>5, <1>6, <1>9, <1>10 DEF Known

(* A frame is counted when it is known to be forwarded, and only then.       *)
LEMMA FramesCounted ==
    ASSUME Typed, Turn, Next
    PROVE  NoRecount \/ Recount
<1>0. n \in Nat /\ n = Len(frames) /\ LoopTyped
  BY FramesTyped DEF Typed
<1>1. ASSUME UNCHANGED <<frames, fwd, overlapped>> PROVE NoRecount
  BY <1>1 DEF NoRecount, SPs, Flushes, Kind, n
<1>2. ASSUME NEW k \in FrameKinds, Read(k) PROVE Known(k)
  <2>1. n' = n + 1 /\ frames'[n + 1] = k /\ \A m \in 1..n : frames'[m] = frames[m]
    BY <1>0, <1>2, ReadTyped
  <2> QED BY <1>0, <2>1, FrameKnown
<1>3. ASSUME NEW k \in FrameKinds, Forward(k) PROVE Recount
  BY <1>2, <1>3 DEF Forward, Recount, Refused
<1>4. ASSUME NEW k \in Refused, Read(k), fwd' = fwd, overlapped' = overlapped PROVE NoRecount
  <2>1. k \in FrameKinds /\ k \notin SyncPoints /\ k # "Flush"
    BY DEF Refused, FrameKinds, SyncPoints
  <2> QED BY <1>2, <1>4, <2>1 DEF Known, NoRecount
<1>5. CASE Refuse \/ Hold
  BY <1>4, <1>5 DEF Refuse, Hold, Refused
<1>6. CASE Approved
  <2>1. /\ n' = n /\ n > 0 /\ frames[n] = "Paused" /\ frames'[n] = "Query"
        /\ \A m \in 1..n : m # n => frames'[m] = frames[m]
    <3>1. n \in 1..Len(frames) /\ frames \in Seq(FrameKinds) /\ "Query" \in FrameKinds
      BY <1>0, <1>6 DEF Approved, Turn, LoopKnows, LoopTyped, FrameKinds
    <3> QED BY <1>0, <1>6, <3>1, ExceptSeq DEF Approved, Turn, LoopKnows, n
  <2>2. "Query" \in FrameKinds \ Refused
    BY DEF FrameKinds, Refused
  <2>3. Known("Query")
    BY <1>0, <2>1, <2>2, FrameKnown DEF Refused
  <2> QED BY <1>6, <2>2, <2>3 DEF Approved, Recount
<1>7. CASE DB
  <2>1. UNCHANGED loopVars
    BY <1>7 DEF DB, Discard, AnswerSync, AnswerFlush, Answer, Fail, Send, Close, Database
  <2> QED BY <1>1, <2>1 DEF loopVars
<1>8. CASE RelayTask
  <2>1. UNCHANGED loopVars
    BY <1>8 DEF RelayTask, Settle, Proceed, TakeInjection, GiveUp, OrderBudgetSpent, Deliver,
         FinishCopy, Relayed, StartCopy, Truncate, UpstreamEnds, Stop
  <2> QED BY <1>1, <2>1 DEF loopVars
<1>9. CASE Write \/ Rejected \/ Abandoned \/ Resume \/ NoticeTimesOut \/ Session
  <2>1. UNCHANGED <<frames, fwd, overlapped>>
    BY <1>9 DEF Write, Rejected, Abandoned, Resume, NoticeTimesOut, Session, Unwritten,
         AnswerOnHandBack, LoopDropped, ClientEnds, DrainEnds, Abort, loopVars
  <2> QED BY <1>1, <2>1
<1> QED BY <1>3, <1>5, <1>6, <1>7, <1>8, <1>9 DEF Next, MessageLoop

(* The frames counted are among those read.                                  *)
LEMMA FramesFinite ==
    ASSUME Typed
    PROVE  /\ SPs \subseteq 0..n /\ IsFiniteSet(SPs)
           /\ Flushes \subseteq 0..n /\ IsFiniteSet(Flushes)
<1>1. IsFiniteSet(0..n)
  BY FramesTyped, FS_Interval DEF Typed
<1>2. SPs \subseteq 0..n /\ Flushes \subseteq 0..n
  BY DEF SPs, Flushes
<1> QED BY <1>1, <1>2, FS_Subset

(* What the client receives in a step: nothing, the head of the pipeline, or *)
(* the answer to the loop's last frame, which is ordered only if the counts  *)
(* of everything forwarded are covered.                                     *)
Quiet == client' = client /\ sync'.received = sync.received
Arrived == Relayed /\ socket # <<>> /\ Delivers /\ Head(Line) = Head(socket)
Written(ordered) ==
    /\ client' = Append(client, Refusal(n, ordered))
    /\ UNCHANGED <<frames, fwd>> /\ sync'.received = sync.received /\ StaysPut
    /\ n > 0 /\ frames[n] \in Refused
    /\ ordered => /\ Covers(sync, fwd.sync) /\ Covers(flush', fwd.flush)
                  /\ flush'.abandoned = flush.abandoned
                  /\ channel # <<>> \/ pending # <<>>

(* A step delivers nothing, a message of the pipeline, or a due refusal.     *)
LEMMA ClientSteps ==
    ASSUME Typed, Turn, Next
    PROVE  Quiet \/ Arrived \/ \E ordered \in BOOLEAN : Written(ordered)
<1>1. CASE MessageLoop
  BY <1>1 DEF MessageLoop, Forward, Write, Refuse, Hold, Approved, Rejected, Abandoned, Resume,
              NoticeTimesOut, relayVars, Quiet
<1>2. CASE DB
  <2>1. UNCHANGED relayVars
    BY <1>2 DEF DB, Discard, AnswerSync, AnswerFlush, Answer, Fail, Send, Close, Database
  <2> QED BY <2>1 DEF relayVars, Quiet
<1>3. CASE Unwritten \/ LoopDropped \/ ClientEnds \/ DrainEnds \/ Abort
  BY <1>3 DEF Unwritten, LoopDropped, ClientEnds, DrainEnds, Abort, relayVars, Quiet
<1>4. CASE AnswerOnHandBack
  <2>1. CASE client' = client
    BY <1>4, <2>1 DEF AnswerOnHandBack, Quiet
  <2>2. CASE client' = Append(client, Refusal(n, FALSE))
    <3>1. FALSE \in BOOLEAN
      OBVIOUS
    <3>2. UNCHANGED <<frames, fwd, sync, upstream, dbVars, socket>>
          /\ loop = "unwritten" /\ loop' = "over"
      BY <1>4 DEF AnswerOnHandBack
    <3>3. StaysPut
      BY <3>2 DEF StaysPut, Line, Queue, dbVars
    <3>4. n > 0 /\ frames[n] \in Refused
      BY <3>2 DEF Turn, LoopKnows
    <3>5. Written(FALSE)
      BY <2>2, <3>2, <3>3, <3>4 DEF Written
    <3> QED BY <3>1, <3>5
  <2> QED BY <1>4, <2>1, <2>2 DEF AnswerOnHandBack
<1>5. CASE RelayTask
  <2>0. UNCHANGED <<loopVars, upstream, dbVars>>
    BY <1>5 DEF RelayTask, Settle, Proceed, TakeInjection, GiveUp, OrderBudgetSpent, Deliver,
                FinishCopy, Relayed, StartCopy, Truncate, UpstreamEnds, Stop
  <2>1. ASSUME socket' = socket PROVE StaysPut /\ UNCHANGED <<frames, fwd>>
    BY <2>0, <2>1 DEF StaysPut, Line, Queue, loopVars, dbVars, n
  <2>2. ASSUME NEW r, Handed(r), NEW ordered \in BOOLEAN, NEW next,
               WriteAnswer(r, ordered, next), socket' = socket, sync'.received = sync.received,
               ordered => /\ Covers(sync, r.sync) /\ Covers(flush', r.flush)
                          /\ flush'.abandoned = flush.abandoned
                          /\ channel # <<>> \/ pending # <<>>
        PROVE  Quiet \/ \E o \in BOOLEAN : Written(o)
    <3>1. CASE client' = client
      BY <2>2, <3>1 DEF Quiet
    <3>2. CASE client' = Append(client, Refusal(r.frame, ordered))
      <4>1. Tagged(r) /\ n > 0 /\ frames[n] \in Refused
        BY <2>2, HandedIsDue
      <4>2. Written(ordered)
        BY <2>1, <2>2, <3>2, <4>1 DEF Written, Tagged
      <4> QED BY <4>2
    <3> QED BY <2>2, <3>1, <3>2 DEF WriteAnswer
  <2>3. ASSUME NEW q, NEW f, f = flush', WriteQueued(q, f), Running, relay # "copy",
               q = pending \/ q = channel, socket' = socket, sync' = sync,
               flush'.abandoned = flush.abandoned
        PROVE  Quiet \/ \E o \in BOOLEAN : Written(o)
    <3>1. CASE q # <<>> /\ Releasable(Head(q), f)
      <4>1. Handed(Head(q))
        BY <2>3, <3>1 DEF Handed
      <4>2. WriteAnswer(Head(q), TRUE, "fill")
        BY <2>3, <3>1 DEF WriteQueued
      <4>3. Covers(sync, Head(q).sync) /\ Covers(flush', Head(q).flush)
        BY <2>3, <3>1 DEF Releasable
      <4>4. TRUE \in BOOLEAN
        OBVIOUS
      <4> QED BY <2>2, <2>3, <3>1, <4>1, <4>2, <4>3, <4>4
    <3>2. CASE ~(q # <<>> /\ Releasable(Head(q), f))
      BY <2>3, <3>2 DEF WriteQueued, Quiet
    <3> QED BY <3>1, <3>2
  <2>4. CASE Settle
    <3>1. flush'.abandoned = flush.abandoned
      BY <2>4 DEF Settle, Typed, RelayTyped
    <3> QED BY <2>3, <2>4, <3>1 DEF Settle, Settling, Running
  <2>5. CASE Proceed
    <3>1. WriteQueued(pending, flush) /\ flush' = flush /\ relay = "top" /\ socket' = socket /\ sync' = sync
      BY <2>5 DEF Proceed
    <3> QED BY <2>3, <3>1 DEF Running
  <2>6. CASE TakeInjection
    <3>1. WriteQueued(channel, flush) /\ flush' = flush /\ relay = "fill" /\ socket' = socket /\ sync' = sync
      BY <2>6 DEF TakeInjection
    <3> QED BY <2>3, <3>1 DEF Running
  <2>7. CASE GiveUp \/ OrderBudgetSpent \/ (Stop /\ pending # <<>>)
    <3>1. /\ pending # <<>> /\ relay \in {"fill", "stopping"} /\ socket' = socket
          /\ \E next : WriteAnswer(Head(pending), FALSE, next)
      BY <2>7 DEF GiveUp, OrderBudgetSpent, Stop
    <3>2. sync'.received = sync.received
      BY <2>7 DEF GiveUp, OrderBudgetSpent, Stop, Typed, RelayTyped
    <3>3. Handed(Head(pending)) /\ FALSE \in BOOLEAN
      BY <3>1 DEF Handed, Running
    <3> QED BY <2>2, <3>1, <3>2, <3>3
  <2>8. CASE Stop /\ pending = <<>>
    BY <2>8 DEF Stop, Quiet
  <2>9. CASE StartCopy \/ Truncate \/ UpstreamEnds
    BY <2>9 DEF StartCopy, Truncate, UpstreamEnds, Quiet
  <2>10. CASE Deliver \/ FinishCopy
    <3>1. Relayed /\ socket # <<>>
      BY <2>10 DEF Deliver, FinishCopy, Turn, MidFrameStops
    <3>3. Delivers /\ Head(Line) = Head(socket)
      <4>1. socket \in Seq(Msg) /\ buffered \in Seq(Msg) /\ socket' = Tail(socket)
        BY <3>1 DEF Typed, DatabaseTyped, Relayed
      <4>2. Line # <<>> /\ Tail(socket) \o buffered = Tail(socket \o buffered)
            /\ Head(socket \o buffered) = Head(socket)
        BY <3>1, <4>1 DEF Line
      <4> QED BY <2>0, <4>1, <4>2 DEF Delivers, Line, Queue, loopVars, dbVars, n
    <3> QED BY <3>1, <3>3 DEF Arrived
  <2> QED BY <1>5, <2>4, <2>5, <2>6, <2>7, <2>8, <2>9, <2>10 DEF RelayTask
<1> QED BY <1>1, <1>2, <1>3, <1>4, <1>5 DEF Next, Session

(* What a step does to the barrier: it gives up on all that was forwarded,   *)
(* or writes nothing off.                                                   *)
GivesUp ==
    /\ forgiven' = n /\ n > 0 /\ frames[n] \in Refused
    /\ sync' = [sync EXCEPT !.abandoned = AtLeast(@, fwd.sync)]
    /\ flush' = [flush EXCEPT !.abandoned = AtLeast(@, fwd.flush)]
    /\ UNCHANGED <<frames, fwd>>
WritesNothingOff ==
    /\ forgiven' = forgiven
    /\ sync'.abandoned = sync.abandoned /\ flush'.abandoned = flush.abandoned
    /\ \/ flush'.received = flush.received
       \/ flush'.received <= fwd.flush /\ fwd' = fwd

(* A step writes off everything forwarded so far, or nothing.                *)
LEMMA BarrierSteps ==
    ASSUME Typed, Turn, fwd.covered <= fwd.flush, flush.received <= fwd.flush, Next
    PROVE  GivesUp \/ WritesNothingOff
<1>1. ASSUME UNCHANGED <<forgiven, sync, flush>> PROVE WritesNothingOff
  BY <1>1 DEF WritesNothingOff
<1>2. CASE MessageLoop
  <2>1. UNCHANGED relayVars
    BY <1>2 DEF MessageLoop, Forward, Write, Refuse, Hold, Approved, Rejected, Abandoned, Resume,
                NoticeTimesOut
  <2> QED BY <1>1, <2>1 DEF relayVars
<1>3. CASE DB
  <2>1. UNCHANGED relayVars
    BY <1>3 DEF DB, Discard, AnswerSync, AnswerFlush, Answer, Fail, Send, Close, Database
  <2> QED BY <1>1, <2>1 DEF relayVars
<1>4. CASE Session
  <2>1. UNCHANGED <<forgiven, sync, flush>>
    BY <1>4 DEF Session, Unwritten, LoopDropped, ClientEnds, DrainEnds, Abort, AnswerOnHandBack,
                relayVars
  <2> QED BY <1>1, <2>1
<1>5. CASE Settle
  <2>1. /\ forgiven' = forgiven /\ sync' = sync /\ fwd' = fwd
        /\ flush.received < fwd.flush
        /\ flush' = [flush EXCEPT !.received = @ + 1]
    BY <1>5 DEF Settle, Settling, loopVars
  <2> QED BY <2>1 DEF WritesNothingOff, Typed, LoopTyped, RelayTyped
<1>6. CASE GiveUp
  <2>1. Head(pending) \in Queued /\ Tagged(Head(pending)) /\ n > 0 /\ frames[n] \in Refused
    <3>1. Handed(Head(pending))
      BY <1>6 DEF GiveUp, Handed, Running
    <3> QED BY <3>1, HandedIsDue
  <2> QED BY <1>6, <2>1 DEF GiveUp, GivesUp, Tagged, loopVars
<1>7. CASE Deliver \/ FinishCopy
  <2>1. Relayed
    BY <1>7 DEF Deliver, FinishCopy
  <2>2. forgiven' = forgiven /\ fwd' = fwd
    BY <2>1 DEF Relayed, loopVars
  <2>3. sync'.abandoned = sync.abandoned /\ flush'.abandoned = flush.abandoned
    BY <2>1 DEF Relayed, Delivered, Typed, RelayTyped
  <2>4. flush'.received = flush.received \/ flush'.received <= fwd.flush
    BY <2>1 DEF Relayed, Delivered, AtLeast, Typed, RelayTyped
  <2> QED BY <2>2, <2>3, <2>4 DEF WritesNothingOff
<1>8. CASE Proceed \/ TakeInjection \/ OrderBudgetSpent \/ StartCopy \/ Truncate \/ UpstreamEnds
           \/ Stop
  <2>1. UNCHANGED <<forgiven, sync, flush>>
    BY <1>8 DEF Proceed, TakeInjection, OrderBudgetSpent, StartCopy, Truncate, UpstreamEnds, Stop
  <2> QED BY <1>1, <2>1
<1> QED BY <1>2, <1>3, <1>4, <1>5, <1>6, <1>7, <1>8 DEF Next, RelayTask

(* Every ReadyForQuery delivered clears one more sync point.                 *)
ClearSPs == {s \in SPs : Clear(s)}
Zs == {i \in DOMAIN client : client[i].tag = "Z"}

(* A ReadyForQuery delivered clears its sync point, which was not cleared.   *)
LEMMA ArrivalClears ==
    ASSUME Typed, PipelineInOrder, Delivers, NEW m, m = Head(Line).frame
    PROVE  /\ m \in 0..n /\ \A s \in Nat : s >= m => ~Clear(s)
           /\ Head(Line).tag = "Z" => m \in SPs /\ Clear(m)'
<1>1. /\ Len(Line) > 0 /\ 1 \in DOMAIN Line /\ Head(Line) = Line[1] /\ Queue' = Queue
      /\ \A i \in DOMAIN Line' : i + 1 \in DOMAIN Line /\ Line'[i] = Line[i + 1] /\ 1 < i + 1
  <2>1. Line \in Seq(Msg) /\ Line # <<>> /\ Line' = Tail(Line) /\ Queue' = Queue
    BY PipelineTyped DEF Delivers
  <2>2. Tail(Line) \in Seq(Msg) /\ Len(Tail(Line)) = Len(Line) - 1 /\ Len(Line) \in Nat
        /\ \A i \in 1..Len(Tail(Line)) : Tail(Line)[i] = Line[i + 1]
    BY <2>1, HeadTailProperties
  <2> QED BY <2>1, <2>2
<1>2. m \in Nat /\ m <= n /\ n \in Nat
  BY <1>1, PipelineTyped, FramesTyped DEF PipelineInOrder, Typed
<1>3. \A s \in Nat : s >= m => ~Clear(s)
  BY <1>1, <1>2 DEF Clear
<1>4. ASSUME Head(Line).tag = "Z" PROVE m \in SPs /\ Clear(m)'
  <2>1. m \in SPs
    BY <1>1, <1>4 DEF PipelineInOrder
  <2>2. \A i \in DOMAIN Line' : m < Line'[i].frame
    BY <1>1, <1>4 DEF PipelineInOrder
  <2>3. \A k \in DOMAIN Queue : m < Queue[k]
    BY <1>1 DEF PipelineInOrder
  <2> QED BY <1>1, <2>1, <2>2, <2>3 DEF Clear
<1> QED BY <1>2, <1>3, <1>4

(* What the ReadyForQuery count goes through in a step.                      *)
LEMMA ReadyCounted ==
    ASSUME Typed, Turn, Next
    PROVE  /\ Cardinality(Zs) \in Nat
           /\ \/ /\ Arrived /\ Head(Line).tag = "Z" /\ fwd' = fwd
                 /\ Cardinality(Zs') = Cardinality(Zs) + 1
                 /\ sync'.received = IF sync.received < fwd.sync THEN sync.received + 1
                                                                 ELSE sync.received
              \/ Cardinality(Zs') = Cardinality(Zs) /\ sync'.received = sync.received
<1> DEFINE last == Len(client) + 1
<1>1. client \in Seq(Msg \union Ref) /\ Len(client) \in Nat /\ Zs \subseteq 1..Len(client)
  BY DEF Typed, ClientTyped, Zs
<1>2. IsFiniteSet(Zs) /\ Cardinality(Zs) \in Nat /\ last \notin Zs
  <2>1. IsFiniteSet(1..Len(client))
    BY <1>1, FS_Interval
  <2>2. IsFiniteSet(Zs)
    BY <1>1, <2>1, FS_Subset
  <2>3. Cardinality(Zs) \in Nat
    BY <2>2, FS_CardinalityType
  <2>4. last \notin Zs
    BY <1>1
  <2> QED BY <2>2, <2>3, <2>4
<1>3. ASSUME NEW x \in Msg \union Ref, client' = Append(client, x)
      PROVE  Zs' = IF x.tag = "Z" THEN Zs \union {last} ELSE Zs
  <2>1. /\ DOMAIN client' = DOMAIN client \union {last} /\ client'[last] = x
        /\ \A i \in DOMAIN client : client'[i] = client[i]
    BY <1>1, <1>3
  <2>2. Zs' = {i \in DOMAIN client' : client'[i].tag = "Z"}
    BY DEF Zs
  <2>3. Zs = {i \in DOMAIN client : client[i].tag = "Z"}
    BY DEF Zs
  <2> HIDE DEF last
  <2> QED BY <1>2, <2>1, <2>2, <2>3
<1>4. CASE Arrived
  <2>1. Head(Line) = Head(socket) /\ Relayed /\ socket # <<>> /\ fwd' = fwd
    BY <1>4 DEF Arrived, Relayed, loopVars
  <2>2. Head(Line) \in Msg /\ client' = Append(client, Head(Line))
    BY <2>1 DEF Relayed, Typed, DatabaseTyped
  <2>3. CASE Head(Line).tag = "Z"
    <3>1. Zs' = Zs \union {last}
      BY <1>3, <2>2, <2>3
    <3>2. Cardinality(Zs') = Cardinality(Zs) + 1
      BY <1>2, <3>1, FS_AddElement
    <3>3. sync'.received = IF sync.received < fwd.sync THEN sync.received + 1 ELSE sync.received
      BY <2>1, <2>3 DEF Relayed, Delivered, Typed, RelayTyped
    <3> QED BY <1>2, <1>4, <2>1, <2>3, <3>2, <3>3
  <2>4. CASE Head(Line).tag # "Z"
    <3>1. Zs' = Zs
      BY <1>3, <2>2, <2>4
    <3>2. sync' = sync
      BY <2>1, <2>4 DEF Relayed, Delivered
    <3> QED BY <1>2, <3>1, <3>2
  <2> QED BY <2>3, <2>4
<1>5. CASE \E ordered \in BOOLEAN : Written(ordered)
  <2>1. PICK ordered \in BOOLEAN : Written(ordered)
    BY <1>5
  <2>2. Refusal(n, ordered) \in Ref /\ Refusal(n, ordered).tag # "Z"
    BY FramesTyped DEF Refusal, Ref, Typed, RelayTyped
  <2>3. Zs' = Zs /\ sync'.received = sync.received
    BY <1>3, <2>1, <2>2 DEF Written
  <2> QED BY <1>2, <2>3
<1>6. CASE Quiet
  <2>1. Zs' = Zs
    BY <1>6 DEF Zs, Quiet
  <2>2. sync'.received = sync.received
    BY <1>6 DEF Quiet
  <2> QED BY <1>2, <2>1, <2>2
<1> QED BY <1>4, <1>5, <1>6, ClientSteps

(* A set that grows by at most x has the same elements below x, and one more *)
(* in all if x is new.                                                      *)
LEMMA SameBelow ==
    ASSUME NEW S \in SUBSET Nat, NEW T, S \subseteq T, NEW x \in Nat, T \ S \subseteq {x},
           NEW m \in Nat, m <= x
    PROVE  \A s : (s \in T /\ s < m) <=> (s \in S /\ s < m)
<1>1. \A s : s \in T => s \in S \/ s = x
  OBVIOUS
<1>2. ~(x < m)
  OBVIOUS
<1>3. \A s : s \in S => s \in T
  OBVIOUS
<1> QED BY <1>1, <1>2, <1>3

(* A set with at most one new element has at most one element more.          *)
LEMMA OneMore ==
    ASSUME NEW S, IsFiniteSet(S), NEW x, x \notin S, NEW T, NEW P \in BOOLEAN,
           T = IF P THEN S \union {x} ELSE S
    PROVE  Cardinality(T) = Cardinality(S) + (IF P THEN 1 ELSE 0)
<1>1. Cardinality(S \union {x}) = Cardinality(S) + 1 /\ Cardinality(S) \in Nat
  BY FS_AddElement, FS_CardinalityType
<1>2. CASE P
  BY <1>1, <1>2
<1>3. CASE ~P
  BY <1>1, <1>3
<1> QED BY <1>2, <1>3

(* The counts of the loop and of both sides of the barrier stay true.        *)
LEMMA CountsKept ==
    ASSUME Typed, Turn, PipelineInOrder, Counted, Next
    PROVE  Counted'
<1>0. /\ n \in Nat /\ SPs \subseteq 0..n /\ IsFiniteSet(SPs)
      /\ Flushes \subseteq 0..n /\ IsFiniteSet(Flushes)
      /\ Cardinality(SPs) \in Nat /\ Cardinality(Flushes) \in Nat
      /\ forgiven \in Nat /\ forgiven <= n
      /\ fwd \in [sync : Nat, flush : Nat, covered : Nat]
      /\ sync \in [received : Nat, abandoned : Nat] /\ flush \in [received : Nat, abandoned : Nat]
  BY FramesTyped, FramesFinite, FS_CardinalityType
     DEF Typed, LoopTyped, RelayTyped, Turn, RefusalsInOrder
<1>1. PipelineInOrder' /\ KindsStay /\ ClearStays
  BY PipelineKept
<1>2. NoRecount \/ Recount
  BY FramesCounted
<1>3. /\ SPs \subseteq SPs' /\ Flushes \subseteq Flushes'
      /\ SPs' \ SPs \subseteq {n'} /\ Flushes' \ Flushes \subseteq {n'} /\ n <= n' /\ n' \in Nat
  BY <1>1, <1>2 DEF NoRecount, Recount, Known, KindsStay
<1>4. /\ fwd'.sync = Cardinality(SPs') /\ fwd'.flush = Cardinality(Flushes')
      /\ fwd'.covered <= fwd'.flush /\ fwd'.sync \in Nat /\ fwd'.flush \in Nat
      /\ fwd.flush <= fwd'.flush /\ fwd.sync <= fwd'.sync
  <2>1. CASE NoRecount
    BY <1>0, <2>1 DEF NoRecount, Counted
  <2>2. CASE Recount
    <3>1. PICK k \in FrameKinds \ Refused : Count(k) /\ Known(k)
      BY <2>2 DEF Recount
    <3>2. Cardinality(SPs') = Cardinality(SPs) + (IF k \in SyncPoints THEN 1 ELSE 0)
      BY <1>0, <3>1, OneMore DEF Known
    <3>3. Cardinality(Flushes') = Cardinality(Flushes) + (IF k = "Flush" THEN 1 ELSE 0)
      BY <1>0, <3>1, OneMore DEF Known
    <3>4. /\ fwd'.sync = fwd.sync + (IF k \in SyncPoints THEN 1 ELSE 0)
          /\ fwd'.flush = fwd.flush + (IF k = "Flush" THEN 1 ELSE 0)
          /\ fwd'.covered = IF k \in SyncPoints THEN fwd.flush ELSE fwd.covered
      BY <3>1 DEF Count
    <3>5. fwd.sync = Cardinality(SPs) /\ fwd.flush = Cardinality(Flushes) /\ fwd.covered <= fwd.flush
      BY DEF Counted
    <3>6. fwd.covered \in Nat
      BY <1>0
    <3> HIDE DEF Counted
    <3> QED BY <1>0, <3>2, <3>3, <3>4, <3>5, <3>6
  <2> QED BY <1>2, <2>1, <2>2
<1>5. fwd.sync = Cardinality(SPs) /\ fwd.flush = Cardinality(Flushes) /\ fwd.covered <= fwd.flush
      /\ flush.received <= fwd.flush /\ fwd.flush \in Nat /\ fwd.sync \in Nat
  BY <1>0 DEF Counted
<1>6. GivesUp \/ WritesNothingOff
  BY <1>5, BarrierSteps
<1>7. /\ sync'.abandoned = Cardinality({s \in SPs' : s < forgiven'})
      /\ flush'.abandoned = Cardinality({s \in Flushes' : s < forgiven'})
  <2>1. CASE WritesNothingOff
    <3>0. SPs \in SUBSET Nat /\ Flushes \in SUBSET Nat /\ forgiven <= n'
      BY <1>0, <1>3
    <3>1. {s \in SPs' : s < forgiven} = {s \in SPs : s < forgiven}
      <4>1. \A s : s \in SPs' /\ s < forgiven <=> s \in SPs /\ s < forgiven
        BY <1>0, <1>3, <3>0, SameBelow
      <4> QED BY <4>1
    <3>2. {s \in Flushes' : s < forgiven} = {s \in Flushes : s < forgiven}
      <4>1. \A s : s \in Flushes' /\ s < forgiven <=> s \in Flushes /\ s < forgiven
        BY <1>0, <1>3, <3>0, SameBelow
      <4> QED BY <4>1
    <3> QED BY <2>1, <3>1, <3>2 DEF WritesNothingOff, Counted
  <2>2. CASE GivesUp
    <3>1. n \notin SPs /\ n \notin Flushes
      BY <2>2 DEF GivesUp, SPs, Flushes, Kind, SyncPoints, Refused
    <3>2. SPs' = SPs /\ Flushes' = Flushes /\ forgiven' = n /\ fwd' = fwd
      BY <2>2 DEF GivesUp, SPs, Flushes, Kind, n
    <3>3. {s \in SPs : s < n} = SPs /\ {s \in Flushes : s < n} = Flushes
      <4>1. ASSUME NEW S, S \subseteq 0..n, n \notin S PROVE {s \in S : s < n} = S
        <5>1. \A s \in S : s < n
          BY <1>0, <4>1
        <5> QED BY <5>1
      <4> QED BY <1>0, <3>1, <4>1
    <3>4. sync.abandoned <= Cardinality(SPs) /\ flush.abandoned <= Cardinality(Flushes)
      <4>1. {s \in SPs : s < forgiven} \subseteq SPs /\ {s \in Flushes : s < forgiven} \subseteq Flushes
        OBVIOUS
      <4> QED BY <1>0, <4>1, FS_Subset DEF Counted
    <3>5. sync'.abandoned = fwd.sync /\ flush'.abandoned = fwd.flush
      BY <1>0, <1>5, <2>2, <3>4 DEF GivesUp, AtLeast
    <3> QED BY <1>5, <3>2, <3>3, <3>5
  <2> QED BY <1>6, <2>1, <2>2
<1>8. flush'.received <= fwd'.flush
  <2>1. CASE WritesNothingOff
    BY <1>0, <1>4, <1>5, <2>1 DEF WritesNothingOff
  <2>2. CASE GivesUp
    BY <1>0, <1>5, <2>2 DEF GivesUp
  <2> QED BY <1>6, <2>1, <2>2
<1>9. /\ ClearSPs \subseteq ClearSPs' /\ IsFiniteSet(ClearSPs')
      /\ IsFiniteSet(ClearSPs) /\ Cardinality(ClearSPs') \in Nat
      /\ Cardinality(ClearSPs) \in Nat /\ Cardinality(ClearSPs) <= Cardinality(ClearSPs')
  <2>1. ClearSPs \subseteq SPs /\ ClearSPs' \subseteq SPs' /\ SPs' \subseteq SPs \union {n'}
    BY <1>3 DEF ClearSPs
  <2>2. IsFiniteSet(SPs')
    BY <1>0, <2>1, FS_AddElement, FS_Subset
  <2>3. ASSUME NEW s \in ClearSPs PROVE s \in ClearSPs'
    <3>1. s \in SPs /\ Clear(s) /\ s \in 0..n /\ Kind(s) \notin Refused
      BY <1>0, <2>3 DEF ClearSPs, SPs, SyncPoints, Refused
    <3>2. Clear(s)' /\ s \in SPs'
      BY <1>1, <1>3, <3>1 DEF ClearStays
    <3> QED BY <3>2 DEF ClearSPs
  <2>4. IsFiniteSet(ClearSPs) /\ IsFiniteSet(ClearSPs')
    BY <1>0, <2>1, <2>2, FS_Subset
  <2> QED BY <2>3, <2>4, FS_Subset, FS_CardinalityType
<1>10. sync.received = Cardinality(Zs) /\ sync.received <= Cardinality(ClearSPs)
  BY DEF Counted, Zs, ClearSPs
<1>11. sync'.received = Cardinality(Zs') /\ sync'.received <= Cardinality(ClearSPs')
  <2>1. CASE /\ Arrived /\ Head(Line).tag = "Z" /\ fwd' = fwd
             /\ Cardinality(Zs') = Cardinality(Zs) + 1
             /\ sync'.received = IF sync.received < fwd.sync THEN sync.received + 1 ELSE sync.received
    <3> DEFINE m == Head(Line).frame
    <3>0. m \in 0..n /\ ~Clear(m) /\ m \in SPs
      BY <2>1, ArrivalClears DEF Arrived
    <3>1. PICK f : f = m
      OBVIOUS
    <3>2. f \in SPs /\ ~Clear(f) /\ Clear(f)'
      BY <2>1, <3>0, <3>1, ArrivalClears DEF Arrived
    <3> HIDE DEF m
    <3>3. f \notin ClearSPs /\ f \in ClearSPs'
      BY <1>3, <3>2 DEF ClearSPs
    <3>4. Cardinality(ClearSPs \union {f}) = Cardinality(ClearSPs) + 1 /\ IsFiniteSet(ClearSPs \union {f})
      BY <1>9, <3>3, FS_AddElement
    <3>5. Cardinality(ClearSPs) + 1 <= Cardinality(ClearSPs')
      BY <1>9, <3>3, <3>4, FS_Subset
    <3>6. Cardinality(ClearSPs) + 1 <= Cardinality(SPs)
      <4>1. ClearSPs \union {f} \subseteq SPs
        BY <3>2 DEF ClearSPs
      <4> QED BY <1>0, <3>4, <4>1, FS_Subset
    <3> QED BY <1>0, <1>5, <1>9, <1>10, <2>1, <3>5, <3>6
  <2>2. CASE Cardinality(Zs') = Cardinality(Zs) /\ sync'.received = sync.received
    BY <1>0, <1>9, <1>10, <2>2
  <2> QED BY <2>1, <2>2, ReadyCounted
<1> QED BY <1>4, <1>7, <1>8, <1>11 DEF Counted, Zs, ClearSPs

-----------------------------------------------------------------------------
(* The order of refusals and answers, from what an ordered refusal knew when *)
(* it was written: that nothing up to its frame was left to come.            *)
Due(kinds) == \A s \in forgiven .. (n - 1) : Kind(s) \in kinds => Clear(s)

(* Whatever an ordered refusal found cleared stays in front of it.           *)
LEMMA OrderKept ==
    ASSUME Typed, Turn, PipelineInOrder, Next,
           NEW kinds \in SUBSET (FrameKinds \ Refused), Kept(kinds),
           Written(TRUE) => Due(kinds)
    PROVE  Kept(kinds)'
<1> DEFINE last == Len(client) + 1
<1>0. n \in Nat /\ n' \in Nat /\ n <= n' /\ forgiven \in Nat
      /\ client \in Seq(Msg \union Ref) /\ Len(client) \in Nat
  BY FramesTyped, PipelineKept DEF KindsStay, Typed, RelayTyped, ClientTyped
<1>1. \A s : Kind(s)' = NextKind(s)
  BY DEF Kind, NextKind
<1>2. \A s \in 0..(n - 1) : NextKind(s) = Kind(s)
  BY <1>0, PipelineKept DEF KindsStay
<1>3. \A s \in 0..(n - 1) : Clear(s) => Clear(s)'
  BY <1>0, PipelineKept DEF ClearStays
<1>4. \A i \in Refusals : client[i].frame \in 1..n /\ client[i].forgiven \in Nat
  <2>1. \A i \in Refusals : client[i] \in Ref
    BY <1>0 DEF Refusals, Msg, Ref
  <2> QED BY <2>1 DEF Ref, Turn, RefusalsInOrder
<1>5. \A j \in DOMAIN client \ Refusals : client[j].frame \in Nat
  BY <1>0 DEF Refusals, Msg, Ref
<1>6. \A i \in Refusals : client[i].ordered =>
          \A s \in client[i].forgiven .. (client[i].frame - 1) : Kind(s) \in kinds =>
              Clear(s) /\ Clear(s)'
  <2>1. \A i \in Refusals : \A s \in client[i].forgiven .. (client[i].frame - 1) : s \in 0..(n - 1)
    BY <1>0, <1>4
  <2> QED BY <1>3, <2>1 DEF Kept
<1>7. \A i \in Refusals : \A s \in Nat : s <= client[i].frame - 1 => NextKind(s) = Kind(s)
  BY <1>0, <1>2, <1>4
<1>8. ASSUME NEW i \in Refusals, NEW j \in DOMAIN client \ Refusals, i < j, client[i].ordered,
             client[j].frame >= client[i].forgiven
      PROVE  \A s \in client[j].frame .. (client[i].frame - 1) : Kind(s) \notin kinds
  BY <1>8 DEF Kept, Overtaken
<1>9. CASE Quiet
  <2>1. client' = client /\ Refusals' = Refusals
    BY <1>9, NothingArrives DEF Quiet
  <2>2. ~Overtaken(kinds)'
    BY <1>1, <1>4, <1>5, <1>7, <1>8, <2>1 DEF Overtaken
  <2>3. \A i \in Refusals : client[i].ordered =>
          \A s \in client[i].forgiven .. (client[i].frame - 1) : NextKind(s) \in kinds => Clear(s)'
    BY <1>4, <1>6, <1>7
  <2> QED BY <1>1, <2>1, <2>2, <2>3 DEF Kept
<1>10. ASSUME NEW o \in BOOLEAN, Written(o) PROVE Kept(kinds)'
  <2> DEFINE x == Refusal(n, o)
  <2>1. x \in Ref /\ x.frame = n /\ x.forgiven = forgiven /\ x.ordered = o
    BY <1>0 DEF Refusal, Ref
  <2>2. client' = Append(client, x) /\ n' = n
    BY <1>10 DEF Written, n
  <2> HIDE DEF x
  <2>3. /\ Refusals' = Refusals \union {last}
        /\ \A i \in Refusals : client'[i] = client[i] /\ i < last
        /\ client'[last] = x
    BY <2>1, <2>2, RefusalArrives
  <2>4. DOMAIN client' = DOMAIN client \union {last} /\ \A j \in DOMAIN client : client'[j] = client[j] /\ j < last
    BY <1>0, <2>2
  <2>5. DOMAIN client' \ Refusals' \subseteq DOMAIN client \ Refusals
    BY <2>3, <2>4
  <2>6. \A i, j : i \in Refusals' /\ j \in DOMAIN client' \ Refusals' /\ i < j =>
            i \in Refusals /\ client'[i] = client[i] /\ client'[j] = client[j]
    <3>1. \A j \in DOMAIN client : j \in Nat
      BY <1>0
    <3> QED BY <1>0, <2>3, <2>4, <2>5, <3>1
  <2>7. ~Overtaken(kinds)'
    BY <1>1, <1>4, <1>5, <1>7, <1>8, <2>5, <2>6 DEF Overtaken
  <2>8. ASSUME NEW i \in Refusals', client'[i].ordered
        PROVE  \A s \in client'[i].forgiven .. (client'[i].frame - 1) : NextKind(s) \in kinds => Clear(s)'
    <3>1. CASE i \in Refusals
      BY <1>4, <1>6, <1>7, <2>3, <2>8, <3>1
    <3>2. CASE i = last
      <4>1. o
        BY <2>1, <2>3, <2>8, <3>2
      <4>2. Written(TRUE)
        BY <1>10, <4>1
      <4>3. \A s \in forgiven .. (n - 1) : Kind(s) \in kinds => Clear(s)
        BY <4>2 DEF Due
      <4>4. \A s \in forgiven .. (n - 1) : s \in 0..(n - 1)
        BY <1>0
      <4> QED BY <1>2, <1>3, <2>1, <2>3, <3>2, <4>3, <4>4
    <3> QED BY <2>3, <3>1, <3>2
  <2> QED BY <1>1, <2>7, <2>8 DEF Kept
<1>11. CASE Arrived
  <2> DEFINE x == Head(Line)
  <2>1. x \in Msg /\ client' = Append(client, x)
    BY <1>11 DEF Arrived, Relayed, Typed, DatabaseTyped
  <2>2. x.frame \in 0..n /\ \A s \in Nat : s >= x.frame => ~Clear(s)
    BY <1>11, ArrivalClears DEF Arrived
  <2> HIDE DEF x
  <2>3. Refusals' = Refusals /\ \A i \in Refusals : client'[i] = client[i]
    BY <2>1, MessageArrives
  <2>4. DOMAIN client' = DOMAIN client \union {last} /\ client'[last] = x
        /\ \A j \in DOMAIN client : client'[j] = client[j]
    BY <1>0, <2>1
  <2>5. ASSUME NEW i \in Refusals, NEW j \in DOMAIN client' \ Refusals, i < j, client'[i].ordered,
               client'[j].frame >= client'[i].forgiven,
               NEW s \in client'[j].frame .. (client'[i].frame - 1), NextKind(s) \in kinds
        PROVE  FALSE
    <3>1. client'[i] = client[i]
      BY <2>3
    <3>2. CASE j \in DOMAIN client
      <4>1. client'[j] = client[j] /\ s \in Nat
        BY <1>4, <1>5, <2>4, <3>2, <2>5
      <4>2. NextKind(s) = Kind(s)
        BY <1>4, <1>5, <1>7, <2>5, <3>1, <3>2, <4>1
      <4> QED BY <1>8, <2>5, <3>1, <3>2, <4>1, <4>2
    <3>3. CASE j = last
      <4>1. s \in Nat /\ s >= x.frame /\ s >= client[i].forgiven /\ s <= client[i].frame - 1
        BY <1>4, <2>2, <2>4, <2>5, <3>1, <3>3
      <4>2. NextKind(s) = Kind(s)
        BY <1>7, <4>1
      <4>3. s \in client[i].forgiven .. (client[i].frame - 1)
        BY <1>4, <4>1
      <4>4. Clear(s)
        BY <1>6, <2>5, <3>1, <4>2, <4>3
      <4> QED BY <2>2, <4>1, <4>4
    <3> QED BY <2>4, <3>2, <3>3
  <2>6. ~Overtaken(kinds)'
    BY <1>1, <2>3, <2>5 DEF Overtaken
  <2>7. \A i \in Refusals : client[i].ordered =>
          \A s \in client[i].forgiven .. (client[i].frame - 1) : NextKind(s) \in kinds => Clear(s)'
    BY <1>4, <1>6, <1>7
  <2> QED BY <1>1, <2>3, <2>6, <2>7 DEF Kept
<1> QED BY <1>9, <1>10, <1>11, ClientSteps

(* A part as large as the whole is the whole.                                *)
LEMMA AllOfThem ==
    ASSUME NEW S, IsFiniteSet(S), NEW T \in SUBSET S, Cardinality(T) >= Cardinality(S)
    PROVE  T = S
<1>1. Cardinality(T) <= Cardinality(S) /\ Cardinality(T) \in Nat /\ Cardinality(S) \in Nat
  BY FS_Subset, FS_CardinalityType
<1>2. Cardinality(T) = Cardinality(S)
  BY <1>1
<1> QED BY <1>2, FS_Subset

(* The sync tag: a ReadyForQuery has been counted for each sync point, or    *)
(* the refusals before gave up on all of them.                              *)
LEMMA SyncDue ==
    ASSUME Typed, PipelineInOrder, Counted, Written(TRUE)
    PROVE  Due(SyncPoints)
<1>1. /\ n \in Nat /\ SPs \subseteq 0..n /\ IsFiniteSet(SPs) /\ Cardinality(SPs) \in Nat
      /\ sync.received \in Nat /\ sync.abandoned \in Nat /\ forgiven \in Nat
  BY FramesTyped, FramesFinite, FS_CardinalityType DEF Typed, RelayTyped
<1>2. \A s \in forgiven .. (n - 1) : Kind(s) \in SyncPoints => s \in SPs /\ ~(s < forgiven)
  BY <1>1 DEF SPs
<1>3. CASE sync.received >= fwd.sync
  <2>1. {s \in SPs : Clear(s)} \in SUBSET SPs /\ Cardinality({s \in SPs : Clear(s)}) \in Nat
    BY <1>1, FS_Subset, FS_CardinalityType
  <2>2. Cardinality({s \in SPs : Clear(s)}) >= Cardinality(SPs)
    BY <1>1, <1>3, <2>1 DEF Counted
  <2>3. {s \in SPs : Clear(s)} = SPs
    BY <1>1, <2>1, <2>2, AllOfThem
  <2> QED BY <1>2, <2>3 DEF Due
<1>4. CASE sync.abandoned >= fwd.sync
  <2>1. Cardinality({s \in SPs : s < forgiven}) >= Cardinality(SPs)
    BY <1>1, <1>4 DEF Counted
  <2>2. {s \in SPs : s < forgiven} = SPs
    BY <1>1, <2>1, AllOfThem
  <2> QED BY <1>2, <2>2 DEF Due
<1>5. Covers(sync, fwd.sync)
  BY DEF Written
<1> QED BY <1>3, <1>4, <1>5 DEF Covers

(* The sync side keeps the order of refusals and request cycles.             *)
LEMMA SyncOrderKept ==
    ASSUME Typed, Turn, PipelineInOrder, Counted, Kept(SyncPoints), Next
    PROVE  Kept(SyncPoints)'
<1>1. SyncPoints \in SUBSET (FrameKinds \ Refused)
  BY DEF SyncPoints, FrameKinds, Refused
<1> QED BY <1>1, OrderKept, SyncDue

-----------------------------------------------------------------------------
(* The flags are flags.                                                      *)
LEMMA BooleansKept ==
    ASSUME Booleans, Next
    PROVE  Booleans'
<1> USE DEF Booleans
<1>1. \A b : b = TRUE \/ b = FALSE => b \in BOOLEAN
  OBVIOUS
<1>2. CASE MessageLoop
  <2>1. UNCHANGED <<flushing, skipping, closed, fresh, midFrame>>
    BY <1>2 DEF MessageLoop, Forward, Write, Refuse, Hold, Approved, Rejected, Abandoned, Resume,
                NoticeTimesOut, dbVars, relayVars
  <2>2. acked' = acked \/ acked' = FALSE
    BY <1>2, Zenon DEF MessageLoop, Forward, Write, Refuse, Hold, Approved, Rejected, Abandoned,
                Resume, NoticeTimesOut, Inject
  <2>3. overlapped' \in BOOLEAN
    <3>1. overlapped' = overlapped \/ \E k : Count(k)
      BY <1>2 DEF MessageLoop, Forward, Write, Refuse, Hold, Approved, Rejected, Abandoned,
                Resume, NoticeTimesOut
    <3>2. ASSUME NEW k, Count(k) PROVE overlapped' \in BOOLEAN
      BY <3>2, Zenon DEF Count
    <3> QED BY <3>1, <3>2
  <2> QED BY <1>1, <2>1, <2>2, <2>3, Zenon
<1>3. CASE Session
  BY <1>3, Zenon DEF Session, Unwritten, LoopDropped, ClientEnds, DrainEnds, Abort,
                AnswerOnHandBack, dbVars, relayVars, loopVars
<1>4. CASE DB
  <2>1. UNCHANGED <<acked, overlapped, fresh, midFrame>>
    BY <1>4 DEF DB, Discard, AnswerSync, AnswerFlush, Answer, Fail, Send, Close, Database,
                loopVars, relayVars
  <2>2. closed' = closed \/ closed' = TRUE
    BY <1>4, Zenon DEF DB, Discard, AnswerSync, AnswerFlush, Answer, Fail, Send, Close, Database
  <2>3. flushing' = flushing \/ flushing' = TRUE \/ flushing' = (buffered # <<>>)
        \/ flushing' = (Kind(Head(upstream)) = "Query")
        \/ \E k : flushing' = (k < Len(buffered))
    BY <1>4, Zenon DEF DB, Discard, AnswerSync, AnswerFlush, Answer, Fail, Send, Close, Database, dbVars
  <2>4. skipping' = skipping \/ skipping' = FALSE \/ skipping' = (Kind(Head(upstream)) = "Execute")
    BY <1>4, Zenon DEF DB, Discard, AnswerSync, AnswerFlush, Answer, Fail, Send, Close, Database, dbVars
  <2>5. flushing' \in BOOLEAN
    <3>1. ASSUME NEW k, flushing' = (k < Len(buffered)) PROVE flushing' \in BOOLEAN
      BY <3>1, SMT
    <3> QED BY <2>3, <3>1, Zenon
  <2>6. skipping' \in BOOLEAN
    BY <2>4, Zenon
  <2>7. closed' \in BOOLEAN
    BY <2>2, Zenon
  <2> QED BY <2>1, <2>5, <2>6, <2>7, Zenon
<1>5. CASE RelayTask
  <2>1. UNCHANGED <<overlapped, flushing, skipping, closed>>
    BY <1>5 DEF RelayTask, Settle, Proceed, TakeInjection, GiveUp, OrderBudgetSpent, Deliver,
         FinishCopy, Relayed, StartCopy, Truncate, UpstreamEnds, Stop, loopVars, dbVars
  <2>2. acked' = acked \/ acked' = TRUE
    BY <1>5, Zenon DEF RelayTask, Settle, Proceed, TakeInjection, GiveUp, OrderBudgetSpent,
         Deliver, FinishCopy, Relayed, StartCopy, Truncate, UpstreamEnds, Stop, WriteQueued,
         WriteAnswer
  <2>3. midFrame' = midFrame \/ midFrame' = TRUE \/ midFrame' = FALSE
    BY <1>5, Zenon DEF RelayTask, Settle, Proceed, TakeInjection, GiveUp, OrderBudgetSpent,
         Deliver, FinishCopy, Relayed, StartCopy, Truncate, UpstreamEnds, Stop, WriteQueued,
         WriteAnswer
  <2>4. fresh' = fresh \/ fresh' = FALSE \/ fresh' = (Head(socket).tag # "Z")
    BY <1>5, Zenon DEF RelayTask, Settle, Proceed, TakeInjection, GiveUp, OrderBudgetSpent,
         Deliver, FinishCopy, Relayed, Delivered, StartCopy, Truncate, UpstreamEnds, Stop
  <2>5. fresh' \in BOOLEAN
    BY <2>4, Zenon
  <2>6. acked' \in BOOLEAN /\ midFrame' \in BOOLEAN
    BY <1>1, <2>2, <2>3, Zenon
  <2> QED BY <2>1, <2>5, <2>6, Zenon
<1> QED BY <1>2, <1>3, <1>4, <1>5 DEF Next

-----------------------------------------------------------------------------
(* At the start nothing has been asked, refused or delivered.                *)
LEMMA TurnInit == Init => Booleans /\ Turn
<1> SUFFICES ASSUME Init PROVE Booleans /\ Turn
  OBVIOUS
<1>1. frames = <<>> /\ n = 0 /\ client = <<>> /\ channel = <<>> /\ pending = <<>>
      /\ relay = "top" /\ loop = "reading" /\ forgiven = 0
  BY DEF Init, n
<1>2. Refusals = {} /\ midFrame = FALSE
  BY <1>1 DEF Init, Refusals
<1>3. Booleans
  <2>1. acked = FALSE /\ overlapped = FALSE /\ flushing = FALSE /\ skipping = FALSE
        /\ closed = FALSE /\ fresh = FALSE /\ midFrame = FALSE
    BY Zenon DEF Init
  <2> QED BY <2>1, Zenon DEF Booleans
<1>4. OneOnItsWay
  BY <1>1 DEF OneOnItsWay
<1>5. LoopKnows
  BY <1>1 DEF LoopKnows
<1>6. RefusalsInOrder /\ MidFrameStops
  BY <1>1, <1>2 DEF RefusalsInOrder, MidFrameStops
<1> QED BY <1>3, <1>4, <1>5, <1>6 DEF Turn

(* The startup is the one frame, queued and unanswered.                      *)
LEMMA PipelineInit == Init => PipelineInOrder /\ Counted /\ \A kinds : Kept(kinds)
<1> SUFFICES ASSUME Init PROVE PipelineInOrder /\ Counted /\ \A kinds : Kept(kinds)
  OBVIOUS
<1>1. frames = <<>> /\ n = 0 /\ client = <<>> /\ Kind(0) = "Sync" /\ forgiven = 0
  BY DEF Init, n, Kind
<1>2. SPs = {0} /\ Flushes = {}
  <2>1. 0..n = {0}
    BY <1>1
  <2> QED BY <1>1, <2>1 DEF SPs, Flushes, SyncPoints
<1>3. /\ Line = <<>> /\ Queue = <<0>> /\ ~skipping
      /\ DOMAIN Line = {} /\ DOMAIN Queue = {1} /\ Queue[1] = 0
  BY DEF Init, Line, Queue
<1>4. PipelineInOrder
  BY <1>1, <1>2, <1>3 DEF PipelineInOrder, Refused
<1>5. Refusals = {} /\ \A kinds : Kept(kinds)
  BY <1>1 DEF Refusals, Kept, Overtaken
<1>6. ~Clear(0)
  BY <1>3 DEF Clear, Doomed
<1>7. Cardinality({}) = 0 /\ Cardinality(SPs) = 1
  BY <1>2, FS_EmptySet, FS_Singleton
<1>8. {s \in SPs : s < forgiven} = {} /\ {s \in Flushes : s < forgiven} = {}
      /\ {i \in DOMAIN client : client[i].tag = "Z"} = {} /\ {s \in SPs : Clear(s)} = {}
  BY <1>1, <1>2, <1>6
<1>9. fwd = [sync |-> 1, flush |-> 0, covered |-> 0]
      /\ sync = [received |-> 0, abandoned |-> 0] /\ flush = [received |-> 0, abandoned |-> 0]
  BY DEF Init, Fresh
<1>10. Counted
  <2>1. Cardinality({s \in SPs : s < forgiven}) = 0 /\ Cardinality({s \in Flushes : s < forgiven}) = 0
    BY <1>7, <1>8, Zenon
  <2>2. Cardinality({i \in DOMAIN client : client[i].tag = "Z"}) = 0
        /\ Cardinality({s \in SPs : Clear(s)}) = 0
    BY <1>7, <1>8, Zenon
  <2>3. Cardinality(Flushes) = 0
    BY <1>2, <1>7
  <2> QED BY <1>7, <1>9, <2>1, <2>2, <2>3 DEF Counted
<1> QED BY <1>4, <1>5, <1>10

(* Every step keeps the invariant of the session.                            *)
LEMMA OrderedStep == Ordered /\ [Next]_vars => Ordered'
<1> SUFFICES ASSUME Ordered, [Next]_vars PROVE Ordered'
  OBVIOUS
<1> USE DEF Ordered
<1>1. CASE Next
  <2>1. Typed'
    BY <1>1, LoopKeepsTypes, DatabaseKeepsTypes, RelayKeepsTypes DEF Next, Turn
  <2>2. Turn'
    BY <1>1, LoopKeepsTurn, DatabaseKeepsTurn, RelayKeepsTurn DEF Next
  <2> QED BY <1>1, <2>1, <2>2, BooleansKept, PipelineKept, CountsKept, SyncOrderKept
<1>2. CASE UNCHANGED vars
  <2>1. UNCHANGED <<work, frames, loop, fwd, overlapped, channel, acked, upstream, buffered,
                    flushing, skipping, socket, closed, relay, pending, sync, flush, fresh,
                    lastTag, client, midFrame, forgiven>>
    BY <1>2 DEF vars, loopVars, dbVars, relayVars
  <2>2. Queue' = Queue /\ Line' = Line /\ SPs' = SPs /\ Flushes' = Flushes /\ n' = n
        /\ Refusals' = Refusals /\ (\A m : Kind(m)' = Kind(m)) /\ (\A m : Answered(m)' <=> Answered(m))
    BY <2>1 DEF Queue, Line, SPs, Flushes, Kind, n, Refusals, Answered
  <2>3. Typed'
    BY <2>1, <2>2 DEF Typed, LoopTyped, InjectionTyped, DatabaseTyped, RelayTyped, ClientTyped
  <2>4. Booleans'
    BY <2>1 DEF Booleans
  <2>5. OneOnItsWay' /\ LoopKnows' /\ RefusalsInOrder' /\ MidFrameStops'
    BY <2>1, <2>2 DEF Turn, OneOnItsWay, LoopKnows, RefusalsInOrder, MidFrameStops, Tagged,
                      Running, Stopped
  <2>6. PipelineInOrder'
    BY <2>1, <2>2 DEF PipelineInOrder, Kind
  <2>7. \A s : Clear(s)' <=> Clear(s)
    BY <2>1, <2>2 DEF Clear, Doomed, Kind
  <2>8. Counted'
    BY <2>1, <2>2, <2>7 DEF Counted
  <2>9. Kept(SyncPoints)'
    BY <2>1, <2>2, <2>7 DEF Kept, Overtaken
  <2> QED BY <2>3, <2>4, <2>5, <2>6, <2>8, <2>9 DEF Turn
<1> QED BY <1>1, <1>2

(* A sequence is one over any set that holds its elements.                   *)
LEMMA SequenceOver ==
    ASSUME NEW S, NEW T, NEW q \in Seq(S), \A i \in 1..Len(q) : q[i] \in T
    PROVE  q \in Seq(T)
<1>1. Len(q) \in Nat /\ DOMAIN q = 1..Len(q) /\ q = [i \in 1..Len(q) |-> q[i]]
  OBVIOUS
<1>2. q \in [1..Len(q) -> T]
  BY <1>1
<1> QED BY <1>1, <1>2, SeqDef

(* The invariant of the session without the flush side: types, the turn of   *)
(* each refusal, the pipeline's order, and counts that are true.            *)
THEOREM OrderedInvariant == Spec => []Ordered
<1>1. Init => Ordered
  BY TypedInit, TurnInit, PipelineInit DEF Ordered
<1> QED BY <1>1, OrderedStep, PTL DEF Spec

(* Every variable of the session keeps its type, the channel and the relay   *)
(* hold at most one injection, and no frame beyond the client's bound exists.*)
THEOREM TypeCorrect == Spec => []TypeOK
<1>1. Ordered => TypeOK
  <2> SUFFICES ASSUME Ordered PROVE TypeOK
    OBVIOUS
  <2> USE DEF Ordered, Typed
  <2>0. n \in Nat /\ n = Len(frames) /\ work.bound \in Nat
    BY FramesTyped
  <2>1. /\ frames \in Seq(FrameKinds) /\ Len(frames) <= work.bound
        /\ loop \in {"reading", "forwarding", "held", "awaiting", "notice", "unwritten",
                     "draining", "over"}
        /\ fwd \in [sync : Nat, flush : Nat, covered : Nat]
    BY <2>0 DEF LoopTyped
  <2>2. /\ channel \in Seq([frame : Nat, sync : Nat, flush : Nat, notice : BOOLEAN])
        /\ pending \in Seq([frame : Nat, sync : Nat, flush : Nat, notice : BOOLEAN])
        /\ Len(channel) <= 1 /\ Len(pending) <= 1
    BY DEF InjectionTyped, Queued, Turn, OneOnItsWay
  <2>3. upstream \in Seq(0..work.bound)
    <3>1. upstream \in Seq(Nat)
      BY DEF DatabaseTyped
    <3>2. ASSUME NEW i \in 1..Len(upstream) PROVE upstream[i] \in 0..work.bound
      <4>1. i \in DOMAIN Queue /\ Queue[i] = upstream[i]
        BY <2>0, <3>1 DEF Queue
      <4>2. upstream[i] <= n /\ upstream[i] \in Nat
        BY <4>1, PipelineTyped DEF PipelineInOrder
      <4> QED BY <2>0, <2>1, <4>2
    <3> QED BY <3>1, <3>2, SequenceOver
  <2>4. buffered \in Seq([tag : {"C", "Z"}, frame : Nat])
    <3>1. buffered \in Seq(Msg) /\ \A i \in 1..Len(buffered) : buffered[i].tag \in {"C", "Z"}
      BY DEF DatabaseTyped
    <3>2. ASSUME NEW x \in Msg, x.tag \in {"C", "Z"} PROVE x \in [tag : {"C", "Z"}, frame : Nat]
      BY <3>2 DEF Msg
    <3>3. \A i \in 1..Len(buffered) : buffered[i] \in [tag : {"C", "Z"}, frame : Nat]
      BY <3>1, <3>2
    <3> QED BY <3>1, <3>3, SequenceOver
  <2>5. socket \in Seq([tag : {"C", "E", "N", "Z"}, frame : Nat])
    BY DEF DatabaseTyped, Msg
  <2>6. /\ relay \in {"top", "fill", "copy", "stopping", "framed", "unframed", "aborted"}
        /\ sync \in [received : Nat, abandoned : Nat] /\ flush \in [received : Nat, abandoned : Nat]
        /\ lastTag \in {"none", "C", "E", "N", "Z"} /\ forgiven \in Nat
    BY DEF RelayTyped
  <2>7. Booleans
    OBVIOUS
  <2> HIDE DEF Ordered, Typed
  <2> QED BY <2>1, <2>2, <2>3, <2>4, <2>5, <2>6, <2>7, Zenon DEF TypeOK, Booleans
<1> QED BY <1>1, OrderedInvariant, PTL

(* Every refused statement is answered exactly once while the session goes   *)
(* on, and at most once whichever of the relay and run_postgres writes last, *)
(* in the order of the statements: EachRefusalOnce, for every session.      *)
THEOREM RefusalsAnsweredOnce == Spec => []EachRefusalOnce
<1>1. Ordered => EachRefusalOnce
  <2> SUFFICES ASSUME Ordered PROVE EachRefusalOnce
    OBVIOUS
  <2>1. \A i, j \in Refusals : i < j => client[i].frame < client[j].frame
    BY DEF Ordered, Turn, RefusalsInOrder
  <2>2. loop \in {"reading", "forwarding", "draining"} =>
            \A m \in 1..n : frames[m] \in Refused => Answered(m)
    BY DEF Ordered, Turn, LoopKnows
  <2> QED BY <2>1, <2>2 DEF EachRefusalOnce, Refused, Answered
<1> QED BY <1>1, OrderedInvariant, PTL

(* No refusal overtakes the answer to a request cycle the client ended       *)
(* before it, and the sync side has counted each ReadyForQuery the client    *)
(* has, and never more than was forwarded (Relay::releasable).              *)
THEOREM RefusalsBehindSyncs == Spec => [](RefusalBehindSyncs /\ CountsAreTruthful)
<1>1. Ordered => RefusalBehindSyncs /\ CountsAreTruthful
  <2> SUFFICES ASSUME Ordered PROVE RefusalBehindSyncs /\ CountsAreTruthful
    OBVIOUS
  <2>1. RefusalBehindSyncs
    BY DEF Ordered, Kept, RefusalBehindSyncs
  <2>2. sync.received <= fwd.sync
    <3>1. IsFiniteSet(SPs) /\ {s \in SPs : Clear(s)} \in SUBSET SPs
      BY FramesFinite DEF Ordered
    <3>2. Cardinality({s \in SPs : Clear(s)}) <= Cardinality(SPs)
          /\ Cardinality({s \in SPs : Clear(s)}) \in Nat /\ Cardinality(SPs) \in Nat
      BY <3>1, FS_Subset, FS_CardinalityType
    <3>3. sync.received \in Nat
      BY DEF Ordered, Typed, RelayTyped
    <3> QED BY <3>2, <3>3 DEF Ordered, Counted
  <2> QED BY <2>1, <2>2 DEF Ordered, Counted, CountsAreTruthful
<1> QED BY <1>1, OrderedInvariant, PTL

(* Once part of a frame is on the client's socket, nothing but the rest of   *)
(* that frame follows it, whichever task still writes.                      *)
THEOREM NothingIsWrittenIntoAFrame == Spec => NothingIntoAFrame
<1> DEFINE Whole == midFrame /\ client' # client =>
                        ~midFrame' /\ client'[Len(client')].tag # "refusal"
<1>1. Ordered /\ [Next]_vars => [Whole]_vars
  <2> SUFFICES ASSUME Ordered, Next, midFrame, client' # client
               PROVE  ~midFrame' /\ client'[Len(client')].tag # "refusal"
    OBVIOUS
  <2>1. relay \in {"copy", "unframed", "aborted"} /\ Typed /\ Turn
    BY DEF Ordered, Turn, MidFrameStops
  <2>2. ~MessageLoop /\ ~DB
    <3>1. CASE MessageLoop
      BY <3>1 DEF MessageLoop, Forward, Write, Refuse, Hold, Approved, Rejected, Abandoned, Resume,
              NoticeTimesOut, relayVars
    <3>2. CASE DB
      <4>1. UNCHANGED relayVars
        BY <3>2 DEF DB, Discard, AnswerSync, AnswerFlush, Answer, Fail, Send, Close, Database
      <4> QED BY <4>1 DEF relayVars
    <3> QED BY <3>1, <3>2
  <2>3. ~Session
    <3>1. CASE AnswerOnHandBack
      <4>1. relay = "framed"
        BY <3>1 DEF AnswerOnHandBack, HandBackUsable
      <4> QED BY <2>1, <4>1
    <3>2. CASE Unwritten \/ LoopDropped \/ ClientEnds \/ DrainEnds \/ Abort
      BY <3>2 DEF Unwritten, LoopDropped, ClientEnds, DrainEnds, Abort, relayVars
    <3> QED BY <3>1, <3>2 DEF Session
  <2>4. CASE FinishCopy
    <3>1. socket # <<>> /\ client' = Append(client, Head(socket)) /\ midFrame' = FALSE
      BY <2>1, <2>4 DEF FinishCopy, Relayed, Turn, MidFrameStops
    <3>2. Head(socket) \in Msg /\ client \in Seq(Msg \union Ref)
      BY <2>1, <3>1 DEF Typed, DatabaseTyped, ClientTyped
    <3>3. Head(socket).tag # "refusal"
      BY <3>2 DEF Msg
    <3>4. client'[Len(client')] = Head(socket)
      BY <3>1, <3>2
    <3> QED BY <3>1, <3>3, <3>4
  <2>5. CASE RelayTask /\ ~FinishCopy
    <3>1. relay \in {"top", "fill", "stopping"} \/ client' = client
      BY <2>5 DEF RelayTask, Settle, Settling, Proceed, TakeInjection, GiveUp, OrderBudgetSpent,
              Deliver, Reading, StartCopy, Truncate, UpstreamEnds, Stop
    <3> QED BY <2>1, <3>1
  <2> QED BY <2>2, <2>3, <2>4, <2>5 DEF Next
<1>2. Spec => [][Whole]_vars
  BY <1>1, OrderedInvariant, PTL DEF Spec
<1> QED BY <1>2 DEF NothingIntoAFrame

-----------------------------------------------------------------------------
(* The flush side, where no Flush overlaps a cycle and bursts arrive whole. *)
Live ==
    \/ loop \in {"reading", "forwarding", "held", "awaiting", "notice"}
    \/ channel # <<>> \/ pending # <<>>

UpTo(s) == Cardinality({f \in Flushes : f <= s})
Consumed == {s \in Flushes : \A k \in DOMAIN Queue : s < Queue[k]}
LastOf(q) == q[Len(q)]
TailTag == IF socket # <<>> THEN LastOf(socket).tag ELSE lastTag
Pushed == flushing /\ LastOf(buffered).tag = "C"
Burst == TailTag = "C" /\ (socket # <<>> \/ fresh)
Credit == (IF Burst THEN 1 ELSE 0) + (IF Pushed THEN 1 ELSE 0)

(* A Flush forwarded is queued until the database takes it.                  *)
Forwarded == \A s \in Flushes \ Consumed : \E k \in DOMAIN Queue : Queue[k] = s

(* No sync point with answers to come precedes a Flush.                     *)
NoOverlap == \A s \in SPs : Clear(s) \/ \A f \in Flushes : f < s

(* What ends a burst: a C only behind a Flush, an E until the next Z.       *)
BurstsEnd ==
    /\ flushing => buffered # <<>>
    /\ ~flushing => \A i \in DOMAIN buffered : buffered[i].tag = "C"
    /\ skipping => buffered = <<>> /\ TailTag = "E"
    /\ TailTag = "E" => skipping \/ (flushing /\ LastOf(buffered).tag = "Z")
    /\ socket # <<>> /\ LastOf(socket).tag = "C" =>
          \E f \in Flushes : LastOf(socket).frame < f
    /\ Pushed => \E f \in Flushes : LastOf(buffered).frame < f

(* A Flush the database has taken pushed everything before it out, or does  *)
(* so now; and each settles at most one.                                    *)
PushedOut ==
    \A s \in Consumed : (Pushed => UpTo(s) < Cardinality(Consumed)) =>
        \A i \in DOMAIN buffered : s < buffered[i].frame

Settled ==
    /\ ~skipping => flush.received + Credit <= Cardinality(Consumed)
    /\ \A s \in Flushes : UpTo(s) <= flush.received => Clear(s)

Flowing == Forwarded /\ NoOverlap /\ BurstsEnd /\ PushedOut /\ Settled
FlushSide == overlapped \/ "split" \in work.events \/ ~Live \/ Flowing
FlushKept == overlapped \/ "split" \in work.events \/ Kept({"Flush"})

(* The invariant of the whole session.                                       *)
IInv == Ordered /\ FlushSide /\ FlushKept

(* The Flushes the database has taken, and those it has not.                 *)
LEMMA TakenFlushes ==
    ASSUME Typed
    PROVE  /\ Consumed \subseteq Flushes /\ IsFiniteSet(Consumed) /\ Flushes \subseteq Nat
           /\ Cardinality(Consumed) \in Nat /\ Cardinality(Flushes) \in Nat
           /\ Cardinality(Consumed) <= Cardinality(Flushes)
           /\ \A s : UpTo(s) \in Nat /\ UpTo(s) <= Cardinality(Flushes)
           /\ \A s \in Flushes \ Consumed : UpTo(s) > Cardinality(Consumed)
<1>0. n \in Nat /\ Flushes \subseteq 0..n /\ IsFiniteSet(Flushes)
  BY FramesTyped, FramesFinite DEF Typed
<1>1. Consumed \subseteq Flushes /\ IsFiniteSet(Consumed)
      /\ Cardinality(Consumed) <= Cardinality(Flushes)
  <2>1. Consumed \subseteq Flushes
    BY DEF Consumed
  <2> QED BY <1>0, <2>1, FS_Subset
<1>2. \A s : UpTo(s) \in Nat /\ UpTo(s) <= Cardinality(Flushes)
  <2>1. SUFFICES ASSUME NEW s PROVE UpTo(s) \in Nat /\ UpTo(s) <= Cardinality(Flushes)
    OBVIOUS
  <2>2. {f \in Flushes : f <= s} \subseteq Flushes
    OBVIOUS
  <2> QED BY <1>0, <2>2, FS_Subset, FS_CardinalityType DEF UpTo
<1>3. ASSUME NEW s \in Flushes \ Consumed PROVE UpTo(s) > Cardinality(Consumed)
  <2>1. PICK k \in DOMAIN Queue : s >= Queue[k] /\ Queue[k] \in Nat /\ s \in Nat
    BY <1>0, PipelineTyped DEF Consumed
  <2>2. \A c \in Consumed : c <= s
    BY <1>0, <2>1 DEF Consumed
  <2> DEFINE T == Consumed \union {s}  U == {f \in Flushes : f <= s}
  <2>3. T \subseteq U
    BY <1>0, <1>1, <2>1, <2>2
  <2>4. IsFiniteSet(U)
    <3>1. U \subseteq Flushes
      OBVIOUS
    <3> QED BY <1>0, <3>1, FS_Subset
  <2>5. Cardinality(T) = Cardinality(Consumed) + 1 /\ Cardinality(Consumed) \in Nat
    BY <1>1, FS_AddElement, FS_CardinalityType
  <2> HIDE DEF T, U
  <2>6. Cardinality(T) <= Cardinality(U) /\ Cardinality(U) \in Nat
    BY <2>3, <2>4, FS_Subset, FS_CardinalityType
  <2>7. Cardinality(U) > Cardinality(Consumed)
    BY <2>5, <2>6
  <2> QED BY <2>7 DEF U, UpTo
<1> QED BY <1>0, <1>1, <1>2, <1>3, FS_CardinalityType

(* Behind a sync point whose answers are still to come there is no Flush; if *)
(* the database has taken that sync point, it has taken every Flush.         *)
LEMMA FlushesBefore ==
    ASSUME Typed, NoOverlap, NEW m \in SPs, ~Clear(m)
    PROVE  /\ \A f \in Flushes : f < m
           /\ (\A k \in DOMAIN Queue : m <= Queue[k]) => Consumed = Flushes
<1>1. \A f \in Flushes : f < m
  BY DEF NoOverlap
<1>2. m \in Nat /\ Flushes \subseteq Nat
  BY FramesTyped, FramesFinite DEF Typed
<1>3. ASSUME \A k \in DOMAIN Queue : m <= Queue[k] PROVE Consumed = Flushes
  <2>1. \A f \in Flushes : \A k \in DOMAIN Queue : f < Queue[k]
    BY <1>1, <1>2, <1>3, PipelineTyped
  <2> QED BY <2>1 DEF Consumed
<1> QED BY <1>1, <1>3

(* A new sync point is behind every Flush, and a Flush forwarded while none  *)
(* overlaps finds every cycle answered.                                      *)
LEMMA NoOverlapKept ==
    ASSUME Typed, Turn, PipelineInOrder, Counted, NoOverlap, Next, ~overlapped'
    PROVE  NoOverlap'
<1>0. /\ n \in Nat /\ SPs \subseteq 0..n /\ Flushes \subseteq 0..n /\ IsFiniteSet(SPs)
      /\ Cardinality(SPs) \in Nat /\ sync.received \in Nat /\ fwd.sync \in Nat
  BY FramesTyped, FramesFinite, FS_CardinalityType DEF Typed, RelayTyped, LoopTyped
<1>1. KindsStay /\ ClearStays
  BY PipelineKept
<1>2. \A s \in SPs : Clear(s) => Clear(s)'
  <2>1. \A s \in SPs : s \in 0..n /\ Kind(s) \notin Refused
    BY DEF SPs, SyncPoints, Refused
  <2> QED BY <1>1, <2>1 DEF ClearStays
<1>3. CASE NoRecount
  BY <1>2, <1>3 DEF NoRecount, NoOverlap
<1>4. CASE Recount
  <2>1. PICK k \in FrameKinds \ Refused : Count(k) /\ Known(k)
    BY <1>4 DEF Recount
  <2>2. n' \in Nat /\ n <= n' /\ n' \notin Flushes
    BY <2>1 DEF Known
  <2>3. \A f \in Flushes : f < n'
    BY <1>0, <2>2
  <2>4. CASE k = "Flush"
    <3>1. ~(sync.received < fwd.sync)
      BY <2>1, <2>4 DEF Count
    <3>2. {s \in SPs : Clear(s)} \in SUBSET SPs /\ Cardinality({s \in SPs : Clear(s)}) \in Nat
      BY <1>0, FS_Subset, FS_CardinalityType
    <3>3. Cardinality({s \in SPs : Clear(s)}) >= Cardinality(SPs)
      BY <1>0, <3>1, <3>2 DEF Counted
    <3>4. {s \in SPs : Clear(s)} = SPs
      BY <1>0, <3>2, <3>3, AllOfThem
    <3>5. SPs' = SPs
      BY <2>1, <2>4 DEF Known, SyncPoints
    <3> QED BY <1>2, <3>4, <3>5 DEF NoOverlap
  <2>5. CASE k # "Flush"
    <3>1. Flushes' = Flushes /\ \A s \in SPs' : s \in SPs \/ s = n'
      BY <2>1, <2>5 DEF Known
    <3> QED BY <1>2, <2>3, <3>1 DEF NoOverlap
  <2> QED BY <2>4, <2>5
<1> QED BY <1>3, <1>4, FramesCounted

(* A step that moves neither the database's output nor what the relay has    *)
(* read of it leaves bursts, their ends and what is settled as they were.    *)
LEMMA OutputUndisturbed ==
    ASSUME Typed, PipelineInOrder, BurstsEnd, PushedOut, Settled, ClearStays,
           UNCHANGED <<skipping, buffered, flushing, socket, lastTag, fresh>>,
           flush'.received = flush.received, Consumed' = Consumed, Flushes \subseteq Flushes',
           \A s \in Flushes : UpTo(s)' = UpTo(s),
           \A s \in Flushes' \ Flushes : ~(UpTo(s)' <= flush.received)
    PROVE  BurstsEnd' /\ PushedOut' /\ Settled'
<1>1. TailTag' = TailTag /\ Pushed' = Pushed /\ Credit' = Credit
  BY DEF TailTag, Pushed, Credit, Burst, LastOf
<1>2. BurstsEnd'
  BY <1>1 DEF BurstsEnd, LastOf
<1>3. PushedOut'
  BY <1>1, TakenFlushes DEF PushedOut
<1>4. ASSUME NEW s \in Flushes', UpTo(s)' <= flush'.received PROVE Clear(s)'
  <2>1. UpTo(s) \in Nat /\ flush.received \in Nat /\ n \in Nat /\ Flushes \subseteq 0..n
    BY TakenFlushes, FramesTyped, FramesFinite DEF Typed, RelayTyped
  <2>2. s \in Flushes
    <3>1. flush'.received = flush.received
      OBVIOUS
    <3> QED BY <1>4, <3>1
  <2>3. Clear(s)
    BY <1>4, <2>1, <2>2 DEF Settled
  <2>4. s \in 0..n /\ Kind(s) \notin Refused
    BY <2>2 DEF Flushes, Refused
  <2> QED BY <2>3, <2>4 DEF ClearStays
<1> QED BY <1>1, <1>2, <1>3, <1>4 DEF Settled

(* A frame queued is behind every Flush, and a Flush is queued like any.     *)
LEMMA QueueingFlows ==
    ASSUME Typed, Turn, PipelineInOrder, Counted, Forwarded, BurstsEnd, PushedOut, Settled,
           NoRecount \/ Recount, KindsStay, ClearStays, Queues,
           UNCHANGED <<skipping, buffered, flushing, socket, lastTag, fresh, flush>>
    PROVE  Forwarded' /\ BurstsEnd' /\ PushedOut' /\ Settled'
<1>0. n \in Nat /\ Flushes \subseteq 0..n /\ IsFiniteSet(Flushes) /\ n' \in Nat /\ n <= n'
  BY FramesTyped, FramesFinite DEF Typed, KindsStay
<1>1. Flushes \subseteq Flushes' /\ Flushes' \subseteq Flushes \union {n'}
  BY DEF NoRecount, Recount, Known
<1>2. \A f \in Flushes : f < n'
  <2>1. n \notin Flushes \/ n < n'
    BY DEF Queues, Flushes, Refused
  <2> QED BY <1>0, <2>1
<1> DEFINE last == Len(Queue) + 1
<1>3. /\ DOMAIN Queue' = DOMAIN Queue \union {last}
      /\ \A k \in DOMAIN Queue : Queue'[k] = Queue[k]
      /\ Queue'[last] = n'
  BY <1>0, PipelineTyped, AppendProperties DEF Queues
<1> HIDE DEF last
<1>4. Consumed' = Consumed
  <2>1. \A s : s \in Consumed' <=> s \in Flushes' /\ \A k \in DOMAIN Queue' : s < Queue'[k]
    BY DEF Consumed
  <2>2. ~(n' < n')
    BY <1>0
  <2>3. \A s : s \in Consumed' <=> s \in Flushes /\ \A k \in DOMAIN Queue : s < Queue[k]
    BY <1>1, <1>2, <1>3, <2>1, <2>2
  <2> QED BY <2>3 DEF Consumed
<1>5. ASSUME NEW s \in Flushes PROVE UpTo(s)' = UpTo(s)
  <2>1. s \in Nat /\ ~(n' <= s)
    BY <1>0, <1>2
  <2>2. {f \in Flushes' : f <= s} = {f \in Flushes : f <= s}
    BY <1>1, <2>1
  <2> QED BY <2>2 DEF UpTo
<1>6. ASSUME NEW s \in Flushes' \ Flushes PROVE ~(UpTo(s)' <= flush.received)
  <2>1. s = n' /\ Flushes' = Flushes \union {s} /\ s \notin Flushes
    BY <1>1
  <2>2. {f \in Flushes' : f <= s} = Flushes'
    <3>1. \A f \in Flushes' : f <= s
      BY <1>0, <1>2, <2>1
    <3> QED BY <3>1
  <2>3. Cardinality(Flushes') = Cardinality(Flushes) + 1 /\ Cardinality(Flushes) \in Nat
    BY <1>0, <2>1, FS_AddElement, FS_CardinalityType
  <2>4. flush.received <= Cardinality(Flushes) /\ flush.received \in Nat
    BY DEF Counted, Typed, RelayTyped
  <2>5. UpTo(s)' = Cardinality(Flushes')
    BY <2>2 DEF UpTo
  <2> QED BY <2>3, <2>4, <2>5
<1>7. Forwarded'
  <2>1. ASSUME NEW s \in Flushes' \ Consumed' PROVE \E k \in DOMAIN Queue' : Queue'[k] = s
    <3>1. CASE s \in Flushes
      BY <1>3, <1>4, <3>1 DEF Forwarded
    <3>2. CASE s = n'
      BY <1>3, <3>2
    <3> QED BY <1>1, <3>1, <3>2
  <2> QED BY <2>1 DEF Forwarded
<1>8. flush'.received = flush.received
  OBVIOUS
<1> QED BY <1>1, <1>4, <1>5, <1>6, <1>7, <1>8, OutputUndisturbed

(* Nothing taken and nothing queued.                                         *)
LEMMA StandingFlows ==
    ASSUME Typed, PipelineInOrder, Forwarded, BurstsEnd, PushedOut, Settled,
           KindsStay, ClearStays, Queue' = Queue, Flushes' = Flushes,
           UNCHANGED <<skipping, buffered, flushing, socket, lastTag, fresh>>,
           flush'.received = flush.received
    PROVE  Forwarded' /\ BurstsEnd' /\ PushedOut' /\ Settled'
<1>1. Consumed' = Consumed /\ \A s : UpTo(s)' = UpTo(s)
  BY DEF Consumed, UpTo
<1>2. Forwarded'
  BY <1>1 DEF Forwarded
<1> QED BY <1>1, <1>2, OutputUndisturbed

(* What the loop does to the flush side.                                     *)
LEMMA LoopFlows ==
    ASSUME Ordered, Flowing, MessageLoop \/ Session
    PROVE  \/ LoopDropped /\ loop = "forwarding"
           \/ Forwarded' /\ BurstsEnd' /\ PushedOut' /\ Settled'
<1> USE DEF Ordered
<1>1. Next
  BY DEF Next
<1>2. UNCHANGED <<skipping, buffered, flushing, socket, lastTag, fresh, flush>>
  BY Zenon DEF MessageLoop, Session, Forward, Write, Refuse, Hold, Approved, Rejected, Abandoned,
         Resume, NoticeTimesOut, Unwritten, LoopDropped, ClientEnds, DrainEnds, Abort,
         AnswerOnHandBack, dbVars, relayVars
<1>3. KindsStay /\ ClearStays /\ (NoRecount \/ Recount)
  BY <1>1, PipelineKept, FramesCounted
<1>4. CASE Queues
  BY <1>2, <1>3, <1>4, QueueingFlows DEF Flowing
<1>5. ASSUME Queue' = Queue, Flushes' = Flushes PROVE Forwarded' /\ BurstsEnd' /\ PushedOut' /\ Settled'
  <2>1. flush'.received = flush.received
    BY <1>2
  <2> QED BY <1>2, <1>3, <1>5, <2>1, StandingFlows DEF Flowing
<1>6. ASSUME fwd' = fwd PROVE Flushes' = Flushes
  <2>1. ASSUME NEW k, Count(k) PROVE k # "Flush"
    <3>1. fwd.flush \in Nat /\ fwd'.flush = fwd.flush + (IF k = "Flush" THEN 1 ELSE 0)
      BY <2>1 DEF Count, Typed, LoopTyped
    <3> QED BY <1>6, <3>1
  <2> QED BY <1>3, <2>1 DEF NoRecount, Recount, Known
<1>7. \/ Queue' = Append(Queue, n')
      \/ Queue' = Queue /\ fwd' = fwd
      \/ LoopDropped /\ loop = "forwarding"
  <2>1. CASE (\E k \in FrameKinds : Forward(k)) \/ Approved
    <3>1. upstream' = upstream /\ loop' = "forwarding" /\ loop \in {"reading", "held"}
      BY <2>1, Zenon DEF Forward, Read, Approved
    <3> QED BY <3>1 DEF Queue
  <2>2. CASE Write
    BY <2>2 DEF Write, Queue, n
  <2>3. CASE Refuse \/ Hold \/ Rejected \/ Abandoned \/ Resume \/ NoticeTimesOut \/ Session
    <3>1. loop' # "forwarding" /\ upstream' = upstream /\ fwd' = fwd
          /\ (loop # "forwarding" \/ LoopDropped)
      BY <2>3 DEF Session, Read, Refuse, Hold, Rejected, Abandoned, Inject,
         Resume, NoticeTimesOut, Unwritten, LoopDropped, ClientEnds, DrainEnds, Abort,
         AnswerOnHandBack, loopVars
    <3> QED BY <3>1 DEF Queue
  <2> QED BY <2>1, <2>2, <2>3 DEF MessageLoop
<1>8. CASE Queue' = Append(Queue, n')
  <2>1. Queue \in Seq(Nat) /\ n' \in Nat /\ Len(Queue) \in Nat
    BY <1>3, PipelineTyped DEF KindsStay
  <2>2. Len(Queue') = Len(Queue) + 1
    BY <1>8, <2>1
  <2>3. ~StaysPut
    BY <2>1, <2>2 DEF StaysPut
  <2>4. ~Drops
    <3>1. ASSUME NEW m \in Nat, NEW q \in Seq(Nat), Queue = Append(q, m), Queue' = q PROVE FALSE
      <4>1. Len(Queue) = Len(q) + 1 /\ Len(q) \in Nat
        BY <3>1
      <4> QED BY <2>2, <3>1, <4>1
    <3> QED BY <3>1 DEF Drops
  <2> QED BY <1>4, <2>3, <2>4, LoopMovesPipeline
<1> QED BY <1>5, <1>6, <1>7, <1>8

(* The database takes the frame at the head of the queue; if it is a Flush,  *)
(* it is the next one.                                                       *)
Taken(h) ==
    /\ h \in 0..n /\ 1 \in DOMAIN Queue /\ h = Queue[1]
    /\ \A i \in DOMAIN Line : Line[i].frame < h
    /\ \A s \in Consumed : s < h
    /\ h \notin Flushes => Consumed' = Consumed
    /\ h \in Flushes => /\ Consumed' = Consumed \union {h}
                        /\ Cardinality(Consumed') = Cardinality(Consumed) + 1
                        /\ UpTo(h) = Cardinality(Consumed')
    /\ \A s : UpTo(s)' = UpTo(s)

(* Taking the head of the queue takes the first Flush not yet taken, or none.*)
LEMMA NextTaken ==
    ASSUME Typed, PipelineInOrder, Forwarded, Queue # <<>>, Queue' = Tail(Queue),
           Flushes' = Flushes, NEW h, h = Head(Queue)
    PROVE  Taken(h) /\ Forwarded'
<1>0. n \in Nat /\ Flushes \subseteq 0..n /\ IsFiniteSet(Flushes) /\ IsFiniteSet(Consumed)
  BY FramesTyped, FramesFinite, TakenFlushes DEF Typed
<1>1. /\ 1 \in DOMAIN Queue /\ h = Queue[1] /\ h \in 0..n
      /\ \A k \in DOMAIN Queue : k \in Nat /\ (k = 1 \/ (k - 1 \in DOMAIN Queue' /\ h < Queue[k]))
      /\ \A k \in DOMAIN Queue' : k \in Nat /\ k + 1 \in DOMAIN Queue /\ Queue'[k] = Queue[k + 1]
                                  /\ h < Queue'[k]
  <2>1. Queue \in Seq(Nat) /\ Len(Queue) \in Nat /\ DOMAIN Queue = 1..Len(Queue)
    BY PipelineTyped
  <2>2. Tail(Queue) \in Seq(Nat) /\ Len(Tail(Queue)) = Len(Queue) - 1
        /\ \A k \in 1..Len(Tail(Queue)) : Tail(Queue)[k] = Queue[k + 1]
    BY <2>1, HeadTailProperties
  <2>3. 1 \in DOMAIN Queue /\ h = Queue[1] /\ DOMAIN Queue' = 1..(Len(Queue) - 1)
    BY <2>1, <2>2
  <2>4. h \in 0..n
    BY <1>0, <2>3, PipelineTyped DEF PipelineInOrder
  <2>5. \A k \in DOMAIN Queue : k = 1 \/ h < Queue[k]
    BY <2>1, <2>3 DEF PipelineInOrder
  <2> QED BY <2>1, <2>2, <2>3, <2>4, <2>5
<1>2. \A i \in DOMAIN Line : Line[i].frame < h
  BY <1>1 DEF PipelineInOrder
<1>3. \A s \in Consumed : s < h
  BY <1>1 DEF Consumed
<1>4. \A s : s \in Consumed' <=> s \in Flushes /\ \A k \in DOMAIN Queue' : s < Queue'[k]
  BY DEF Consumed
<1>5. ASSUME NEW s \in Flushes PROVE s \in Consumed' <=> s \in Consumed \/ s = h
  <2>1. CASE s \in Consumed
    BY <1>1, <1>4, <2>1 DEF Consumed
  <2>2. CASE s = h
    BY <1>1, <1>4, <2>2
  <2>3. CASE s \notin Consumed /\ s # h
    <3>1. PICK k \in DOMAIN Queue : Queue[k] = s
      BY <2>3 DEF Forwarded
    <3>2. k - 1 \in DOMAIN Queue' /\ Queue'[k - 1] = s /\ s \in Nat
      <4>1. k \in Nat /\ k - 1 \in DOMAIN Queue' /\ s \in Nat
        BY <1>0, <1>1, <2>3, <3>1
      <4>2. Queue'[k - 1] = Queue[(k - 1) + 1] /\ (k - 1) + 1 = k
        BY <1>1, <4>1
      <4> QED BY <3>1, <4>1, <4>2
    <3> QED BY <1>4, <2>3, <3>2
  <2> QED BY <2>1, <2>2, <2>3
<1>6. h \notin Flushes => Consumed' = Consumed
  <2>1. \A s : s \in Consumed => s \in Flushes
    BY DEF Consumed
  <2> QED BY <1>4, <1>5, <2>1
<1>7. ASSUME h \in Flushes
      PROVE  /\ Consumed' = Consumed \union {h}
             /\ Cardinality(Consumed') = Cardinality(Consumed) + 1
             /\ UpTo(h) = Cardinality(Consumed')
  <2>1. \A s : s \in Consumed => s \in Flushes
    BY DEF Consumed
  <2>2. Consumed' = Consumed \union {h}
    BY <1>4, <1>5, <1>7, <2>1
  <2>3. h \notin Consumed
    BY <1>0, <1>1, <1>3
  <2>4. Cardinality(Consumed') = Cardinality(Consumed) + 1
    BY <1>0, <2>2, <2>3, FS_AddElement
  <2>5. ASSUME NEW s \in Flushes PROVE s <= h <=> s \in Consumed \/ s = h
    <3>1. s \in Nat /\ h \in Nat
      BY <1>0, <1>1
    <3>2. ASSUME s < h PROVE s \in Consumed
      <4>1. \A k \in DOMAIN Queue : Queue[k] \in Nat /\ h <= Queue[k]
        BY <1>1, <3>1, PipelineTyped
      <4>2. \A k \in DOMAIN Queue : s < Queue[k]
        BY <3>1, <3>2, <4>1
      <4> QED BY <4>2 DEF Consumed
    <3> QED BY <1>3, <3>1, <3>2
  <2>6. {f \in Flushes : f <= h} = Consumed'
    BY <1>7, <2>1, <2>2, <2>5
  <2> QED BY <2>2, <2>4, <2>6 DEF UpTo
<1>8. \A s : UpTo(s)' = UpTo(s)
  BY DEF UpTo
<1>9. Forwarded'
  <2>1. ASSUME NEW s \in Flushes' \ Consumed' PROVE \E k \in DOMAIN Queue' : Queue'[k] = s
    <3>1. s \in Flushes /\ s \notin Consumed /\ s # h
      BY <1>5, <2>1
    <3>2. PICK k \in DOMAIN Queue : Queue[k] = s
      BY <3>1 DEF Forwarded
    <3>3. k \in Nat /\ k - 1 \in DOMAIN Queue'
      BY <1>1, <3>1, <3>2
    <3>4. Queue'[k - 1] = Queue[(k - 1) + 1] /\ (k - 1) + 1 = k
      BY <1>1, <3>3
    <3> QED BY <3>2, <3>3, <3>4
  <2> QED BY <2>1 DEF Forwarded
<1> QED BY <1>1, <1>2, <1>3, <1>6, <1>7, <1>8, <1>9 DEF Taken

(* What is settled stays so, so long as no more is counted.                  *)
LEMMA SettledStays ==
    ASSUME Typed, Settled, ClearStays, Flushes' = Flushes, flush'.received = flush.received
    PROVE  \A s \in Flushes' : UpTo(s)' <= flush'.received => Clear(s)'
<1>1. \A s : UpTo(s)' = UpTo(s)
  BY DEF UpTo
<1>2. \A s \in Flushes : s \in 0..n /\ Kind(s) \notin Refused
  BY DEF Flushes, Refused
<1> QED BY <1>1, <1>2 DEF Settled, ClearStays

(* The last of what is put behind a sequence of messages is its last.        *)
LEMMA LastMessage ==
    ASSUME NEW a \in Seq(Msg), NEW b \in Seq(Msg), b # <<>>
    PROVE  a \o b # <<>> /\ LastOf(a \o b) = LastOf(b) /\ LastOf(b) \in Msg
           /\ Len(b) \in DOMAIN b
<1> DEFINE c == a \o b
<1>1. /\ Len(a) \in Nat /\ Len(b) \in Nat /\ Len(b) > 0
      /\ DOMAIN a = 1..Len(a) /\ DOMAIN b = 1..Len(b)
  OBVIOUS
<1>2. /\ c \in Seq(Msg) /\ Len(c) = Len(a) + Len(b)
      /\ \A i \in DOMAIN c : \/ i \in DOMAIN a /\ c[i] = a[i]
                             \/ /\ i - Len(a) \in DOMAIN b /\ i > Len(a) /\ i \in Nat
                                /\ c[i] = b[i - Len(a)]
  BY JoinMessages
<1> HIDE DEF c
<1>3. Len(c) \in DOMAIN c /\ Len(c) \notin DOMAIN a /\ Len(c) - Len(a) = Len(b)
  <2>1. DOMAIN c = 1..Len(c)
    BY <1>2
  <2> QED BY <1>1, <1>2, <2>1
<1>4. c[Len(c)] = b[Len(b)] /\ c # <<>> /\ b[Len(b)] \in Msg
  BY <1>1, <1>2, <1>3
<1> QED BY <1>1, <1>4 DEF c, LastOf

(* The pipeline's answers: those sent and those kept.                        *)
LEMMA LineParts ==
    ASSUME Typed
    PROVE  /\ \A i \in DOMAIN socket : i \in DOMAIN Line /\ Line[i] = socket[i]
           /\ \A i \in DOMAIN buffered : \E j \in DOMAIN Line : Line[j] = buffered[i]
           /\ socket = <<>> => Line = buffered
           /\ \A i \in DOMAIN socket : socket[i] \in Msg /\ socket[i].frame \in Nat
           /\ \A i \in DOMAIN buffered : buffered[i] \in Msg /\ buffered[i].frame \in Nat
<1>1. /\ socket \in Seq(Msg) /\ buffered \in Seq(Msg)
      /\ Line \in Seq(Msg) /\ Len(Line) = Len(socket) + Len(buffered)
      /\ \A i \in 1..(Len(socket) + Len(buffered)) :
            Line[i] = IF i <= Len(socket) THEN socket[i] ELSE buffered[i - Len(socket)]
  <2>1. socket \in Seq(Msg) /\ buffered \in Seq(Msg)
    BY DEF Typed, DatabaseTyped
  <2> QED BY <2>1, ConcatProperties DEF Line
<1>2. /\ DOMAIN socket = 1..Len(socket) /\ Len(socket) \in Nat
      /\ DOMAIN buffered = 1..Len(buffered) /\ Len(buffered) \in Nat
      /\ DOMAIN Line = 1..(Len(socket) + Len(buffered))
  BY <1>1
<1>3. socket = <<>> => Line = buffered
  BY <1>1 DEF Line
<1> HIDE DEF Line
<1>4. \A i \in DOMAIN socket : i \in DOMAIN Line /\ Line[i] = socket[i]
  BY <1>1, <1>2
<1>5. ASSUME NEW i \in DOMAIN buffered PROVE \E j \in DOMAIN Line : Line[j] = buffered[i]
  <2>1. i + Len(socket) \in DOMAIN Line /\ ~(i + Len(socket) <= Len(socket))
        /\ (i + Len(socket)) - Len(socket) = i
    BY <1>2
  <2> QED BY <1>1, <1>2, <2>1
<1>6. \A x \in Msg : x.frame \in Nat
  BY DEF Msg
<1>7. (\A i \in DOMAIN socket : socket[i] \in Msg) /\ (\A i \in DOMAIN buffered : buffered[i] \in Msg)
  BY <1>1, <1>2
<1> QED BY <1>3, <1>4, <1>5, <1>6, <1>7

(* What every step of the database that takes a frame h has in common.       *)
LEMMA DatabaseTakes ==
    ASSUME Ordered, Flowing, DB, upstream # <<>>, upstream' = Tail(upstream),
           UNCHANGED <<loopVars, relayVars>>, NEW h, h = Head(upstream)
    PROVE  /\ Taken(h) /\ Forwarded' /\ ClearStays /\ Flushes' = Flushes
           /\ h \in 0..n /\ Flushes \subseteq 0..n /\ h \in Nat /\ Flushes \subseteq Nat
           /\ \A s \in Flushes' : UpTo(s)' <= flush'.received => Clear(s)'
           /\ flush' = flush /\ flush.received \in Nat /\ lastTag' = lastTag /\ fresh' = fresh
           /\ \A i \in DOMAIN buffered : buffered[i].frame \in Nat /\ buffered[i].frame < h
<1> USE DEF Ordered, Flowing
<1>1. n' = n /\ loop' = loop /\ frames' = frames /\ flush' = flush /\ lastTag' = lastTag
      /\ fresh' = fresh /\ n \in Nat
  BY FramesTyped DEF loopVars, relayVars, n, Typed
<1>2. Queue # <<>> /\ Queue' = Tail(Queue) /\ h = Head(Queue) /\ h \in 0..n
  BY <1>1, HeadTaken
<1>3. Flushes' = Flushes
  BY <1>1 DEF Flushes, Kind
<1>4. Taken(h) /\ Forwarded'
  BY <1>2, <1>3, NextTaken
<1>5. ClearStays
  BY PipelineKept DEF Next
<1>6. flush.received \in Nat /\ flush'.received = flush.received
  BY <1>1 DEF Typed, RelayTyped
<1>7. \A i \in DOMAIN buffered : buffered[i].frame \in Nat /\ buffered[i].frame < h
  <2>1. \A i \in DOMAIN Line : Line[i].frame < h
    BY <1>4 DEF Taken
  <2> QED BY <2>1, LineParts
<1>8. \A s \in Flushes' : UpTo(s)' <= flush'.received => Clear(s)'
  BY <1>3, <1>5, <1>6, SettledStays
<1>9. Flushes \subseteq 0..n
  BY DEF Flushes
<1> QED BY <1>1, <1>2, <1>3, <1>4, <1>5, <1>6, <1>7, <1>8, <1>9

(* A frame discarded after an error: the error ended the burst, and nothing  *)
(* is kept.                                                                  *)
LEMMA DiscardFlows ==
    ASSUME Ordered, Flowing, Discard
    PROVE  Forwarded' /\ BurstsEnd' /\ PushedOut' /\ Settled'
<1> DEFINE h == Head(upstream)
<1>1. /\ DB /\ upstream # <<>> /\ upstream' = Tail(upstream) /\ UNCHANGED <<loopVars, relayVars>>
      /\ skipping /\ UNCHANGED <<buffered, flushing, skipping, socket>>
  BY Zenon DEF DB, Discard, Database, dbVars
<1>2. /\ Forwarded' /\ Flushes' = Flushes /\ lastTag' = lastTag
      /\ \A s \in Flushes' : UpTo(s)' <= flush'.received => Clear(s)'
  BY <1>1, DatabaseTakes
<1>3. TailTag' = TailTag /\ Pushed' = Pushed
  BY <1>1, <1>2 DEF TailTag, Pushed, LastOf
<1>4. BurstsEnd'
  BY <1>1, <1>2, <1>3 DEF Flowing, BurstsEnd, LastOf
<1>5. buffered = <<>> /\ DOMAIN buffered = {}
  BY <1>1 DEF Flowing, BurstsEnd
<1>6. PushedOut'
  BY <1>1, <1>5 DEF PushedOut
<1> QED BY <1>1, <1>2, <1>4, <1>6 DEF Settled

(* A Sync's ReadyForQuery ends what is kept; if the database was skipping,   *)
(* every Flush is behind it, taken, and no burst is left to count.           *)
LEMMA AnswerSyncFlows ==
    ASSUME Ordered, Flowing, AnswerSync
    PROVE  Forwarded' /\ BurstsEnd' /\ PushedOut' /\ Settled'
<1> DEFINE h == Head(upstream)
<1>1. /\ DB /\ upstream # <<>> /\ upstream' = Tail(upstream) /\ UNCHANGED <<loopVars, relayVars>>
      /\ Kind(h) = "Sync" /\ ~flushing /\ flushing' = TRUE /\ skipping' = FALSE
      /\ buffered' = Append(buffered, Message("Z", h)) /\ socket' = socket
  BY Zenon DEF DB, AnswerSync, Database
<1>2. /\ Taken(h) /\ Forwarded' /\ Flushes' = Flushes /\ lastTag' = lastTag /\ fresh' = fresh
      /\ h \in 0..n /\ h \in Nat /\ flush' = flush /\ flush.received \in Nat /\ Flushes \subseteq Nat
      /\ \A s \in Flushes' : UpTo(s)' <= flush'.received => Clear(s)'
      /\ \A i \in DOMAIN buffered : buffered[i].frame \in Nat /\ buffered[i].frame < h
  BY <1>1, DatabaseTakes
<1> HIDE DEF h
<1> DEFINE z == Message("Z", h)  last == Len(buffered) + 1
<1>3. z \in Msg /\ z.tag = "Z" /\ z.frame = h
  BY <1>2 DEF Message, Msg
<1>4. buffered \in Seq(Msg)
  BY DEF Ordered, Typed, DatabaseTyped
<1> HIDE DEF z
<1>5. /\ buffered' # <<>> /\ LastOf(buffered') = z /\ DOMAIN buffered' = DOMAIN buffered \union {last}
      /\ buffered'[last] = z /\ \A i \in DOMAIN buffered : buffered'[i] = buffered[i]
  BY <1>1, <1>3, <1>4, AppendProperties DEF LastOf, z
<1>6. TailTag' = TailTag /\ Burst' = Burst /\ ~Pushed' /\ ~Pushed
  <2>1. TailTag' = TailTag
    BY <1>1, <1>2 DEF TailTag, LastOf
  <2>2. LastOf(buffered)' = z
    BY <1>5 DEF LastOf
  <2> QED BY <1>1, <1>2, <1>3, <2>1, <2>2 DEF Burst, Pushed
<1>7. BurstsEnd'
  <2>1. LastOf(buffered)' = z
    BY <1>5 DEF LastOf
  <2> QED BY <1>1, <1>2, <1>3, <1>5, <1>6, <2>1 DEF Flowing, BurstsEnd, LastOf
<1>8. h \notin Flushes /\ h \in SPs
  BY <1>1, <1>2 DEF Flushes, SPs, SyncPoints
<1>9. Consumed' = Consumed /\ \A s \in Consumed : s < h
  BY <1>2, <1>8 DEF Taken
<1>10. PushedOut'
  <2>1. \A s \in Consumed : \A i \in DOMAIN buffered : s < buffered[i].frame
    BY <1>6 DEF Flowing, PushedOut
  <2>2. \A s \in Consumed : \A i \in DOMAIN buffered' : s < buffered'[i].frame
    BY <1>3, <1>5, <1>9, <2>1
  <2> QED BY <1>9, <2>2 DEF PushedOut
<1>11. flush.received + Credit' <= Cardinality(Consumed)
  <2>1. Credit' = Credit /\ Cardinality(Consumed) \in Nat
    BY <1>6, TakenFlushes DEF Credit, Ordered
  <2>2. CASE ~skipping
    BY <2>1, <2>2 DEF Flowing, Settled
  <2>3. CASE skipping
    <3>1. TailTag = "E"
      BY <2>3 DEF Flowing, BurstsEnd
    <3>2. Credit' = 0
      BY <1>6, <3>1 DEF Credit, Burst
    <3>3. ~Clear(h)
      BY <1>1, <1>2 DEF Taken, Clear, Doomed
    <3>4. \A k \in DOMAIN Queue : h <= Queue[k]
      <4>1. \A k \in DOMAIN Queue : k \in Nat /\ k >= 1 /\ Queue[k] \in Nat
        BY PipelineTyped DEF Ordered
      <4>2. 1 \in DOMAIN Queue /\ h = Queue[1]
        BY <1>2 DEF Taken
      <4>3. \A k \in DOMAIN Queue : k = 1 \/ Queue[1] < Queue[k]
        BY <4>1, <4>2 DEF Ordered, PipelineInOrder
      <4> QED BY <1>2, <4>1, <4>2, <4>3
    <3>5. Consumed = Flushes
      BY <1>8, <3>3, <3>4, FlushesBefore DEF Flowing, Ordered
    <3>6. flush.received <= Cardinality(Flushes)
      BY DEF Ordered, Counted
    <3> QED BY <1>2, <3>2, <3>5, <3>6
  <2> QED BY <2>2, <2>3
<1> QED BY <1>2, <1>7, <1>9, <1>10, <1>11 DEF Settled

(* A Flush pushes out what is kept, if anything is: one more taken, and at   *)
(* most one burst more to count.                                             *)
LEMMA AnswerFlushFlows ==
    ASSUME Ordered, Flowing, AnswerFlush
    PROVE  Forwarded' /\ BurstsEnd' /\ PushedOut' /\ Settled'
<1> DEFINE h == Head(upstream)
<1>1. /\ DB /\ upstream # <<>> /\ upstream' = Tail(upstream) /\ UNCHANGED <<loopVars, relayVars>>
      /\ Kind(h) = "Flush" /\ ~skipping /\ ~skipping' /\ ~flushing /\ (flushing' <=> buffered # <<>>)
      /\ buffered' = buffered /\ socket' = socket
  BY Zenon DEF DB, AnswerFlush, Database
<1>2. /\ Taken(h) /\ Forwarded' /\ Flushes' = Flushes /\ lastTag' = lastTag /\ fresh' = fresh
      /\ h \in 0..n /\ h \in Nat /\ flush' = flush /\ flush.received \in Nat /\ Flushes \subseteq Nat
      /\ \A s \in Flushes' : UpTo(s)' <= flush'.received => Clear(s)'
      /\ \A i \in DOMAIN buffered : buffered[i].frame \in Nat /\ buffered[i].frame < h
  BY <1>1, DatabaseTakes
<1> HIDE DEF h
<1>3. /\ h \in Flushes /\ Consumed' = Consumed \union {h} /\ UpTo(h) = Cardinality(Consumed')
      /\ Cardinality(Consumed') = Cardinality(Consumed) + 1 /\ Cardinality(Consumed) \in Nat
      /\ \A s : UpTo(s)' = UpTo(s)
  BY <1>1, <1>2, TakenFlushes DEF Flushes, Taken, Ordered
<1>4. TailTag' = TailTag /\ (Burst' <=> Burst) /\ ~Pushed /\ (Pushed' => buffered # <<>>)
      /\ LastOf(buffered)' = LastOf(buffered) /\ LastOf(socket)' = LastOf(socket)
  <2>1. TailTag' = TailTag
    BY <1>1, <1>2 DEF TailTag, LastOf
  <2>2. LastOf(buffered)' = LastOf(buffered) /\ LastOf(socket)' = LastOf(socket)
    BY <1>1 DEF LastOf
  <2> QED BY <1>1, <1>2, <2>1, <2>2 DEF Burst, Pushed
<1>5. \A i \in DOMAIN buffered : buffered[i].tag = "C"
  BY <1>1 DEF Flowing, BurstsEnd
<1>6. buffered # <<>> => /\ Len(buffered) \in DOMAIN buffered /\ LastOf(buffered).tag = "C"
                         /\ LastOf(buffered).frame < h
  <2>1. buffered \in Seq(Msg)
    BY DEF Ordered, Typed, DatabaseTyped
  <2>2. buffered # <<>> => Len(buffered) \in DOMAIN buffered
    BY <2>1
  <2> QED BY <1>2, <1>5, <2>2 DEF LastOf
<1>7. BurstsEnd'
  <2>1. TailTag # "E"
    BY <1>1 DEF Flowing, BurstsEnd
  <2>2. socket # <<>> /\ LastOf(socket).tag = "C" => \E f \in Flushes : LastOf(socket).frame < f
    BY DEF Flowing, BurstsEnd
  <2>3. flushing' => buffered # <<>>
    BY <1>1
  <2> QED BY <1>1, <1>2, <1>3, <1>4, <1>5, <1>6, <2>1, <2>2, <2>3 DEF BurstsEnd
<1>8. PushedOut'
  <2>1. ASSUME NEW s \in Consumed', Pushed' => UpTo(s)' < Cardinality(Consumed'),
               NEW i \in DOMAIN buffered
        PROVE  s < buffered[i].frame
    <3>1. buffered # <<>>
      BY <2>1
    <3>2. Pushed'
      BY <1>1, <1>4, <1>6, <3>1 DEF Pushed
    <3>3. s # h
      BY <1>3, <2>1, <3>2
    <3>4. s \in Consumed
      BY <1>3, <3>3
    <3> QED BY <1>4, <3>4 DEF Flowing, PushedOut
  <2> QED BY <1>1, <2>1 DEF PushedOut
<1>9. flush.received + Credit' <= Cardinality(Consumed')
  <2>1. flush.received + Credit <= Cardinality(Consumed)
    BY <1>1 DEF Flowing, Settled
  <2>2. Credit \in Nat /\ Credit' \in Nat /\ Credit' <= Credit + 1
    BY <1>4 DEF Credit
  <2> QED BY <1>2, <1>3, <2>1, <2>2
<1> QED BY <1>2, <1>7, <1>8, <1>9 DEF Settled

(* An answer is kept behind what was kept, and a request cycle's            *)
(* ReadyForQuery sends it all; a notice sends what was kept at once, with    *)
(* itself behind it.                                                         *)
LEMMA AnswerFlows ==
    ASSUME Ordered, Flowing, Answer
    PROVE  Forwarded' /\ BurstsEnd' /\ PushedOut' /\ Settled'
<1> DEFINE h == Head(upstream)  c == Message("C", h)  note == Message("N", h)
           kept == <<c>> \o Cycle(h)
<1>1. /\ DB /\ upstream # <<>> /\ upstream' = Tail(upstream) /\ UNCHANGED <<loopVars, relayVars>>
      /\ Kind(h) \in {"Query", "Execute"} /\ ~skipping /\ ~skipping' /\ ~flushing
      /\ (flushing' <=> Kind(h) = "Query")
      /\ \/ buffered' = buffered \o <<c>> \o Cycle(h) /\ socket' = socket
         \/ socket' = socket \o buffered \o <<note>> /\ buffered' = kept
  BY Zenon DEF DB, Answer, Database
<1>2. /\ Taken(h) /\ Forwarded' /\ Flushes' = Flushes /\ lastTag' = lastTag /\ fresh' = fresh
      /\ h \in 0..n /\ h \in Nat /\ flush' = flush /\ flush.received \in Nat /\ Flushes \subseteq Nat
      /\ \A s \in Flushes' : UpTo(s)' <= flush'.received => Clear(s)'
      /\ \A i \in DOMAIN buffered : buffered[i].frame \in Nat /\ buffered[i].frame < h
  BY <1>1, DatabaseTakes
<1> HIDE DEF h
<1>3. /\ c \in Msg /\ c.tag = "C" /\ c.frame = h /\ note \in Msg /\ note.tag = "N"
      /\ Message("Z", h) \in Msg /\ Message("Z", h).tag = "Z" /\ Message("Z", h).frame = h
  BY <1>2 DEF Message, Msg
<1>4. /\ kept \in Seq(Msg) /\ kept # <<>> /\ Len(kept) \in DOMAIN kept
      /\ \A i \in DOMAIN kept : kept[i].frame = h
      /\ Kind(h) = "Query" => LastOf(kept).tag = "Z"
      /\ Kind(h) # "Query" => \A i \in DOMAIN kept : kept[i].tag = "C"
  <2> DEFINE one == <<c>>  z == Message("Z", h)  rest == Cycle(h)
  <2>1. /\ one \in Seq(Msg) /\ Len(one) = 1 /\ DOMAIN one = {1} /\ one[1] = c
    BY <1>3, SingleMessage
  <2>2. /\ rest \in Seq(Msg) /\ \A i \in DOMAIN rest : rest[i].frame = h
        /\ Kind(h) = "Query" => rest # <<>> /\ LastOf(rest) = z
        /\ Kind(h) # "Query" => DOMAIN rest = {}
    <3>1. <<z>> \in Seq(Msg) /\ Len(<<z>>) = 1 /\ DOMAIN <<z>> = {1} /\ <<z>>[1] = z
      BY <1>3, SingleMessage
    <3>2. CASE Kind(h) = "Query"
      <4>1. rest = <<z>>
        BY <3>2 DEF Cycle
      <4> QED BY <1>3, <3>1, <3>2, <4>1 DEF LastOf
    <3>3. CASE Kind(h) # "Query"
      BY <3>3 DEF Cycle
    <3> QED BY <3>2, <3>3
  <2> HIDE DEF one, z, rest, c
  <2> DEFINE both == one \o rest
  <2>3. /\ both \in Seq(Msg) /\ Len(both) = Len(one) + Len(rest)
        /\ \A i \in DOMAIN both : \/ i \in DOMAIN one /\ both[i] = one[i]
                                  \/ i - Len(one) \in DOMAIN rest /\ both[i] = rest[i - Len(one)]
    BY <2>1, <2>2, JoinMessages
  <2>4. Kind(h) = "Query" => LastOf(both) = z
    BY <2>1, <2>2, LastMessage
  <2>5. kept = both
    BY DEF kept, both, one, rest
  <2> HIDE DEF both, kept
  <2>6. both # <<>> /\ Len(both) \in DOMAIN both
    <3>1. Len(rest) \in Nat /\ Len(both) > 0 /\ DOMAIN both = 1..Len(both) /\ Len(both) \in Nat
      BY <2>1, <2>2, <2>3
    <3> QED BY <2>3, <3>1
  <2> QED BY <1>3, <2>1, <2>2, <2>3, <2>4, <2>5, <2>6 DEF z
<1>5. buffered \in Seq(Msg) /\ socket \in Seq(Msg)
  BY DEF Ordered, Typed, DatabaseTyped
<1>6. buffered \o <<c>> \o Cycle(h) = buffered \o kept
  <2>1. <<c>> \in Seq(Msg) /\ Cycle(h) \in Seq(Msg)
    BY <1>3 DEF Cycle
  <2> QED BY <1>5, <2>1, MessagesAssociate
<1> HIDE DEF c, kept
<1>7. /\ buffered' # <<>> /\ LastOf(buffered)' = LastOf(kept)
      /\ \A i \in DOMAIN buffered' : \/ buffered'[i].frame = h
                                     \/ \E j \in DOMAIN buffered : buffered'[i] = buffered[j]
      /\ Kind(h) # "Query" => \A i \in DOMAIN buffered' : buffered'[i].tag = "C"
  <2>1. CASE buffered' = kept
    BY <1>4, <2>1 DEF LastOf
  <2>2. CASE buffered' = buffered \o kept
    <3>1. buffered \o kept # <<>> /\ LastOf(buffered \o kept) = LastOf(kept)
      BY <1>4, <1>5, LastMessage
    <3>2. \A i \in DOMAIN (buffered \o kept) :
              \/ \E j \in DOMAIN buffered : (buffered \o kept)[i] = buffered[j]
              \/ \E j \in DOMAIN kept : (buffered \o kept)[i] = kept[j]
      BY <1>4, <1>5, JoinMessages
    <3>3. \A i \in DOMAIN buffered : buffered[i].tag = "C"
      BY <1>1 DEF Flowing, BurstsEnd
    <3> QED BY <1>4, <2>2, <3>1, <3>2, <3>3 DEF LastOf
  <2> QED BY <1>1, <1>6, <2>1, <2>2
<1>8. /\ ~Pushed /\ ~Pushed'
      /\ (TailTag' = TailTag /\ socket' = socket) \/ (TailTag' = "N" /\ LastOf(socket)'.tag = "N")
  <2>1. ~Pushed /\ ~Pushed'
    BY <1>1, <1>4, <1>7 DEF Pushed
  <2>2. CASE socket' = socket
    BY <1>2, <2>1, <2>2 DEF TailTag, LastOf
  <2>3. CASE socket' = socket \o buffered \o <<note>>
    <3>1. <<note>> \in Seq(Msg) /\ <<note>> # <<>> /\ LastOf(<<note>>) = note
      BY <1>3 DEF LastOf
    <3>2. socket \o buffered \in Seq(Msg)
      BY <1>5, JoinMessages
    <3>3. socket' # <<>> /\ LastOf(socket') = note
      BY <2>3, <3>1, <3>2, LastMessage
    <3>4. LastOf(socket)' = note
      BY <3>3 DEF LastOf
    <3> QED BY <1>3, <2>1, <3>3, <3>4 DEF TailTag
  <2> QED BY <1>1, <2>2, <2>3
<1>9. BurstsEnd'
  <2>1. TailTag # "E"
    BY <1>1 DEF Flowing, BurstsEnd
  <2>2. socket # <<>> /\ LastOf(socket).tag = "C" => \E f \in Flushes : LastOf(socket).frame < f
    BY DEF Flowing, BurstsEnd
  <2>3. socket' = socket => LastOf(socket)' = LastOf(socket)
    BY DEF LastOf
  <2>4. TailTag' # "E"
    BY <1>8, <2>1
  <2>5. socket' # <<>> /\ LastOf(socket)'.tag = "C" =>
            \E f \in Flushes' : LastOf(socket)'.frame < f
    BY <1>2, <1>8, <2>2, <2>3
  <2> QED BY <1>1, <1>7, <1>8, <2>4, <2>5 DEF BurstsEnd
<1>10. h \notin Flushes
  BY <1>1 DEF Flushes
<1>11. Consumed' = Consumed /\ \A s \in Consumed : s < h
  BY <1>2, <1>10 DEF Taken
<1>12. PushedOut'
  <2>1. \A s \in Consumed : \A i \in DOMAIN buffered : s < buffered[i].frame
    BY <1>8 DEF Flowing, PushedOut
  <2>2. \A s \in Consumed : \A i \in DOMAIN buffered' : s < buffered'[i].frame
    BY <1>7, <1>11, <2>1
  <2> QED BY <1>11, <2>2 DEF PushedOut
<1>13. flush.received + Credit' <= Cardinality(Consumed)
  <2>1. flush.received + Credit <= Cardinality(Consumed) /\ Cardinality(Consumed) \in Nat
    BY <1>1, TakenFlushes DEF Flowing, Settled, Ordered
  <2>2. Burst' => Burst
    BY <1>2, <1>8 DEF Burst
  <2>3. Credit \in Nat /\ Credit' \in Nat /\ Credit' <= Credit
    BY <1>8, <2>2 DEF Credit
  <2> QED BY <1>2, <2>1, <2>3
<1> QED BY <1>2, <1>9, <1>11, <1>12, <1>13 DEF Settled

(* An error sends what was kept at once and ends the burst; what follows is  *)
(* a ReadyForQuery, or nothing up to the next Sync.                          *)
LEMMA FailFlows ==
    ASSUME Ordered, Flowing, Fail
    PROVE  Forwarded' /\ BurstsEnd' /\ PushedOut' /\ Settled'
<1> DEFINE h == Head(upstream)  e == Message("E", h)  z == Message("Z", h)
<1>1. /\ DB /\ upstream # <<>> /\ upstream' = Tail(upstream) /\ UNCHANGED <<loopVars, relayVars>>
      /\ Kind(h) \in {"Query", "Execute"} /\ ~skipping /\ ~flushing
      /\ (flushing' <=> Kind(h) = "Query") /\ (skipping' <=> Kind(h) = "Execute")
      /\ socket' = socket \o buffered \o <<e>> /\ buffered' = Cycle(h)
  BY Zenon DEF DB, Fail, Database
<1>2. /\ Taken(h) /\ Forwarded' /\ Flushes' = Flushes /\ lastTag' = lastTag /\ fresh' = fresh
      /\ h \in 0..n /\ h \in Nat /\ flush' = flush /\ flush.received \in Nat /\ Flushes \subseteq Nat
      /\ \A s \in Flushes' : UpTo(s)' <= flush'.received => Clear(s)'
  BY <1>1, DatabaseTakes
<1> HIDE DEF h
<1>3. e \in Msg /\ e.tag = "E" /\ z \in Msg /\ z.tag = "Z" /\ z.frame = h
  BY <1>2 DEF Message, Msg
<1> HIDE DEF e
<1>4. socket' # <<>> /\ LastOf(socket)' = e /\ TailTag' = "E"
  <2>1. socket \in Seq(Msg) /\ buffered \in Seq(Msg)
    BY DEF Ordered, Typed, DatabaseTyped
  <2>2. <<e>> \in Seq(Msg) /\ <<e>> # <<>> /\ LastOf(<<e>>) = e
    BY <1>3 DEF LastOf
  <2>3. socket \o buffered \in Seq(Msg)
    BY <2>1, JoinMessages
  <2>4. socket' # <<>> /\ LastOf(socket') = e
    BY <1>1, <2>2, <2>3, LastMessage
  <2> QED BY <1>3, <2>4 DEF LastOf, TailTag
<1>5. /\ Kind(h) = "Query" => buffered' = <<z>>
      /\ Kind(h) # "Query" => buffered' = <<>>
  BY <1>1 DEF Cycle
<1> HIDE DEF z
<1>6. <<z>> # <<>> /\ Len(<<z>>) = 1 /\ DOMAIN <<z>> = {1} /\ <<z>>[1] = z
  BY <1>3, SingleMessage
<1>7. /\ Kind(h) = "Query" => LastOf(buffered)' = z /\ buffered' # <<>>
      /\ \A i \in DOMAIN buffered' : Kind(h) = "Query" /\ buffered'[i].frame = h
  <2>1. CASE Kind(h) = "Query"
    <3>1. LastOf(buffered') = z /\ buffered' # <<>>
      BY <1>5, <1>6, <2>1 DEF LastOf
    <3>2. \A i \in DOMAIN buffered' : buffered'[i].frame = h
      BY <1>3, <1>5, <1>6, <2>1
    <3> QED BY <2>1, <3>1, <3>2 DEF LastOf
  <2>2. CASE Kind(h) # "Query"
    BY <1>5, <2>2
  <2> QED BY <2>1, <2>2
<1>8. ~Pushed' /\ ~Burst' /\ Credit' = 0
  <2>1. ~Pushed' /\ ~Burst'
    BY <1>1, <1>3, <1>4, <1>7 DEF Pushed, Burst
  <2> QED BY <2>1 DEF Credit
<1>9. BurstsEnd'
  BY <1>1, <1>3, <1>4, <1>5, <1>7, <1>8 DEF BurstsEnd
<1>10. h \notin Flushes
  BY <1>1 DEF Flushes
<1>11. Consumed' = Consumed /\ \A s \in Consumed : s < h
  BY <1>2, <1>10 DEF Taken
<1>12. PushedOut'
  BY <1>7, <1>11 DEF PushedOut
<1>13. flush.received + Credit' <= Cardinality(Consumed)
  <2>1. flush.received + Credit <= Cardinality(Consumed) /\ Cardinality(Consumed) \in Nat
    BY <1>1, TakenFlushes DEF Flowing, Settled, Ordered
  <2>2. Credit \in Nat
    BY DEF Credit
  <2> QED BY <1>2, <1>8, <2>1, <2>2
<1> QED BY <1>2, <1>9, <1>11, <1>12, <1>13 DEF Settled

(* A burst sent whole is as many to count as it was pushed out by.           *)
LEMMA SendFlows ==
    ASSUME Ordered, Flowing, Send, "split" \notin work.events
    PROVE  Forwarded' /\ BurstsEnd' /\ PushedOut' /\ Settled'
<1>1. buffered \in Seq(Msg) /\ socket \in Seq(Msg)
      /\ \A i \in DOMAIN buffered : buffered[i].tag \in {"C", "Z"}
  BY DEF Ordered, Typed, DatabaseTyped
<1>2. /\ UNCHANGED <<loopVars, relayVars, upstream, skipping>> /\ flushing
      /\ socket' = socket \o buffered /\ buffered' = <<>> /\ ~flushing'
  <2>1. PICK k \in 1..Len(buffered) :
            /\ k = Len(buffered) /\ (flushing' <=> k < Len(buffered))
            /\ socket' = socket \o SubSeq(buffered, 1, k)
            /\ buffered' = SubSeq(buffered, k + 1, Len(buffered))
    BY Zenon DEF Send
  <2>2. SubSeq(buffered, 1, Len(buffered)) = buffered /\ Len(buffered) \in Nat
    BY <1>1
  <2>3. SubSeq(buffered, Len(buffered) + 1, Len(buffered)) = <<>>
    BY <1>1
  <2>4. ~(Len(buffered) < Len(buffered))
    BY <2>2
  <2>5. socket' = socket \o buffered /\ buffered' = <<>>
    BY <2>1, <2>2, <2>3
  <2>6. ~flushing'
    BY <2>1, <2>4
  <2>7. UNCHANGED <<loopVars, relayVars, upstream, skipping>> /\ flushing
    BY Zenon DEF Send
  <2> QED BY <2>5, <2>6, <2>7
<1>3. /\ frames' = frames /\ n' = n /\ loop' = loop /\ Queue' = Queue /\ flush' = flush
      /\ Flushes' = Flushes /\ lastTag' = lastTag /\ fresh' = fresh /\ Consumed' = Consumed
      /\ \A s : UpTo(s)' = UpTo(s)
  BY <1>2 DEF loopVars, relayVars, n, Queue, Flushes, Kind, Consumed, UpTo
<1>4. ClearStays
  BY PipelineKept DEF Ordered, Next, DB
<1>5. flush.received \in Nat /\ flush'.received = flush.received
  BY <1>3 DEF Ordered, Typed, RelayTyped
<1>6. \A s \in Flushes' : UpTo(s)' <= flush'.received => Clear(s)'
  BY <1>3, <1>4, <1>5, SettledStays DEF Ordered, Flowing
<1>7. buffered # <<>> /\ ~skipping
  BY <1>2 DEF Flowing, BurstsEnd
<1>8. /\ socket' # <<>> /\ LastOf(socket)' = LastOf(buffered) /\ LastOf(buffered).tag \in {"C", "Z"}
      /\ TailTag' = LastOf(buffered).tag
  <2>1. socket' # <<>> /\ LastOf(socket') = LastOf(buffered) /\ Len(buffered) \in DOMAIN buffered
    BY <1>1, <1>2, <1>7, LastMessage
  <2> QED BY <1>1, <2>1 DEF LastOf, TailTag
<1>9. ~Pushed' /\ (Burst' <=> Pushed)
  BY <1>2, <1>8 DEF Pushed, Burst
<1>10. DOMAIN buffered' = {}
  BY <1>2
<1>11. BurstsEnd'
  <2>1. Pushed => \E f \in Flushes : LastOf(buffered).frame < f
    BY DEF Flowing, BurstsEnd
  <2>2. LastOf(buffered).tag = "C" => Pushed
    BY <1>2 DEF Pushed
  <2>3. ~skipping' /\ TailTag' # "E"
    BY <1>2, <1>7, <1>8
  <2>4. LastOf(socket)'.tag = "C" => \E f \in Flushes' : LastOf(socket)'.frame < f
    BY <1>3, <1>8, <2>1, <2>2
  <2> QED BY <1>2, <1>9, <1>10, <2>3, <2>4 DEF BurstsEnd
<1>12. PushedOut'
  BY <1>10 DEF PushedOut
<1>13. flush.received + Credit' <= Cardinality(Consumed)
  <2>1. flush.received + Credit <= Cardinality(Consumed) /\ Cardinality(Consumed) \in Nat
    BY <1>7, TakenFlushes DEF Flowing, Settled, Ordered
  <2>2. Credit \in Nat /\ Credit' \in Nat /\ Credit' <= Credit
    BY <1>9 DEF Credit
  <2> QED BY <1>5, <2>1, <2>2
<1>14. Forwarded'
  BY <1>3 DEF Flowing, Forwarded
<1> QED BY <1>3, <1>6, <1>11, <1>12, <1>13, <1>14 DEF Settled

(* The database's side of it.                                                *)
LEMMA DatabaseFlows ==
    ASSUME Ordered, Flowing, DB, "split" \notin work.events
    PROVE  Forwarded' /\ BurstsEnd' /\ PushedOut' /\ Settled'
<1>1. CASE Close
  <2>1. UNCHANGED <<loopVars, relayVars, upstream, socket, buffered, flushing, skipping>>
    BY <1>1, Zenon DEF Close, dbVars
  <2>2. Queue' = Queue /\ Flushes' = Flushes /\ UNCHANGED <<lastTag, fresh, flush>>
    BY <2>1 DEF loopVars, relayVars, n, Queue, Flushes, Kind
  <2>3. KindsStay /\ ClearStays /\ flush'.received = flush.received
    BY <2>2, PipelineKept DEF Ordered, Next
  <2> QED BY <2>1, <2>2, <2>3, StandingFlows DEF Ordered, Flowing
<1> QED BY <1>1, DiscardFlows, AnswerSyncFlows, AnswerFlushFlows, AnswerFlows, FailFlows, SendFlows
        DEF DB

(* Where a burst of known end is behind it, the relay settles one Flush, and *)
(* the next one's answers are all out.                                       *)
LEMMA SettleFlows ==
    ASSUME Ordered, Flowing, Settle
    PROVE  Forwarded' /\ BurstsEnd' /\ PushedOut' /\ Settled'
<1>1. /\ fresh /\ ~fresh' /\ lastTag \in {"C", "E"} /\ flush.received < fwd.flush /\ socket = <<>>
      /\ UNCHANGED <<loopVars, upstream, dbVars, socket, lastTag>>
      /\ flush' = [flush EXCEPT !.received = @ + 1]
  BY Zenon DEF Settle, Settling, Terminal
<1>2. /\ Queue' = Queue /\ Flushes' = Flushes /\ Consumed' = Consumed /\ n' = n
      /\ \A s : UpTo(s)' = UpTo(s) /\ UpTo(s) \in Nat
      /\ UNCHANGED <<buffered, flushing, skipping, fwd, frames, loop>>
  BY <1>1, TakenFlushes DEF loopVars, dbVars, n, Queue, Flushes, Kind, Consumed, UpTo, Ordered
<1>3. flush.received \in Nat /\ flush'.received = flush.received + 1
  BY <1>1 DEF Ordered, Typed, RelayTyped
<1>4. Next
  BY DEF Next, RelayTask
<1>5. ClearStays /\ \A s \in Flushes : s \in 0..n /\ Kind(s) \notin Refused
  BY <1>4, PipelineKept DEF Ordered, Flushes, Refused
<1>6. /\ TailTag = lastTag /\ TailTag' = lastTag /\ (Pushed' <=> Pushed) /\ ~Burst'
      /\ (Burst <=> lastTag = "C")
      /\ LastOf(buffered)' = LastOf(buffered) /\ LastOf(socket)' = LastOf(socket)
  BY <1>1, <1>2 DEF TailTag, Pushed, Burst, LastOf
<1>7. BurstsEnd'
  BY <1>1, <1>2, <1>6 DEF Flowing, BurstsEnd
<1>8. PushedOut'
  BY <1>2, <1>6 DEF Flowing, PushedOut
<1>9. Forwarded'
  BY <1>2 DEF Flowing, Forwarded
<1>10. /\ Consumed \subseteq Flushes /\ Cardinality(Consumed) \in Nat
       /\ \A s \in Flushes \ Consumed : UpTo(s) > Cardinality(Consumed)
       /\ flush.received < Cardinality(Flushes) /\ Flushes \subseteq Nat
  BY <1>1, TakenFlushes DEF Ordered, Counted
<1>11. /\ \A i \in DOMAIN Line : Line[i] = buffered[i] /\ i \in DOMAIN buffered
       /\ \A i \in DOMAIN buffered : i \in DOMAIN Line
  BY <1>1, LineParts DEF Ordered
<1>12. ASSUME NEW s \in Consumed, Pushed => UpTo(s) < Cardinality(Consumed) PROVE Clear(s)
  <2>1. \A i \in DOMAIN Line : s < Line[i].frame
    BY <1>11, <1>12 DEF Flowing, PushedOut
  <2>2. \A k \in DOMAIN Queue : s < Queue[k]
    BY DEF Consumed
  <2> QED BY <2>1, <2>2 DEF Clear
<1> DEFINE Enough == ~skipping => flush'.received + Credit' <= Cardinality(Consumed)
           Cleared == \A s \in Flushes : UpTo(s) = flush.received + 1 => Clear(s)
<1>13. ASSUME lastTag = "C" PROVE Enough /\ Cleared
  <2>1. ~skipping
    BY <1>6, <1>13 DEF Flowing, BurstsEnd
  <2>2. flush.received + Credit <= Cardinality(Consumed)
    BY <2>1 DEF Flowing, Settled
  <2>3. Credit = 1 + Credit' /\ Credit' \in Nat /\ (Pushed => Credit' = 1)
    BY <1>6, <1>13 DEF Credit
  <2>4. Enough
    BY <1>3, <1>10, <2>2, <2>3
  <2>5. ASSUME NEW s \in Flushes, UpTo(s) = flush.received + 1 PROVE Clear(s)
    <3>1. UpTo(s) <= Cardinality(Consumed) /\ (Pushed => UpTo(s) < Cardinality(Consumed))
      BY <1>3, <1>10, <2>2, <2>3, <2>5
    <3>2. s \in Consumed
      BY <1>2, <1>10, <3>1
    <3> QED BY <1>12, <3>1, <3>2
  <2> QED BY <2>4, <2>5
<1>14. ASSUME lastTag = "E" /\ skipping PROVE Enough /\ Cleared
  <2>1. buffered = <<>> /\ Line = <<>>
    BY <1>1, <1>14, LineParts DEF Flowing, BurstsEnd, Ordered
  <2>2. ASSUME NEW s \in Flushes PROVE Clear(s)
    <3>1. ASSUME NEW k \in DOMAIN Queue, ~Doomed(k) PROVE s < Queue[k]
      <4>1. PICK i \in 1..k : Kind(Queue[i]) = "Sync"
        BY <1>14, <3>1 DEF Doomed
      <4>2. /\ k \in Nat /\ i \in DOMAIN Queue /\ Queue[i] \in Nat /\ Queue[k] \in Nat /\ s \in Nat
            /\ i <= k /\ i \in Nat
        BY <1>10, PipelineTyped DEF Ordered
      <4>3. Queue[i] \in SPs
        <5>1. Queue[i] <= n /\ n \in Nat
          BY <4>2, FramesTyped DEF Ordered, PipelineInOrder, Typed
        <5> QED BY <4>1, <4>2, <5>1 DEF SPs, SyncPoints
      <4>4. ~Clear(Queue[i])
        <5>1. ~Doomed(i)
          BY <4>1, <4>2 DEF Doomed
        <5>2. ~(Queue[i] < Queue[i])
          BY <4>2
        <5> QED BY <4>2, <5>1, <5>2 DEF Clear
      <4>5. s < Queue[i]
        BY <4>3, <4>4, FlushesBefore DEF Ordered, Flowing
      <4>6. i = k \/ Queue[i] < Queue[k]
        BY <4>2 DEF Ordered, PipelineInOrder
      <4> QED BY <4>2, <4>5, <4>6
    <3> QED BY <2>1, <3>1 DEF Clear
  <2> QED BY <1>14, <2>2
<1>15. ASSUME lastTag = "E" /\ ~skipping PROVE Enough /\ Cleared
  <2>1. flushing /\ buffered # <<>> /\ LastOf(buffered).tag = "Z"
    BY <1>6, <1>15 DEF Flowing, BurstsEnd
  <2>2. buffered \in Seq(Msg)
    BY DEF Ordered, Typed, DatabaseTyped
  <2>3. Len(buffered) \in DOMAIN buffered
    BY <2>1, <2>2
  <2>4. PICK j \in DOMAIN Line : Line[j].tag = "Z" /\ Line[j].frame \in Nat
    BY <1>11, <2>1, <2>3, PipelineTyped DEF LastOf, Ordered
  <2>5. Line[j].frame \in SPs /\ \A k \in DOMAIN Queue : Line[j].frame < Queue[k]
    BY <2>4 DEF Ordered, PipelineInOrder
  <2>6. ~Clear(Line[j].frame)
    BY <2>4 DEF Clear
  <2>7. Consumed = Flushes
    <3>1. \A k \in DOMAIN Queue : Line[j].frame <= Queue[k]
      BY <2>4, <2>5, PipelineTyped DEF Ordered
    <3> QED BY <2>5, <2>6, <3>1, FlushesBefore DEF Ordered, Flowing
  <2>8. ~Pushed /\ Credit' = 0
    BY <1>6, <2>1 DEF Pushed, Credit
  <2>9. Enough
    BY <1>3, <1>10, <2>7, <2>8
  <2>10. Cleared
    BY <1>12, <2>7, <2>8
  <2> QED BY <2>9, <2>10
<1>16. Enough /\ Cleared
  BY <1>1, <1>13, <1>14, <1>15
<1>17. ASSUME NEW s \in Flushes, UpTo(s) <= flush.received + 1 PROVE Clear(s)'
  <2>1. UpTo(s) <= flush.received \/ UpTo(s) = flush.received + 1
    BY <1>2, <1>3, <1>17
  <2>2. Clear(s)
    BY <1>16, <2>1 DEF Flowing, Settled
  <2> QED BY <1>5, <2>2 DEF ClearStays
<1> QED BY <1>2, <1>3, <1>7, <1>8, <1>9, <1>16, <1>17 DEF Settled

(* A message delivered: a ReadyForQuery settles every Flush, for it is       *)
(* behind them all, and leaves no burst to count.                            *)
LEMMA ArrivalFlows ==
    ASSUME Ordered, Flowing, Arrived, RelayTask
    PROVE  Forwarded' /\ BurstsEnd' /\ PushedOut' /\ Settled'
<1> DEFINE x == Head(socket)
<1>1. /\ socket # <<>> /\ socket' = Tail(socket) /\ lastTag' = x.tag /\ (fresh' <=> x.tag # "Z")
      /\ UNCHANGED <<loopVars, upstream, dbVars>> /\ x = Head(Line)
      /\ flush' = IF x.tag = "Z" THEN [flush EXCEPT !.received = AtLeast(@, fwd.covered)] ELSE flush
  BY Zenon DEF Arrived, Relayed, Delivered
<1>2. /\ Queue' = Queue /\ Flushes' = Flushes /\ Consumed' = Consumed /\ n' = n
      /\ \A s : UpTo(s)' = UpTo(s) /\ UpTo(s) \in Nat
      /\ UNCHANGED <<buffered, flushing, skipping, fwd>>
  BY <1>1, TakenFlushes DEF loopVars, dbVars, n, Queue, Flushes, Kind, Consumed, UpTo, Ordered
<1>3. Next
  BY DEF Next
<1>4. ClearStays /\ \A s \in Flushes : s \in 0..n /\ Kind(s) \notin Refused
  BY <1>3, PipelineKept DEF Ordered, Flushes, Refused
<1>5. /\ socket \in Seq(Msg) /\ Len(socket) \in Nat /\ Len(socket) \in DOMAIN socket
      /\ socket' = <<>> => LastOf(socket) = x
      /\ socket' # <<>> => LastOf(socket)' = LastOf(socket)
  <2>1. socket \in Seq(Msg) /\ socket # <<>>
    BY <1>1 DEF Ordered, Typed, DatabaseTyped
  <2> DEFINE t == Tail(socket)
  <2>2. t \in Seq(Msg) /\ Len(t) = Len(socket) - 1 /\ \A i \in 1..Len(t) : t[i] = socket[i + 1]
    BY <2>1, HeadTailProperties
  <2>3. Len(socket) \in Nat /\ Len(socket) > 0 /\ Len(socket) \in DOMAIN socket /\ x = socket[1]
        /\ socket' = t
    BY <1>1, <2>1
  <2> HIDE DEF t
  <2>4. ASSUME socket' = <<>> PROVE LastOf(socket) = x
    <3>1. Len(t) = 0
      BY <2>3, <2>4
    <3>2. Len(socket) = 1
      BY <2>2, <2>3, <3>1
    <3> QED BY <2>3, <3>2 DEF LastOf
  <2>5. ASSUME socket' # <<>> PROVE LastOf(socket') = LastOf(socket)
    <3>1. Len(t) \in 1..Len(t) /\ Len(t) + 1 = Len(socket)
      BY <2>2, <2>3, <2>5
    <3> QED BY <2>2, <2>3, <3>1 DEF LastOf
  <2> QED BY <2>1, <2>3, <2>4, <2>5 DEF LastOf
<1> HIDE DEF x
<1>6. /\ TailTag' = TailTag /\ (Pushed' <=> Pushed) /\ LastOf(buffered)' = LastOf(buffered)
      /\ Burst' => Burst
  <2>1. TailTag' = TailTag
    BY <1>1, <1>5 DEF TailTag, LastOf
  <2>2. LastOf(buffered)' = LastOf(buffered)
    BY <1>2 DEF LastOf
  <2> QED BY <1>1, <1>2, <2>1, <2>2 DEF Pushed, Burst
<1>7. BurstsEnd'
  <2>1. socket # <<>> /\ LastOf(socket).tag = "C" => \E f \in Flushes : LastOf(socket).frame < f
    BY DEF Flowing, BurstsEnd
  <2>2. socket' # <<>> /\ LastOf(socket)'.tag = "C" => \E f \in Flushes' : LastOf(socket)'.frame < f
    BY <1>1, <1>2, <1>5, <2>1
  <2> QED BY <1>2, <1>6, <2>2 DEF Flowing, BurstsEnd
<1>8. PushedOut'
  BY <1>2, <1>6 DEF Flowing, PushedOut
<1>9. Forwarded'
  BY <1>2 DEF Flowing, Forwarded
<1>10. Credit' <= Credit /\ Credit \in Nat /\ Credit' \in Nat
  BY <1>6 DEF Credit
<1>11. flush.received \in Nat /\ Cardinality(Consumed) \in Nat /\ Flushes \subseteq Nat
  BY TakenFlushes DEF Ordered, Typed, RelayTyped
<1>12. CASE x.tag # "Z"
  <2>1. flush'.received = flush.received
    BY <1>1, <1>12
  <2>2. \A s \in Flushes' : UpTo(s)' <= flush'.received => Clear(s)'
    BY <1>2, <1>4, <2>1, SettledStays DEF Ordered, Flowing
  <2>3. ~skipping => flush'.received + Credit' <= Cardinality(Consumed)
    BY <1>10, <1>11, <2>1 DEF Flowing, Settled
  <2> QED BY <1>2, <1>7, <1>8, <1>9, <2>2, <2>3 DEF Settled
<1>13. CASE x.tag = "Z"
  <2> DEFINE m == x.frame
  <2>1. PICK k : k = m
    OBVIOUS
  <2>2. k \in SPs /\ k \in Nat /\ ~Clear(k) /\ Clear(k)' /\ k = Head(Line).frame
    <3>1. Delivers /\ Head(Line).tag = "Z" /\ k = Head(Line).frame
      BY <1>1, <1>13, <2>1 DEF Arrived
    <3>2. k \in 0..n /\ (\A s \in Nat : s >= k => ~Clear(s)) /\ k \in SPs /\ Clear(k)'
      BY <3>1, ArrivalClears DEF Ordered
    <3> QED BY <3>1, <3>2
  <2> HIDE DEF m
  <2>3. 1 \in DOMAIN Line /\ Line[1].frame = k
        /\ \A i \in DOMAIN Line : k <= Line[i].frame /\ Line[i].frame \in Nat
    <3>1. Line \in Seq(Msg) /\ Line # <<>> /\ DOMAIN Line = 1..Len(Line) /\ Len(Line) \in Nat
      BY PipelineTyped DEF Arrived, Delivers, Ordered
    <3>2. 1 \in DOMAIN Line /\ Line[1].frame = k
      BY <2>2, <3>1
    <3>3. \A i \in DOMAIN Line : Line[i].frame \in Nat
      BY PipelineTyped DEF Ordered
    <3>4. \A i \in DOMAIN Line : i = 1 \/ Line[1].frame <= Line[i].frame
      BY <3>1, <3>2 DEF Ordered, PipelineInOrder
    <3> QED BY <2>2, <3>2, <3>3, <3>4
  <2>4. \A q \in DOMAIN Queue : k < Queue[q] /\ Queue[q] \in Nat
    BY <2>3, PipelineTyped DEF Ordered, PipelineInOrder
  <2>5. (\A f \in Flushes : f < k) /\ Consumed = Flushes
    <3>1. \A q \in DOMAIN Queue : k <= Queue[q]
      BY <2>2, <2>4
    <3> QED BY <2>2, <3>1, FlushesBefore DEF Ordered, Flowing
  <2>6. ASSUME NEW f \in Flushes PROVE Clear(f)'
    <3>1. f \in Nat /\ f < k
      BY <1>11, <2>5
    <3>2. \A i \in DOMAIN Line' : k < Line'[i].frame /\ Line'[i].frame \in Nat
      <4>1. Line' \in Seq(Msg) /\ \A y \in Msg : y.frame \in Nat
        BY PipelineTyped DEF Arrived, Delivers, Ordered, Msg
      <4>2. \A i \in DOMAIN Line' : Line'[i] \in Msg
        BY <4>1
      <4> QED BY <2>2, <4>1, <4>2 DEF Clear
    <3>3. \A i \in DOMAIN Line' : f < Line'[i].frame
      BY <2>2, <3>1, <3>2
    <3>4. \A q \in DOMAIN Queue' : f < Queue'[q]
      BY <1>2, <2>2, <2>4, <3>1
    <3> QED BY <3>3, <3>4 DEF Clear
  <2>7. flush'.received <= Cardinality(Flushes) /\ flush'.received \in Nat
    <3>1. flush.received <= Cardinality(Flushes) /\ fwd.covered <= Cardinality(Flushes)
          /\ fwd.covered \in Nat /\ flush \in [received : Nat, abandoned : Nat]
      BY DEF Ordered, Counted, Typed, LoopTyped, RelayTyped
    <3> QED BY <1>1, <1>13, <3>1 DEF AtLeast
  <2>8. \A i \in DOMAIN socket : k <= socket[i].frame /\ socket[i].frame \in Nat
    BY <2>3, LineParts DEF Ordered
  <2>9. \A i \in DOMAIN buffered : k <= buffered[i].frame /\ buffered[i].frame \in Nat
    BY <2>3, LineParts DEF Ordered
  <2>10. ~Burst'
    <3>1. CASE socket' = <<>>
      BY <1>1, <1>13, <3>1 DEF Burst, TailTag
    <3>2. CASE socket' # <<>> /\ LastOf(socket)'.tag = "C"
      <4>1. PICK f \in Flushes : LastOf(socket).frame < f
        BY <1>1, <1>5, <3>2 DEF Flowing, BurstsEnd
      <4>2. k <= LastOf(socket).frame /\ LastOf(socket).frame \in Nat
        BY <1>5, <2>8 DEF LastOf
      <4> QED BY <1>11, <2>2, <2>5, <4>1, <4>2
    <3>3. CASE socket' # <<>> /\ LastOf(socket)'.tag # "C"
      BY <3>3 DEF Burst, TailTag
    <3> QED BY <3>1, <3>2, <3>3
  <2>11. ~Pushed
    <3>1. ASSUME Pushed PROVE FALSE
      <4>1. PICK f \in Flushes : LastOf(buffered).frame < f
        BY <3>1 DEF Flowing, BurstsEnd
      <4>2. buffered # <<>> /\ buffered \in Seq(Msg)
        BY <3>1 DEF Flowing, BurstsEnd, Pushed, Ordered, Typed, DatabaseTyped
      <4>3. Len(buffered) \in DOMAIN buffered
        BY <4>2
      <4>4. k <= LastOf(buffered).frame /\ LastOf(buffered).frame \in Nat
        BY <2>9, <4>3 DEF LastOf
      <4> QED BY <1>11, <2>2, <2>5, <4>1, <4>4
    <3> QED BY <3>1
  <2>12. Credit' = 0
    BY <1>6, <2>10, <2>11 DEF Credit
  <2>13. flush'.received + Credit' <= Cardinality(Consumed)
    BY <2>5, <2>7, <2>12
  <2> QED BY <1>2, <1>7, <1>8, <1>9, <2>6, <2>13 DEF Settled
<1> QED BY <1>12, <1>13

(* The relay's side of it: only settling and delivering touch it.            *)
LEMMA RelayFlows ==
    ASSUME Ordered, Flowing, RelayTask
    PROVE  Forwarded' /\ BurstsEnd' /\ PushedOut' /\ Settled'
<1>1. CASE Deliver \/ FinishCopy
  <2>1. Relayed /\ socket # <<>>
    BY <1>1 DEF Deliver, FinishCopy, Ordered, Turn, MidFrameStops
  <2>2. Delivers /\ Head(Line) = Head(socket)
    <3>1. socket \in Seq(Msg) /\ buffered \in Seq(Msg) /\ socket' = Tail(socket)
          /\ UNCHANGED <<loopVars, upstream, dbVars>>
      BY <2>1 DEF Ordered, Typed, DatabaseTyped, Relayed
    <3>2. Line # <<>> /\ Tail(socket) \o buffered = Tail(socket \o buffered)
          /\ Head(socket \o buffered) = Head(socket)
      BY <2>1, <3>1 DEF Line
    <3> QED BY <3>1, <3>2 DEF Delivers, Line, Queue, loopVars, dbVars, n
  <2> QED BY <2>1, <2>2, ArrivalFlows DEF Arrived
<1>2. CASE Proceed \/ TakeInjection \/ GiveUp \/ OrderBudgetSpent \/ StartCopy \/ Truncate
           \/ UpstreamEnds \/ Stop
  <2>1. /\ UNCHANGED <<loopVars, upstream, socket, dbVars, lastTag, fresh>>
        /\ flush' = flush \/ flush' = [flush EXCEPT !.abandoned = AtLeast(@, Head(pending).flush)]
    BY <1>2, Zenon DEF Proceed, TakeInjection, GiveUp, OrderBudgetSpent, StartCopy, Truncate,
                UpstreamEnds, Stop
  <2>2. Queue' = Queue /\ Flushes' = Flushes /\ UNCHANGED <<skipping, buffered, flushing>>
    BY <2>1 DEF loopVars, dbVars, n, Queue, Flushes, Kind
  <2>3. flush'.received = flush.received
    BY <2>1 DEF Ordered, Typed, RelayTyped
  <2>4. KindsStay /\ ClearStays
    BY PipelineKept DEF Ordered, Next
  <2> QED BY <2>1, <2>2, <2>3, <2>4, StandingFlows DEF Ordered, Flowing
<1> QED BY <1>1, <1>2, SettleFlows DEF RelayTask

(* A session that can refuse nothing more in order cannot again.             *)
LEMMA EndedStays ==
    ASSUME Turn, ~Live, Next
    PROVE  ~Live'
<1>1. loop \notin {"reading", "forwarding", "held", "awaiting", "notice"}
      /\ channel = <<>> /\ pending = <<>>
  BY DEF Live
<1>2. ~MessageLoop
  BY <1>1 DEF MessageLoop, Forward, Read, Write, Refuse, Hold, Approved, Rejected, Abandoned, Resume,
              NoticeTimesOut
<1>3. CASE Session
  BY <1>1, <1>3 DEF Session, Unwritten, AnswerOnHandBack, LoopDropped, ClientEnds, DrainEnds,
              Abort, Live, relayVars, loopVars
<1>4. CASE DB
  <2>1. UNCHANGED <<loopVars, channel, relayVars>>
    BY <1>4 DEF DB, Discard, AnswerSync, AnswerFlush, Answer, Fail, Send, Close, Database
  <2> QED BY <1>1, <2>1 DEF Live, loopVars, relayVars
<1>5. CASE RelayTask
  <2>1. UNCHANGED loopVars /\ channel' = <<>> /\ pending' = <<>>
    BY <1>1, <1>5 DEF RelayTask, Settle, Proceed, TakeInjection, GiveUp, OrderBudgetSpent,
         Deliver, FinishCopy, Relayed, StartCopy, Truncate, UpstreamEnds, Stop, WriteQueued,
         WriteAnswer
  <2> QED BY <1>1, <2>1 DEF Live, loopVars
<1> QED BY <1>2, <1>3, <1>4, <1>5 DEF Next

(* The flush tag: everything a Flush asked for is out once as many have      *)
(* settled, or the refusals before gave up on all of it.                     *)
LEMMA FlushDue ==
    ASSUME Ordered, Next, Settled', Written(TRUE)
    PROVE  Due({"Flush"})
<1>1. /\ n \in Nat /\ Flushes \subseteq 0..n /\ IsFiniteSet(Flushes) /\ Cardinality(Flushes) \in Nat
      /\ flush.abandoned \in Nat /\ forgiven \in Nat
  BY FramesTyped, FramesFinite, FS_CardinalityType DEF Ordered, Typed, RelayTyped
<1>2. \A s \in forgiven .. (n - 1) : Kind(s) \in {"Flush"} => s \in Flushes /\ ~(s < forgiven)
  BY <1>1 DEF Flushes
<1>3. /\ StaysPut /\ frames' = frames /\ fwd' = fwd /\ Covers(flush', fwd.flush)
      /\ flush'.abandoned = flush.abandoned /\ fwd.flush = Cardinality(Flushes)
  BY DEF Written, Ordered, Counted
<1>4. CASE flush'.received >= fwd.flush
  <2>1. Flushes' = Flushes /\ \A s : UpTo(s)' = UpTo(s)
    BY <1>3 DEF Flushes, Kind, n, UpTo
  <2>2. \A s : Clear(s)' <=> Clear(s)
    BY <1>3 DEF StaysPut, Clear, Doomed, Kind
  <2>3. flush'.received \in Nat
    BY LoopKeepsTypes, DatabaseKeepsTypes, RelayKeepsTypes
       DEF Next, Ordered, Turn, Typed, RelayTyped
  <2>4. \A s \in Flushes : UpTo(s) <= flush'.received
    BY <1>1, <1>3, <1>4, <2>3, TakenFlushes DEF Ordered
  <2>5. \A s \in Flushes : Clear(s)
    BY <2>1, <2>2, <2>4 DEF Settled
  <2> QED BY <1>2, <2>5 DEF Due
<1>5. CASE flush.abandoned >= fwd.flush
  <2>1. Cardinality({s \in Flushes : s < forgiven}) >= Cardinality(Flushes)
    BY <1>1, <1>3, <1>5 DEF Ordered, Counted
  <2>2. {s \in Flushes : s < forgiven} = Flushes
    BY <1>1, <2>1, AllOfThem
  <2> QED BY <1>2, <2>2 DEF Due
<1> QED BY <1>3, <1>4, <1>5 DEF Covers

(* An overlap is never taken back.                                           *)
LEMMA OverlapStays ==
    ASSUME Typed, Turn, Next, overlapped
    PROVE  overlapped'
<1>1. CASE NoRecount
  BY <1>1 DEF NoRecount
<1>2. CASE Recount
  <2>1. PICK k \in FrameKinds \ Refused : Count(k)
    BY <1>2 DEF Recount
  <2> QED BY <2>1, Zenon DEF Count
<1> QED BY <1>1, <1>2, FramesCounted

(* The flush side holds until a step gives up one of its conditions.         *)
LEMMA FlowsOn ==
    ASSUME Ordered, Flowing, Next, ~overlapped', "split" \notin work.events
    PROVE  Flowing' \/ (LoopDropped /\ loop = "forwarding")
<1>1. NoOverlap'
  BY NoOverlapKept DEF Ordered, Flowing
<1>2. \/ LoopDropped /\ loop = "forwarding"
      \/ Forwarded' /\ BurstsEnd' /\ PushedOut' /\ Settled'
  BY LoopFlows, DatabaseFlows, RelayFlows DEF Next
<1> QED BY <1>1, <1>2 DEF Flowing

(* Both sides of the barrier: where the flush side's conditions hold, so     *)
(* does the order of every refusal so far behind what a Flush asked for.     *)
LEMMA FlushSideStep == IInv /\ [Next]_vars => (FlushSide /\ FlushKept)'
<1> SUFFICES ASSUME IInv, [Next]_vars PROVE FlushSide' /\ FlushKept'
  OBVIOUS
<1> USE DEF IInv
<1>1. CASE Next
  <2>1. Typed /\ Turn /\ PipelineInOrder
    BY DEF Ordered
  <2>2. work' = work
    BY <1>1, Zenon DEF Next, MessageLoop, Session, DB, RelayTask, Forward, Write, Refuse, Hold,
       Approved, Rejected, Abandoned, Resume, NoticeTimesOut, Unwritten, AnswerOnHandBack,
       LoopDropped, ClientEnds, DrainEnds, Abort, Database, Discard, AnswerSync, AnswerFlush,
       Answer, Fail, Send, Close, Settle, Proceed, TakeInjection, GiveUp, OrderBudgetSpent,
       Deliver, StartCopy, FinishCopy, Relayed, Truncate, UpstreamEnds, Stop
  <2>3. CASE overlapped
    BY <1>1, <2>1, <2>3, OverlapStays DEF FlushSide, FlushKept
  <2>4. CASE "split" \in work.events
    BY <2>2, <2>4 DEF FlushSide, FlushKept
  <2>5. CASE ~overlapped /\ "split" \notin work.events
    <3>1. CASE overlapped'
      BY <3>1 DEF FlushSide, FlushKept
    <3>2. CASE ~overlapped'
      <4>1. ~Live => ~Live'
        BY <1>1, <2>1, EndedStays
      <4>2. ~Live \/ Flowing
        BY <2>5 DEF FlushSide
      <4>3. Flowing => Flowing' \/ (LoopDropped /\ loop = "forwarding")
        BY <1>1, <2>5, <3>2, FlowsOn
      <4>4. ASSUME LoopDropped, loop = "forwarding" PROVE ~Live' /\ client' = client
        <5>1. channel = <<>> /\ pending = <<>>
          BY <2>1, <4>4 DEF Turn, OneOnItsWay
        <5> QED BY <4>4, <5>1 DEF LoopDropped, Live, relayVars
      <4>5. FlushSide'
        BY <4>1, <4>2, <4>3, <4>4 DEF FlushSide
      <4>6. ASSUME Written(TRUE) PROVE Due({"Flush"})
        <5>1. Live
          BY <4>6 DEF Written, Live
        <5>2. client' # client
          <6>1. client \in Seq(Msg \union Ref) /\ client' = Append(client, Refusal(n, TRUE))
            BY <2>1, <4>6 DEF Typed, ClientTyped, Written
          <6>2. Len(client') = Len(client) + 1 /\ Len(client) \in Nat
            BY <6>1
          <6> QED BY <6>2
        <5>3. Settled'
          BY <4>2, <4>3, <4>4, <5>1, <5>2 DEF Flowing
        <5> QED BY <1>1, <4>6, <5>3, FlushDue
      <4>7. Kept({"Flush"}) /\ {"Flush"} \in SUBSET (FrameKinds \ Refused)
        BY <2>5 DEF FlushKept, FrameKinds, Refused
      <4>8. Kept({"Flush"})'
        BY <1>1, <2>1, <4>6, <4>7, OrderKept
      <4> QED BY <4>5, <4>8 DEF FlushKept
    <3> QED BY <3>1, <3>2
  <2> QED BY <2>3, <2>4, <2>5
<1>2. CASE UNCHANGED vars
  <2>1. UNCHANGED <<work, frames, loop, fwd, overlapped, channel, acked, upstream, buffered,
                    flushing, skipping, socket, closed, relay, pending, sync, flush, fresh,
                    lastTag, client, midFrame, forgiven>>
    BY <1>2 DEF vars, loopVars, dbVars, relayVars
  <2>2. Queue' = Queue /\ Line' = Line /\ SPs' = SPs /\ Flushes' = Flushes /\ n' = n
        /\ Refusals' = Refusals /\ (\A m : Kind(m)' = Kind(m))
    BY <2>1 DEF Queue, Line, SPs, Flushes, Kind, n, Refusals
  <2>3. \A s : Clear(s)' <=> Clear(s)
    BY <2>1, <2>2 DEF Clear, Doomed, Kind
  <2>4. FlushKept'
    BY <2>1, <2>2, <2>3 DEF FlushKept, Kept, Overtaken
  <2>5. Consumed' = Consumed /\ (\A s : UpTo(s)' = UpTo(s)) /\ TailTag' = TailTag
        /\ Pushed' = Pushed /\ Credit' = Credit
    BY <2>1, <2>2 DEF Consumed, UpTo, TailTag, Pushed, Credit, Burst, LastOf
  <2>6. Forwarded' <=> Forwarded
    BY <2>2, <2>5 DEF Forwarded
  <2>7. NoOverlap' <=> NoOverlap
    BY <2>2, <2>3 DEF NoOverlap
  <2>8. BurstsEnd' <=> BurstsEnd
    BY <2>1, <2>2, <2>5 DEF BurstsEnd, LastOf
  <2>9. PushedOut' <=> PushedOut
    BY <2>1, <2>5 DEF PushedOut
  <2>10. Settled' <=> Settled
    BY <2>1, <2>2, <2>3, <2>5 DEF Settled
  <2>11. Flowing' <=> Flowing
    BY <2>6, <2>7, <2>8, <2>9, <2>10 DEF Flowing
  <2>12. Live' <=> Live
    BY <2>1 DEF Live
  <2> QED BY <2>1, <2>4, <2>11, <2>12 DEF FlushSide
<1> QED BY <1>1, <1>2

(* At the start nothing has been flushed, sent or settled.                   *)
LEMMA FlushSideInit == Init => FlushSide /\ FlushKept
<1> SUFFICES ASSUME Init PROVE FlushSide /\ FlushKept
  OBVIOUS
<1>1. /\ n = 0 /\ Flushes = {} /\ SPs \subseteq Nat
  <2>1. n = 0 /\ 0..n = {0} /\ Kind(0) = "Sync"
    BY DEF Init, n, Kind
  <2> QED BY <2>1 DEF Flushes, SPs
<1>2. /\ buffered = <<>> /\ DOMAIN buffered = {} /\ ~flushing /\ ~skipping /\ socket = <<>>
      /\ lastTag = "none" /\ ~fresh /\ flush.received = 0
  BY DEF Init, Fresh
<1>3. Consumed = {} /\ Cardinality(Consumed) = 0
  BY <1>1, FS_EmptySet DEF Consumed
<1>4. TailTag = "none" /\ ~Pushed /\ ~Burst
  BY <1>2 DEF TailTag, Pushed, Burst
<1>5. Forwarded /\ NoOverlap /\ PushedOut
  BY <1>1, <1>2, <1>3 DEF Forwarded, NoOverlap, PushedOut
<1>6. BurstsEnd
  BY <1>2, <1>4 DEF BurstsEnd
<1>7. Credit = 0
  BY <1>4 DEF Credit
<1>8. Settled
  BY <1>1, <1>2, <1>3, <1>7 DEF Settled
<1> QED BY <1>5, <1>6, <1>8, PipelineInit DEF Flowing, FlushSide, FlushKept

(* A refusal keeps its place among the answers: behind the answer to every   *)
(* cycle ended before it, behind whatever a Flush asked for before it (when  *)
(* no Flush overlaps a cycle and bursts arrive whole), and by true counts.   *)
THEOREM RefusalsKeepTheirPlace == Spec => []RefusalInItsPlace
<1>1. Init => FlushSide /\ FlushKept
  BY FlushSideInit
<1>2. Spec => []FlushKept
  <2>1. Ordered /\ (FlushSide /\ FlushKept) /\ [Next]_vars => (FlushSide /\ FlushKept)'
    BY FlushSideStep DEF IInv
  <2> QED BY <1>1, <2>1, OrderedInvariant, PTL DEF Spec
<1>3. FlushKept => RefusalBehindFlushes
  BY DEF FlushKept, Kept, RefusalBehindFlushes
<1>4. RefusalBehindSyncs /\ CountsAreTruthful /\ RefusalBehindFlushes => RefusalInItsPlace
  BY DEF RefusalInItsPlace
<1> QED BY <1>2, <1>3, <1>4, RefusalsBehindSyncs, PTL
=============================================================================
