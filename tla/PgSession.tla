----------------------------- MODULE PgSession ------------------------------
(***************************************************************************)
(* The client's side of one PostgreSQL session: `startup` and the message  *)
(* loop reading frames out of a byte stream, the policy asked about every  *)
(* statement, and the watch on the socket while a statement is held, whose *)
(* bytes must come back to the loop (`HeldReader`).  What the relay does   *)
(* with the refusals handed to it is module PgRelay's.                     *)
(***************************************************************************)
EXTENDS Naturals, Sequences, FiniteSets, SequencesExt

CONSTANTS Workloads,       \* what a behaviour exercises: here streams, the
                           \* sequences of frames a client may send
          MaxPgFrame,      \* MAX_PG_FRAME, in units
          MaxHeldPipeline  \* MAX_HELD_PIPELINE, in units
\* A frame is [kind, size, text, verdict]: its tag or startup code, its length
\* in units of the stream, whether its statement can be inspected, and the
\* policy's verdict on it.

VARIABLES load,     \* the workload
          frames,   \* the stream's frames
          unread,   \* the first of its units still on the socket
          pending,  \* HeldReader: units the watch took, the loop's still to read
          reading,  \* the units of the frame being read
          session,  \* "off", "startup", "loop", "copy", "discard", "held" or "ended"
          upstream, \* units written to the database
          approved, \* frames a human let through
          closing   \* the client has sent its last unit: "no", "eof" or "reset"

pgVars == <<load, frames, unread, pending, reading, session, upstream, approved,
            closing>>

PgInit ==
    /\ load \in Workloads /\ frames \in load.streams
    /\ unread = <<1, 1>> /\ pending = <<>> /\ reading = <<>> /\ upstream = <<>>
    /\ session = "off" /\ approved = {} /\ closing = "no"

(* Unit <<f, k>> is the k-th of frame f; the stream has them in this order. *)
Units == UNION {{<<f, k>> : k \in 1 .. frames[f].size} : f \in DOMAIN frames}
Following(u) == IF u[2] < frames[u[1]].size THEN <<u[1], u[2] + 1>> ELSE <<u[1] + 1, 1>>
Before(u, v) == u[1] < v[1] \/ (u[1] = v[1] /\ u[2] < v[2])
Exhausted == unread[1] > Len(frames)

Frame == frames[reading[1][1]]
Whole == reading # <<>> /\ Len(reading) = Frame.size
Statement == Frame.kind \in {"Q", "P"}
Oversized == Statement /\ Frame.size > MaxPgFrame
CopiesOrDiscards == session = "loop" /\ reading # <<>> /\ (~Statement \/ Oversized)
Encryption == {"SSLRequest", "GSSENCRequest"}

(* No frame is empty, and a request for encryption is one only before the  *)
(* startup message: what follows it is read as tagged messages.            *)
ASSUME StreamAssumption ==
    /\ MaxPgFrame \in Nat /\ MaxHeldPipeline \in Nat
    /\ \A w \in Workloads : \A s \in w.streams :
          /\ Len(s) \in Nat /\ DOMAIN s = 1 .. Len(s)
          /\ \A f \in DOMAIN s : s[f].size \in Nat \ {0}
          /\ \A f, g \in DOMAIN s :
                f < g /\ s[g].kind \in Encryption => s[f].kind \in Encryption

End == session' = "ended"

(* HeldReader::poll_read: what the watch buffered first, then the socket.  *)
Take ==
    IF pending # <<>>
    THEN /\ reading' = Append(reading, Head(pending))
         /\ pending' = Tail(pending) /\ UNCHANGED unread
    ELSE /\ ~Exhausted
         /\ reading' = Append(reading, unread)
         /\ unread' = Following(unread) /\ UNCHANGED pending

ReadMore ==
    /\ session \in {"startup", "loop"}
    /\ ~Whole /\ ~CopiesOrDiscards
    /\ Take
    /\ UNCHANGED <<load, frames, session, upstream, approved, closing>>

(* read_exact finds the end of the stream or an error instead.             *)
ReadFails ==
    /\ session \in {"startup", "loop", "copy", "discard"}
    /\ ~Whole
    /\ pending = <<>> /\ closing # "no" /\ (closing = "eof" => Exhausted)
    /\ End
    /\ UNCHANGED <<load, frames, unread, pending, reading, upstream, approved, closing>>

(* startup: encryption is declined and the client asks again, a cancel     *)
(* request and the startup message go through, anything else ends it.      *)
Startup ==
    /\ session = "startup" /\ Whole
    /\ reading' = <<>>
    /\ CASE Frame.kind \in Encryption /\ Frame.size = 1 -> UNCHANGED <<session, upstream>>
         [] Frame.kind = "StartupMessage" /\ Frame.size <= MaxPgFrame ->
                session' = "loop" /\ upstream' = upstream \o reading
         [] Frame.kind = "CancelRequest" -> End /\ upstream' = upstream \o reading
         [] OTHER -> End /\ UNCHANGED upstream
    /\ UNCHANGED <<load, frames, unread, pending, approved, closing>>


(* message_loop: a frame that bears no statement is copied as it arrives,  *)
(* an oversized one is read to its end and refused.                        *)
CopyExact ==
    /\ CopiesOrDiscards
    /\ session' = IF Oversized THEN "discard" ELSE "copy"
    /\ upstream' = IF Statement THEN upstream ELSE upstream \o reading
    /\ UNCHANGED <<load, frames, unread, pending, reading, approved, closing>>

CopyMore ==
    /\ session \in {"copy", "discard"} /\ ~Whole
    /\ Take
    /\ upstream' = IF session = "copy" THEN Append(upstream, Last(reading')) ELSE upstream
    /\ UNCHANGED <<load, frames, session, approved, closing>>

CopyDone ==
    /\ session \in {"copy", "discard"} /\ Whole
    /\ session' = "loop" /\ reading' = <<>>
    /\ UNCHANGED <<load, frames, unread, pending, upstream, approved, closing>>

(* A frame read whole: refused unread when its statement cannot be         *)
(* inspected, else decided.                                                *)
Inspectable(f) == /\ f.text \notin {"do block", "unparseable"}
                  /\ f.text = "multiple" => f.kind # "Q"
Judging == session = "loop" /\ Whole /\ Statement /\ ~Oversized

Forward ==
    /\ Judging /\ Inspectable(Frame) /\ Frame.verdict = "allow"
    /\ upstream' = upstream \o reading
    /\ reading' = <<>>
    /\ UNCHANGED <<load, frames, unread, pending, session, approved, closing>>

Refuse ==
    /\ Judging /\ (~Inspectable(Frame) \/ Frame.verdict = "deny")
    /\ reading' = <<>>
    /\ UNCHANGED <<load, frames, unread, pending, session, upstream, approved, closing>>

\* As if a hold began with an empty buffer, whatever an earlier one left.
HoldAfresh ==
    /\ Judging /\ Inspectable(Frame) /\ Frame.verdict = "pause"
    /\ session' = "held" /\ pending' = <<>>
    /\ UNCHANGED <<load, frames, unread, reading, upstream, approved, closing>>

Hold ==
    /\ Judging /\ Inspectable(Frame) /\ Frame.verdict = "pause"
    /\ session' = "held"
    /\ UNCHANGED <<load, frames, unread, pending, reading, upstream, approved, closing>>

PipelineFull == Len(pending) >= MaxHeldPipeline

(* watch_disconnect: takes what the client pipelines while it waits, here  *)
(* unit by unit.                                                           *)
WatchReads ==
    /\ session = "held" /\ ~PipelineFull /\ ~Exhausted /\ closing # "reset"
    /\ pending' = Append(pending, unread)
    /\ unread' = Following(unread)
    /\ UNCHANGED <<load, frames, reading, session, upstream, approved, closing>>

(* The watch ends the hold: the client is gone, or has pipelined too much, *)
(* which refuses the statement and keeps the session.                      *)
Abandoned ==
    /\ session = "held"
    /\ \/ PipelineFull /\ session' = "loop" /\ reading' = <<>>
       \/ ~PipelineFull /\ closing # "no" /\ (closing = "eof" => Exhausted) /\ End
          /\ UNCHANGED reading
    /\ UNCHANGED <<load, frames, unread, pending, upstream, approved, closing>>

(* Approved by a human; rejected, timed out, or the queue was full.        *)
Approve ==
    /\ session = "held"
    /\ approved' = approved \union {reading[1][1]}
    /\ upstream' = upstream \o reading
    /\ reading' = <<>> /\ session' = "loop"
    /\ UNCHANGED <<load, frames, unread, pending, closing>>

Rejected ==
    /\ session = "held"
    /\ reading' = <<>> /\ session' = "loop"
    /\ UNCHANGED <<load, frames, unread, pending, upstream, approved, closing>>

(* The relay ended, by the database or the client's socket: run_postgres   *)
(* drops the loop wherever it is.                                          *)
RelayEnds ==
    /\ session \in {"startup", "loop", "copy", "discard", "held"}
    /\ End
    /\ UNCHANGED <<load, frames, unread, pending, reading, upstream, approved, closing>>

ClientCloses ==
    /\ session \notin {"off", "ended"} /\ closing = "no"
    /\ \/ closing' = "eof" /\ Exhausted
       \/ closing' = "reset"
    /\ UNCHANGED <<load, frames, unread, pending, reading, session, upstream, approved>>

PgStep == \/ ReadMore \/ ReadFails \/ Startup \/ CopyExact \/ CopyMore \/ CopyDone
          \/ Forward \/ Refuse \/ Hold \/ WatchReads \/ Abandoned \/ Approve \/ Rejected
          \/ RelayEnds \/ ClientCloses

-----------------------------------------------------------------------------
(* Does a frame of the loop belong upstream?                               *)
Judged(f) ==
    /\ frames[f].kind \notin Encryption
    /\ frames[f].kind \in {"Q", "P"} =>
            /\ frames[f].size <= MaxPgFrame /\ Inspectable(frames[f])
            /\ \/ frames[f].verdict = "allow"
               \/ frames[f].verdict = "pause" /\ f \in approved

(* Where the loop is in the stream: at the frame it reads, has read or     *)
(* holds, else at the unit it reads next.                                  *)
Position == IF reading # <<>> THEN Head(reading)
            ELSE IF pending # <<>> THEN Head(pending) ELSE unread

(* The database has the units before v of the frames that passed, each     *)
(* once, in their order, and nothing else.                                 *)
HasJudgedBefore(v) ==
    /\ \A i, j \in DOMAIN upstream : i < j => Before(upstream[i], upstream[j])
    /\ ToSet(upstream) = {u \in Units : Judged(u[1]) /\ Before(u, v)}

(* The database gets the client's frames in order and unaltered, up to     *)
(* where the session is, all of those that passed and nothing of any other,*)
(* a frame being read or held included, however often a hold's watch read  *)
(* ahead, was cut short by an answer and started over (HeldReader's        *)
(* pushback); and the watch never buffers more than its budget.            *)
OnlyJudgedReach ==
    /\ \E v \in Units \union {unread} : ~Before(unread, v) /\ HasJudgedBefore(v)
    /\ session \in {"loop", "held"} => HasJudgedBefore(Position)
    /\ Len(pending) <= MaxHeldPipeline
=============================================================================
