--------------------------------- MODULE Pump ---------------------------------
(***************************************************************************)
(* isolate/bridge.rs: the pump that carries connections across a namespace *)
(* boundary.  One accept loop, a thread per connection, and in it a second *)
(* one, so that each direction has a copier of its own.  Module Isolation  *)
(* opens its gate and ends the process it runs in; who talks through it is *)
(* a client and a server whose conversation a workload describes.          *)
(***************************************************************************)
EXTENDS Naturals, FiniteSets

CONSTANTS Conns,              \* connections the sandboxed command opens
          MaxConnections,     \* MAX_CONCURRENT_CONNECTIONS
          AcceptFailureLimit, \* ACCEPT_FAILURE_LIMIT
          Workloads
\* Of a workload:
\*   talks,    for each connection that is made [greets, asks, answers]: does the
\*             server speak first, how many chunks the client sends before it
\*             half-closes, how many the server sends once it has seen that end
\*   broken,   is the listener broken for good
\*   pressure, bound: accepts that fail for want of a resource
\*   upsets,   bound: accepts that fail for another reason
\*   mishaps,  bound: dials, threads and ends of a conversation that fail

ASSUME PumpAssumption == MaxConnections \in Nat \ {0} /\ AcceptFailureLimit \in Nat \ {0}

VARIABLES load,   \* the workload, and what is left of its bounds
          pump,   \* the accept loop: [at, inbound, failures], parked until its gate opens
          live,   \* the shared count of connections
          conn,   \* where each connection is
          gone,   \* <<connection, end>>: ends that have vanished
          stream, \* per connection and direction [said, shut, carried, copier, eof]
          upset   \* hard failures since the listener last delivered

talkVars == <<pump, live, conn, gone, stream, upset>>
pumpVars == <<load, talkVars>>

Directions == {"out", "back"}
Origin == [out |-> "client", back |-> "server"]
Reader == [out |-> "server", back |-> "client"]
Quiet == [said |-> 0, shut |-> FALSE, carried |-> 0, copier |-> "none", eof |-> FALSE]
Over == {"refused", "dropped", "closed", "cut"}

PumpInit ==
    /\ pump = [at |-> "parked", inbound |-> "none", failures |-> 0]
    /\ live = 0 /\ upset = 0 /\ gone = {}
    /\ conn = [c \in Conns |-> "away"]
    /\ stream = [c \in Conns |-> [d \in Directions |-> Quiet]]

Spend(budget) == load[budget] > 0 /\ load' = [load EXCEPT ![budget] = @ - 1]

GateOpens ==
    /\ pump' = [pump EXCEPT !.at = "accept"]
    /\ UNCHANGED <<live, conn, gone, stream, upset>>

(* The pump's process ends, and whatever it carried is cut.                *)
PumpGone ==
    /\ pump' = [at |-> "stopped", inbound |-> "none", failures |-> 0]
    /\ conn' = [c \in Conns |-> IF conn[c] \in Over \union {"away"} THEN conn[c] ELSE "cut"]
    /\ stream' = [c \in Conns |-> [d \in Directions |-> Quiet]]
    /\ live' = 0 /\ upset' = 0 /\ gone' = {}

\* The kernel queues a connection until accept hands it out.
Connects(c) ==
    /\ conn[c] = "away" /\ c \in DOMAIN load.talks
    /\ conn' = [conn EXCEPT ![c] = IF pump.at = "stopped" THEN "refused" ELSE "queued"]
    /\ UNCHANGED <<load, pump, live, gone, stream, upset>>

Accepts(c) ==
    /\ pump.at = "accept" /\ conn[c] = "queued" /\ ~load.broken
    /\ pump' = [at |-> "admit", inbound |-> c, failures |-> 0]
    /\ upset' = 0
    /\ UNCHANGED <<load, live, conn, gone, stream>>

(* is_recoverable: aborted handshakes and exhausted resources are retried  *)
(* outside the failure budget.  The pauses, which only space the tries,    *)
(* are left out.                                                           *)
AcceptUnderPressure ==
    /\ pump.at = "accept" /\ Spend("pressure")
    /\ UNCHANGED <<pump, live, conn, gone, stream, upset>>

(* Any other failure counts.  At the limit serve returns, and the listener *)
(* it owns closes on whoever is queued.  A listener that is not broken     *)
(* comes back before that.                                                 *)
AcceptFails ==
    /\ pump.at = "accept"
    /\ load.broken \/ upset + 1 < AcceptFailureLimit
    /\ IF load.broken THEN UNCHANGED load ELSE Spend("upsets")
    /\ upset' = IF load.broken THEN upset ELSE upset + 1
    /\ IF pump.failures + 1 < AcceptFailureLimit
       THEN pump' = [pump EXCEPT !.failures = @ + 1] /\ UNCHANGED conn
       ELSE /\ pump' = [pump EXCEPT !.failures = @ + 1, !.at = "stopped"]
            /\ conn' = [c \in Conns |-> IF conn[c] = "queued" THEN "dropped" ELSE conn[c]]
    /\ UNCHANGED <<live, gone, stream>>

(* fetch_add, and what it returned compared with the cap.                  *)
Admit ==
    /\ pump.at = "admit"
    /\ live' = live + 1
    /\ pump' = [pump EXCEPT !.at = IF live >= MaxConnections THEN "retreat" ELSE "thread"]
    /\ UNCHANGED <<load, conn, gone, stream, upset>>

Settled(c, step) == /\ conn' = [conn EXCEPT ![c] = step]
                    /\ pump' = [pump EXCEPT !.at = "accept", !.inbound = "none"]

(* Over the cap the newest connection is the one dropped.                  *)
Retreat ==
    /\ pump.at = "retreat"
    /\ live' = live - 1
    /\ Settled(pump.inbound, "dropped")
    /\ UNCHANGED <<load, gone, stream, upset>>

StartThread ==
    /\ pump.at = "thread"
    /\ Settled(pump.inbound, "dialling")
    /\ UNCHANGED <<load, live, gone, stream, upset>>

(* The failed spawn drops the closure, and with it the ConnectionSlot.     *)
ThreadFails ==
    /\ pump.at = "thread" /\ Spend("mishaps")
    /\ live' = live - 1
    /\ Settled(pump.inbound, "dropped")
    /\ UNCHANGED <<gone, stream, upset>>

(* The upstream answers, and splice starts its two copiers.                *)
Dial(c) ==
    /\ conn[c] = "dialling"
    /\ conn' = [conn EXCEPT ![c] = "spliced"]
    /\ stream' = [stream EXCEPT ![c] = [d \in Directions |->
                                            [stream[c][d] EXCEPT !.copier = "copying"]]]
    /\ UNCHANGED <<load, pump, live, gone, upset>>

\* As if only a spliced connection gave its slot back.
DialFailsKeepingSlot(c) ==
    /\ conn[c] = "dialling" /\ Spend("mishaps")
    /\ conn' = [conn EXCEPT ![c] = "dropped"]
    /\ UNCHANGED <<pump, live, gone, stream, upset>>

(* The dial fails, a handle cannot be duplicated, or the second thread     *)
(* cannot start and its panic unwinds this one: both ends are dropped, and *)
(* the slot with them.                                                     *)
DialFails(c) ==
    /\ conn[c] = "dialling" /\ Spend("mishaps")
    /\ conn' = [conn EXCEPT ![c] = "dropped"]
    /\ live' = live - 1
    /\ UNCHANGED <<pump, gone, stream, upset>>

On(c, d) == stream[c][d]
Copying(c, d) == conn[c] = "spliced" /\ On(c, d).copier = "copying"
Set(c, d, s) == stream' = [stream EXCEPT ![c][d] = s]
Vanished(c, end) == <<c, end>> \in gone

\* As if one thread copied one direction and then the other.
CarryInTurn(c, d) ==
    /\ Copying(c, d) /\ On(c, d).carried < On(c, d).said
    /\ d = "back" => On(c, "out").copier = "done"
    /\ ~Vanished(c, Reader[d])
    /\ Set(c, d, [On(c, d) EXCEPT !.carried = @ + 1])
    /\ UNCHANGED <<load, pump, live, conn, gone, upset>>

(* io::copy, chunk by chunk.                                               *)
Carry(c, d) ==
    /\ Copying(c, d) /\ On(c, d).carried < On(c, d).said
    /\ ~Vanished(c, Reader[d])
    /\ Set(c, d, [On(c, d) EXCEPT !.carried = @ + 1])
    /\ UNCHANGED <<load, pump, live, conn, gone, upset>>

(* The copy ends at the origin's end, when the origin has vanished, or on  *)
(* a write nobody reads; its reader's half is then shut.                   *)
CopyEnds(c, d) ==
    /\ Copying(c, d)
    /\ \/ On(c, d).shut /\ On(c, d).carried = On(c, d).said
       \/ Vanished(c, Origin[d])
       \/ Vanished(c, Reader[d]) /\ On(c, d).carried < On(c, d).said
    /\ Set(c, d, [On(c, d) EXCEPT !.copier = "done", !.eof = TRUE])
    /\ UNCHANGED <<load, pump, live, conn, gone, upset>>

(* splice returns once both directions are done; the slot is dropped last. *)
Finish(c) ==
    /\ conn[c] = "spliced" /\ \A d \in Directions : On(c, d).copier = "done"
    /\ conn' = [conn EXCEPT ![c] = "closed"]
    /\ live' = live - 1
    /\ UNCHANGED <<load, pump, gone, stream, upset>>

-----------------------------------------------------------------------------
(* The two ends.  The server may greet; the client asks and half-closes;   *)
(* the server answers what it has read to its end and closes.              *)
Talk(c) == load.talks[c]
Greeting(c) == IF Talk(c).greets THEN 1 ELSE 0

Says(c, d) == Set(c, d, [On(c, d) EXCEPT !.said = @ + 1])
Shuts(c, d) == Set(c, d, [On(c, d) EXCEPT !.shut = TRUE])

ClientMoves(c) ==
    /\ conn[c] \notin Over \union {"away"} /\ ~Vanished(c, "client") /\ ~On(c, "out").shut
    /\ \/ /\ On(c, "back").carried >= Greeting(c) /\ On(c, "out").said < Talk(c).asks
          /\ Says(c, "out")
       \/ /\ On(c, "out").said = Talk(c).asks \/ On(c, "back").eof
          /\ Shuts(c, "out")
    /\ UNCHANGED <<load, pump, live, conn, gone, upset>>

ServerMoves(c) ==
    /\ conn[c] = "spliced" /\ ~Vanished(c, "server") /\ ~On(c, "back").shut
    /\ LET due == Greeting(c) + (IF On(c, "out").eof THEN Talk(c).answers ELSE 0) IN
       IF On(c, "back").said < due THEN Says(c, "back")
       ELSE On(c, "out").eof /\ Shuts(c, "back")
    /\ UNCHANGED <<load, pump, live, conn, gone, upset>>

Vanishes(c, end) ==
    /\ conn[c] = "spliced" /\ ~Vanished(c, end) /\ Spend("mishaps")
    /\ gone' = gone \union {<<c, end>>}
    /\ UNCHANGED <<pump, live, conn, stream, upset>>

-----------------------------------------------------------------------------
Loop == Admit \/ Retreat \/ StartThread \/ ThreadFails
Thread(c) == Dial(c) \/ DialFails(c) \/ Finish(c)

(* What the threads, and the two ends, do of themselves.                   *)
Working ==
    \/ Loop \/ (load.broken /\ AcceptFails)
    \/ \E c \in Conns :
          \/ Accepts(c) \/ Thread(c) \/ ClientMoves(c) \/ ServerMoves(c)
          \/ \E d \in Directions : Carry(c, d) \/ CopyEnds(c, d)

PumpNext ==
    \/ Working \/ AcceptUnderPressure \/ AcceptFails
    \/ \E c \in Conns, end \in {"client", "server"} : Vanishes(c, end)

(* Someone goes on while anyone can; since a conversation is finite, nobody *)
(* is passed over for ever.                                                *)
PumpFairness == WF_pumpVars(Working)

-----------------------------------------------------------------------------
(* The count the cap is compared with is the number of connections that    *)
(* have a thread, but for the one the accept loop is deciding on, however  *)
(* each of the others ended; so no more than the cap ever run (ADR-0005's  *)
(* supervisor must survive its child).                                     *)
SlotsTellTheTruth ==
    LET running == {c \in Conns : conn[c] \in {"dialling", "spliced"}} IN
    /\ live = Cardinality(running) + (IF pump.at \in {"thread", "retreat"} THEN 1 ELSE 0)
    /\ Cardinality(running) <= MaxConnections

(* A reader is shown the end of a direction only after everything its      *)
(* origin said, unless one of the two has vanished: the half-close of the  *)
(* question does not cut the answer short.                                 *)
EofMeansAll ==
    \A c \in Conns, d \in Directions :
        On(c, d).eof =>
            \/ On(c, d).shut /\ On(c, d).carried = On(c, d).said
            \/ \E end \in {"client", "server"} : Vanished(c, end)

(* While its process lives, the sandbox loses its route only to a listener *)
(* that is broken for good, not to resources that were short for a while,  *)
(* nor to failures with deliveries between them.                           *)
StopsOnlyWhenBroken(alive) == alive /\ pump.at = "stopped" => load.broken

(* Every connection comes to an end both sides see: spliced, with either   *)
(* end speaking first, dropped at the cap, or refused.                     *)
EveryConversationEnds ==
    \A c \in Conns : conn[c] = "queued" ~> conn[c] \in Over
=============================================================================
