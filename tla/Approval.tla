------------------------------ MODULE Approval ------------------------------
(***************************************************************************)
(* The pending-approval registry and the life of a hold                     *)
(* (crates/honmoon-proxy/src/approval.rs).                                  *)
(*                                                                         *)
(* One element of Holds is one call of hold_until: a tokio task that        *)
(* registers a slot, waits on a oneshot channel, and is ended by whichever  *)
(* of four parties gets there first - a human through the management API,   *)
(* the client leaving, the pause timer, or the task's own future being      *)
(* dropped.  The registry's mutex makes each registry call atomic; nothing  *)
(* makes two of them atomic together, nor the three arms of one poll of the *)
(* select, so each arm is a step of its own here, and resolve is two steps  *)
(* (the slot is removed under the lock, the decision sent after it).        *)
(***************************************************************************)
EXTENDS Naturals, FiniteSets, Sequences

CONSTANTS
    Holds,       \* the calls of hold_until
    Watched,     \* those given an `abandoned` future (the PostgreSQL runtime)
    Droppable,   \* those whose future their caller may drop (hyper, run_postgres)
    MaxPending   \* ApprovalRegistry::max_pending

ASSUME CallersAreHolds == Watched \subseteq Holds /\ Droppable \subseteq Holds
ASSUME MaxPendingNat == MaxPending \in Nat

VARIABLES
    slots,    \* the registry: slot ids with the hold whose sender each one owns
    nextId,   \* ApprovalRegistry::next_id
    pc,       \* where each hold_until call is
    id,       \* the id its registration returned, 0 while it has none
    chan,     \* its oneshot channel: "empty", a decision, or "lost"
    decided,  \* the decision of the resolve call that took its slot
    gone,     \* its client has left
    expired,  \* its pause timer has elapsed
    verdict,  \* the `decision` the select produced
    trail,    \* the decisions audited for it, in order
    outcome   \* the HoldOutcome returned ("Dropped": the future was dropped)

vars == <<slots, nextId, pc, id, chan, decided, gone, expired, verdict, trail, outcome>>

Decisions == {"Approve", "Reject"}

(* Control points of hold_until.  "parked" is the only one at which the     *)
(* task is suspended; from "rx" to "timer" it is inside one poll.           *)
Points == {"idle", "registered", "rx", "abandoned", "try_recv", "timer",
           "parked", "decided", "guard", "guard_audit", "done"}

(* The receiver is a local of hold_until, dropped before the guard is.      *)
Receiving == {"registered", "rx", "abandoned", "try_recv", "timer", "parked", "decided"}

FirstId == 1    \* ApprovalRegistry::new; 0 is "no id" here

Init ==
    /\ slots = {}
    /\ nextId = FirstId
    /\ pc = [h \in Holds |-> "idle"]
    /\ id = [h \in Holds |-> 0]
    /\ chan = [h \in Holds |-> "empty"]
    /\ decided = [h \in Holds |-> "none"]
    /\ gone = [h \in Holds |-> FALSE]
    /\ expired = [h \in Holds |-> FALSE]
    /\ verdict = [h \in Holds |-> "none"]
    /\ trail = [h \in Holds |-> <<>>]
    /\ outcome = [h \in Holds |-> "none"]

Goto(h, point) == pc' = [pc EXCEPT ![h] = point]
Audit(h, d) == trail' = [trail EXCEPT ![h] = Append(@, d)]

(* cancel(id): remove the slot with that id, whoever it belongs to.         *)
Without(i) == {s \in slots : s.id # i}

-----------------------------------------------------------------------------
(* The waiter: hold_until.                                                  *)

FullOffByOne == Cardinality(slots) > MaxPending

Full == Cardinality(slots) >= MaxPending

(* As if the id were the queue's length, and so could be handed out twice.  *)
RegisterByLength(h) ==
    /\ pc[h] = "idle"
    /\ ~Full
    /\ LET i == Cardinality(slots) + 1 IN
           /\ slots' = {s \in slots : s.id # i} \cup {[id |-> i, hold |-> h]}
           /\ id' = [id EXCEPT ![h] = i]
    /\ Goto(h, "registered")
    /\ UNCHANGED <<nextId, chan, decided, gone, expired, verdict, trail, outcome>>

Register(h) ==
    /\ pc[h] = "idle"
    /\ ~Full
    /\ slots' = slots \cup {[id |-> nextId, hold |-> h]}
    /\ id' = [id EXCEPT ![h] = nextId]
    /\ nextId' = nextId + 1
    /\ Goto(h, "registered")
    /\ UNCHANGED <<chan, decided, gone, expired, verdict, trail, outcome>>

(* The queue is at capacity: audited with no id, never held.                *)
RefuseFull(h) ==
    /\ pc[h] = "idle"
    /\ Full
    /\ Audit(h, "Rejected")
    /\ outcome' = [outcome EXCEPT ![h] = "QueueFull"]
    /\ Goto(h, "done")
    /\ UNCHANGED <<slots, nextId, id, chan, decided, gone, expired, verdict>>

(* Audit Paused, arm the guard, and enter the select for the first time.    *)
AuditPaused(h) ==
    /\ pc[h] = "registered"
    /\ Audit(h, "Paused")
    /\ Goto(h, "rx")
    /\ UNCHANGED <<slots, nextId, id, chan, decided, gone, expired, verdict, outcome>>

(* First arm, and the recheck inside the second: take what the channel has. *)
(* A sender dropped unsent reads as a rejection.                            *)
Receive(h) ==
    /\ chan[h] # "empty"
    /\ verdict' = [verdict EXCEPT ![h] = IF chan[h] = "Approve" THEN "Approve" ELSE "Reject"]
    /\ Goto(h, "decided")
    /\ UNCHANGED <<slots, nextId, id, chan, decided, gone, expired, trail, outcome>>

PollReceiver(h) ==
    /\ pc[h] = "rx"
    /\ \/ Receive(h)
       \/ /\ chan[h] = "empty"
          /\ Goto(h, "abandoned")
          /\ UNCHANGED <<slots, nextId, id, chan, decided, gone, expired, verdict, trail, outcome>>

(* Second arm.  A hold without an abandonment signal waits on pending().    *)
PollAbandoned(h) ==
    /\ pc[h] = "abandoned"
    /\ Goto(h, IF h \in Watched /\ gone[h] THEN "try_recv" ELSE "timer")
    /\ UNCHANGED <<slots, nextId, id, chan, decided, gone, expired, verdict, trail, outcome>>

(* As if the second arm trusted the first and did not look again.           *)
AbandonUnchecked(h) ==
    /\ pc[h] = "try_recv"
    /\ outcome' = [outcome EXCEPT ![h] = "Abandoned"]
    /\ Goto(h, "guard")
    /\ UNCHANGED <<slots, nextId, id, chan, decided, gone, expired, verdict, trail>>

TryReceive(h) ==
    /\ pc[h] = "try_recv"
    /\ \/ Receive(h)
       \/ /\ chan[h] = "empty"
          /\ outcome' = [outcome EXCEPT ![h] = "Abandoned"]
          /\ Goto(h, "guard")
          /\ UNCHANGED <<slots, nextId, id, chan, decided, gone, expired, verdict, trail>>

(* As if an unanswered pause failed open, and left its slot behind.         *)
TimeOutOpen(h) ==
    /\ pc[h] = "timer"
    /\ expired[h]
    /\ verdict' = [verdict EXCEPT ![h] = "Approve"]
    /\ Goto(h, "decided")
    /\ UNCHANGED <<slots, nextId, id, chan, decided, gone, expired, trail, outcome>>

(* Third arm: the timer cancels the slot and rejects.                       *)
TimeOut(h) ==
    /\ pc[h] = "timer"
    /\ expired[h]
    /\ slots' = Without(id[h])
    /\ verdict' = [verdict EXCEPT ![h] = "Reject"]
    /\ Goto(h, "decided")
    /\ UNCHANGED <<nextId, id, chan, decided, gone, expired, trail, outcome>>

(* No arm was ready: the task suspends until something wakes it.            *)
Park(h) ==
    /\ pc[h] = "timer"
    /\ ~expired[h]
    /\ Goto(h, "parked")
    /\ UNCHANGED <<slots, nextId, id, chan, decided, gone, expired, verdict, trail, outcome>>

(* As if the sleep were not polled along with the other two arms.           *)
WakeUntimed(h) ==
    /\ pc[h] = "parked"
    /\ chan[h] # "empty" \/ (h \in Watched /\ gone[h])
    /\ Goto(h, "rx")
    /\ UNCHANGED <<slots, nextId, id, chan, decided, gone, expired, verdict, trail, outcome>>

Wake(h) ==
    /\ pc[h] = "parked"
    /\ chan[h] # "empty" \/ (h \in Watched /\ gone[h]) \/ expired[h]
    /\ Goto(h, "rx")
    /\ UNCHANGED <<slots, nextId, id, chan, decided, gone, expired, verdict, trail, outcome>>

(* As if the guard were still armed when hold_until returns.                *)
ConcludeArmed(h) ==
    /\ pc[h] = "decided"
    /\ trail' = [trail EXCEPT ![h] = @ \o <<
           IF verdict[h] = "Approve" THEN "Approved" ELSE "Rejected", "Rejected">>]
    /\ outcome' = [outcome EXCEPT ![h] =
                     IF verdict[h] = "Approve" THEN "Approved" ELSE "Rejected"]
    /\ Goto(h, "done")
    /\ slots' = Without(id[h])
    /\ UNCHANGED <<nextId, id, chan, decided, gone, expired, verdict>>

(* Disarm the guard, audit the decision and return it.                      *)
Conclude(h) ==
    /\ pc[h] = "decided"
    /\ Audit(h, IF verdict[h] = "Approve" THEN "Approved" ELSE "Rejected")
    /\ outcome' = [outcome EXCEPT ![h] =
                     IF verdict[h] = "Approve" THEN "Approved" ELSE "Rejected"]
    /\ Goto(h, "done")
    /\ UNCHANGED <<slots, nextId, id, chan, decided, gone, expired, verdict>>

-----------------------------------------------------------------------------
(* The future dropped from outside, which can only happen while suspended,  *)
(* and the armed guard's Drop.                                              *)

DropFuture(h) ==
    /\ pc[h] = "parked"
    /\ h \in Droppable
    /\ gone[h]
    /\ outcome' = [outcome EXCEPT ![h] = "Dropped"]
    /\ Goto(h, "guard")
    /\ UNCHANGED <<slots, nextId, id, chan, decided, gone, expired, verdict, trail>>

GuardCancel(h) ==
    /\ pc[h] = "guard"
    /\ slots' = Without(id[h])
    /\ Goto(h, "guard_audit")
    /\ UNCHANGED <<nextId, id, chan, decided, gone, expired, verdict, trail, outcome>>

GuardAudit(h) ==
    /\ pc[h] = "guard_audit"
    /\ Audit(h, "Rejected")
    /\ Goto(h, "done")
    /\ UNCHANGED <<slots, nextId, id, chan, decided, gone, expired, verdict, outcome>>

-----------------------------------------------------------------------------
(* The management API: resolve removes the slot under the lock, then sends  *)
(* on the sender it took.  Any number of calls may be between the two.      *)

Resolve(s, d) ==
    /\ s \in slots
    /\ slots' = Without(s.id)
    /\ decided' = [decided EXCEPT ![s.hold] = d]
    /\ UNCHANGED <<nextId, pc, id, chan, gone, expired, verdict, trail, outcome>>

Send(h) ==
    /\ decided[h] # "none"
    /\ chan[h] = "empty"
    /\ chan' = [chan EXCEPT ![h] = IF pc[h] \in Receiving THEN decided[h] ELSE "lost"]
    /\ UNCHANGED <<slots, nextId, pc, id, decided, gone, expired, verdict, trail, outcome>>

-----------------------------------------------------------------------------
(* The environment: the client leaves, the pause timer elapses.             *)

Waiting(h) == pc[h] \in Receiving \ {"registered"}

Leave(h) ==
    /\ Waiting(h)
    /\ ~gone[h]
    /\ gone' = [gone EXCEPT ![h] = TRUE]
    /\ UNCHANGED <<slots, nextId, pc, id, chan, decided, expired, verdict, trail, outcome>>

Elapse(h) ==
    /\ Waiting(h)
    /\ ~expired[h]
    /\ expired' = [expired EXCEPT ![h] = TRUE]
    /\ UNCHANGED <<slots, nextId, pc, id, chan, decided, gone, verdict, trail, outcome>>

-----------------------------------------------------------------------------
Run(h) ==
    \/ Register(h) \/ RefuseFull(h) \/ AuditPaused(h)
    \/ PollReceiver(h) \/ PollAbandoned(h) \/ TryReceive(h) \/ TimeOut(h)
    \/ Park(h) \/ Wake(h) \/ Conclude(h)
    \/ GuardCancel(h) \/ GuardAudit(h)

Next ==
    \/ \E h \in Holds : Run(h) \/ DropFuture(h) \/ Send(h) \/ Leave(h) \/ Elapse(h)
    \/ \E s \in slots, d \in Decisions : Resolve(s, d)

Spec == Init /\ [][Next]_vars

(* tokio runs a woken task, a call already past the lock returns, and the   *)
(* pause timer is finite.  No human and no departure is assumed.            *)
FairSpec ==
    /\ Spec
    /\ \A h \in Holds : WF_vars(Run(h)) /\ WF_vars(Send(h)) /\ WF_vars(Elapse(h))

-----------------------------------------------------------------------------
TypeOK ==
    /\ slots \subseteq [id : Nat, hold : Holds]
    /\ nextId \in Nat \ {0}
    /\ pc \in [Holds -> Points]
    /\ id \in [Holds -> Nat]
    /\ chan \in [Holds -> Decisions \cup {"empty", "lost"}]
    /\ decided \in [Holds -> Decisions \cup {"none"}]
    /\ gone \in [Holds -> BOOLEAN]
    /\ expired \in [Holds -> BOOLEAN]
    /\ verdict \in [Holds -> Decisions \cup {"none"}]
    /\ trail \in [Holds -> Seq({"Paused", "Approved", "Rejected"})]
    /\ outcome \in [Holds -> {"none", "Approved", "Rejected", "QueueFull",
                              "Abandoned", "Dropped"}]

(* The cap is checked and the slot inserted under one lock, so concurrent   *)
(* registrations cannot slip past it together (register).                   *)
QueueBounded == Cardinality(slots) <= MaxPending

(* An ended hold leaves nothing behind: every pending entry belongs to a    *)
(* call still running, carries that call's id, and no two entries share an  *)
(* owner - so abandoned holds cannot saturate the queue (CancelOnDrop).     *)
NoLeakedSlot ==
    /\ \A s \in slots : id[s.hold] = s.id /\ pc[s.hold] \notin {"idle", "done", "guard_audit"}
    /\ \A s, t \in slots : s.id = t.id => s = t

(* A request goes ahead only on a human's approval of that very request,    *)
(* whatever order the decision, the departure, the timer and the drop take. *)
ApprovedOnlyByHuman ==
    \A h \in Holds : outcome[h] = "Approved" => decided[h] = "Approve"

(* While a call is suspended it can still be ended by a human: its entry is *)
(* listed, or a resolve call has already taken it.                          *)
WaitingIsResolvable ==
    \A h \in Holds :
        pc[h] \in {"registered", "rx", "abandoned", "try_recv", "timer", "parked", "guard"} =>
            \/ [id |-> id[h], hold |-> h] \in slots
            \/ decided[h] # "none"

(* The audit trail tells one story per hold: Paused, then exactly one end,  *)
(* and the end it names is the outcome the caller acts on.  A request never *)
(* held has the one rejection.                                              *)
AuditTellsTheOutcome ==
    \A h \in Holds : pc[h] = "done" =>
        /\ outcome[h] \in {"QueueFull", "Approved", "Rejected", "Abandoned", "Dropped"}
        /\ outcome[h] = "QueueFull" => trail[h] = <<"Rejected">>
        /\ outcome[h] = "Approved" => trail[h] = <<"Paused", "Approved">>
        /\ outcome[h] \in {"Rejected", "Abandoned", "Dropped"} =>
               trail[h] = <<"Paused", "Rejected">>

(* A human's decision is taken at most once per hold and never revised, and *)
(* a hold that has ended is not reopened.                                   *)
DecisionsAreFinal ==
    [][\A h \in Holds :
          /\ decided[h] # "none" => decided'[h] = decided[h]
          /\ pc[h] = "done" => /\ decided'[h] = decided[h]
                               /\ outcome'[h] = outcome[h]
                               /\ trail'[h] = trail[h]]_vars

(* A hold reported as abandoned never had a decision delivered to it: the    *)
(* departure of the client does not discard what a human had already said.   *)
DepartureYieldsToDecision ==
    \A h \in Holds : outcome[h] = "Abandoned" => chan[h] \in {"empty", "lost"}

(* "a decision a human made outranks the client leaving, and the client     *)
(* leaving outranks the timer" (the comment on the select): the timer arm   *)
(* never rejects a hold whose decision is already in the channel.  It does  *)
(* not hold of the code (README, section 4) and is a property of no run.    *)
TimerYieldsToDecision ==
    [][\A h \in Holds : TimeOut(h) => chan[h] = "empty"]_vars

(* Every call of hold_until returns, with no human and no departure needed. *)
EveryHoldEnds == \A h \in Holds : <>(pc[h] = "done")

-----------------------------------------------------------------------------
(* The registry and the holds implement the gate of ApprovalAbs: a request  *)
(* is pending while its slot is in the registry, decided when resolve takes *)
(* the slot, and answered when hold_until returns.                          *)

Listed(h) == \E s \in slots : s.hold = h

Stage(h) == IF pc[h] = "idle" THEN "new" ELSE IF Listed(h) THEN "pending" ELSE "settled"

Answer(h) == IF pc[h] # "done" THEN "none"
             ELSE IF outcome[h] = "Approved" THEN "granted" ELSE "refused"

Gate == INSTANCE ApprovalAbs WITH
    Capacity <- MaxPending,
    stage <- [h \in Holds |-> Stage(h)],
    human <- decided,
    answer <- [h \in Holds |-> Answer(h)]

GateSpec == Gate!Spec
GateSafeSpec == Gate!SafeSpec
=============================================================================
