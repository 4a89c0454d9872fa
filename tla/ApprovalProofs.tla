--------------------------- MODULE ApprovalProofs ---------------------------
(***************************************************************************)
(* Proofs about Approval for every set of calls, every choice of callers    *)
(* and every queue capacity: type correctness, the safety invariants the    *)
(* runs check, the action property, and the refinement of ApprovalAbs.      *)
(***************************************************************************)
EXTENDS Approval, FiniteSetTheorems, SequenceTheorems, TLAPS

-----------------------------------------------------------------------------
(* Every step keeps the shape TypeOK gives each variable.                    *)
LEMMA TypeStep == TypeOK /\ [Next]_vars => TypeOK'
<1> SUFFICES ASSUME TypeOK, [Next]_vars PROVE TypeOK'
  OBVIOUS
<1> USE DEF TypeOK, Points, Decisions
<1>1. ASSUME NEW h \in Holds, Run(h) PROVE TypeOK'
  <2>1. CASE Register(h)
    BY <2>1 DEF Register, Goto
  <2>2. CASE RefuseFull(h)
    BY <2>2 DEF RefuseFull, Goto, Audit
  <2>3. CASE AuditPaused(h)
    BY <2>3 DEF AuditPaused, Goto, Audit
  <2>4. CASE PollReceiver(h)
    BY <2>4 DEF PollReceiver, Receive, Goto
  <2>5. CASE PollAbandoned(h)
    BY <2>5 DEF PollAbandoned, Goto
  <2>6. CASE TryReceive(h)
    BY <2>6 DEF TryReceive, Receive, Goto
  <2>7. CASE TimeOut(h)
    BY <2>7 DEF TimeOut, Goto, Without
  <2>8. CASE Park(h) \/ Wake(h)
    BY <2>8 DEF Park, Wake, Goto
  <2>9. CASE Conclude(h)
    BY <2>9 DEF Conclude, Goto, Audit
  <2>10. CASE GuardCancel(h)
    BY <2>10 DEF GuardCancel, Goto, Without
  <2>11. CASE GuardAudit(h)
    BY <2>11 DEF GuardAudit, Goto, Audit
  <2> QED
    BY <1>1, <2>1, <2>2, <2>3, <2>4, <2>5, <2>6, <2>7, <2>8, <2>9, <2>10, <2>11 DEF Run
<1>2. ASSUME NEW h \in Holds, DropFuture(h) PROVE TypeOK'
  BY <1>2 DEF DropFuture, Goto
<1>3. ASSUME NEW h \in Holds, Send(h) PROVE TypeOK'
  BY <1>3 DEF Send
<1>4. ASSUME NEW h \in Holds, Leave(h) \/ Elapse(h) PROVE TypeOK'
  BY <1>4 DEF Leave, Elapse
<1>5. ASSUME NEW s \in slots, NEW d \in Decisions, Resolve(s, d) PROVE TypeOK'
  BY <1>5 DEF Resolve, Without
<1>6. CASE UNCHANGED vars
  BY <1>6 DEF vars
<1> QED
  BY <1>1, <1>2, <1>3, <1>4, <1>5, <1>6 DEF Next

(* Type correctness: no handler, arm or API call leaves a variable outside   *)
(* its type, whatever the interleaving.                                      *)
THEOREM TypeCorrect == Spec => []TypeOK
<1>1. Init => TypeOK
  BY DEF Init, FirstId, TypeOK, Points
<1> QED
  BY <1>1, TypeStep, PTL DEF Spec

-----------------------------------------------------------------------------
(* The inductive invariant.  None of the properties is inductive alone:     *)
(* that a slot names a running call needs ids to be unique, that an         *)
(* approval came from a human needs the channel to carry what resolve took, *)
(* and the audit trail needs to be known at every control point, not only   *)
(* at the end.                                                              *)

(* Ids are handed out once; a slot carries the id of the call that owns it. *)
IdsOwned ==
    /\ \A h \in Holds : id[h] < nextId
    /\ \A g, h \in Holds : id[g] = id[h] /\ id[g] # 0 => g = h
    /\ \A s \in slots : s.id # 0 /\ s.id = id[s.hold]

(* A slot is listed only while its call runs and nobody has decided it.     *)
SlotsLive ==
    \A s \in slots : /\ pc[s.hold] \notin {"idle", "decided", "guard_audit", "done"}
                     /\ decided[s.hold] = "none"

(* The channel carries the decision of the resolve call that took the slot, *)
(* and an approving verdict was read from the channel.                      *)
DecisionAt(h) ==
    /\ pc[h] = "idle" => decided[h] = "none"
    /\ chan[h] # "empty" => decided[h] # "none"
    /\ chan[h] \in Decisions => chan[h] = decided[h]
    /\ pc[h] \in Receiving => chan[h] # "lost"
    /\ verdict[h] = "Approve" => decided[h] = "Approve"
    /\ outcome[h] = "Approved" => verdict[h] = "Approve"
    /\ outcome[h] = "Abandoned" => chan[h] \in {"empty", "lost"} /\ pc[h] \notin Receiving

DecisionFlows == \A h \in Holds : DecisionAt(h)

(* What has been audited and returned at each control point.                *)
AuditedAt(h) ==
    /\ pc[h] \in {"idle", "registered"} => trail[h] = <<>>
    /\ pc[h] \notin {"idle", "registered", "done"} => trail[h] = <<"Paused">>
    /\ pc[h] \in {"guard", "guard_audit"} => outcome[h] \in {"Abandoned", "Dropped"}
    /\ pc[h] \notin {"guard", "guard_audit", "done"} => outcome[h] = "none"
    /\ pc[h] = "done" =>
         /\ outcome[h] \in {"QueueFull", "Approved", "Rejected", "Abandoned", "Dropped"}
         /\ outcome[h] = "QueueFull" => trail[h] = <<"Rejected">>
         /\ outcome[h] = "Approved" => trail[h] = <<"Paused", "Approved">>
         /\ outcome[h] \in {"Rejected", "Abandoned", "Dropped"} =>
                trail[h] = <<"Paused", "Rejected">>

AuditedSoFar == \A h \in Holds : AuditedAt(h)

IInv ==
    /\ TypeOK
    /\ IsFiniteSet(slots)
    /\ QueueBounded
    /\ IdsOwned
    /\ SlotsLive
    /\ DecisionFlows
    /\ AuditedSoFar
    /\ WaitingIsResolvable

(* Nothing is held, listed, decided or audited at the start.                  *)
LEMMA InitInv == Init => IInv
<1> SUFFICES ASSUME Init PROVE IInv
  OBVIOUS
<1>1. TypeOK
  BY DEF Init, FirstId, TypeOK, Points
<1>2. IsFiniteSet(slots) /\ QueueBounded
  BY FS_EmptySet, MaxPendingNat DEF Init, FirstId, QueueBounded
<1>3. IdsOwned /\ SlotsLive /\ DecisionFlows /\ AuditedSoFar
  BY DEF Init, FirstId, IdsOwned, SlotsLive, DecisionFlows, DecisionAt, AuditedSoFar, AuditedAt,
         Decisions, Receiving
<1>4. WaitingIsResolvable
  BY DEF Init, FirstId, WaitingIsResolvable
<1> QED
  BY <1>1, <1>2, <1>3, <1>4 DEF IInv

(* The registry changes in three ways only: it stays, it loses the slot with *)
(* one id, or a registration below the cap adds a fresh one.                 *)
LEMMA SlotsBounded == IInv /\ [Next]_vars => IsFiniteSet(slots') /\ QueueBounded'
<1> SUFFICES ASSUME IInv, [Next]_vars PROVE IsFiniteSet(slots') /\ QueueBounded'
  OBVIOUS
<1> USE DEF IInv
<1>1. Cardinality(slots) \in Nat
  BY FS_CardinalityType
<1>2. ASSUME slots' \subseteq slots PROVE IsFiniteSet(slots') /\ QueueBounded'
  <2>1. IsFiniteSet(slots') /\ Cardinality(slots') <= Cardinality(slots)
    BY <1>2, FS_Subset
  <2>2. Cardinality(slots') \in Nat
    BY <2>1, FS_CardinalityType
  <2> QED
    BY <1>1, <2>1, <2>2, MaxPendingNat DEF QueueBounded
<1>3. ASSUME NEW h \in Holds, Register(h) PROVE IsFiniteSet(slots') /\ QueueBounded'
  <2> DEFINE s == [id |-> nextId, hold |-> h]
  <2>1. slots' = slots \cup {s} /\ Cardinality(slots) < MaxPending
    BY <1>1, <1>3, MaxPendingNat DEF Register, Full
  <2> HIDE DEF s
  <2>2. /\ IsFiniteSet(slots \cup {s})
        /\ Cardinality(slots \cup {s}) =
             IF s \in slots THEN Cardinality(slots) ELSE Cardinality(slots) + 1
    <3>1. IsFiniteSet(slots)
      OBVIOUS
    <3> QED
      BY <3>1, FS_AddElement
  <2>3. Cardinality(slots \cup {s}) <= MaxPending
    BY <1>1, <2>1, <2>2, MaxPendingNat
  <2> QED
    BY <2>1, <2>2, <2>3 DEF QueueBounded
<1>4. CASE UNCHANGED vars
  BY <1>2, <1>4 DEF vars
<1>5. CASE Next /\ ~(\E h \in Holds : Register(h))
  <2>1. slots' \subseteq slots
    BY <1>5 DEF Next, Run, RefuseFull, AuditPaused, PollReceiver, Receive, PollAbandoned,
                TryReceive, TimeOut, Park, Wake, Conclude, GuardCancel, GuardAudit,
                DropFuture, Send, Leave, Elapse, Resolve, Without
  <2> QED
    BY <1>2, <2>1
<1> QED
  BY <1>3, <1>4, <1>5

(* Appending to a sequence of one.                                           *)
LEMMA AppendToSingleton ==
  ASSUME NEW S, NEW a \in S, NEW d \in S
  PROVE  Append(<<a>>, d) = <<a, d>>
<1> DEFINE s == Append(<<a>>, d)
           t == <<a, d>>
<1>1. s \in Seq(S) /\ Len(s) = 2 /\ s[1] = a /\ s[2] = d
  OBVIOUS
<1>2. t \in Seq(S) /\ Len(t) = 2 /\ t[1] = a /\ t[2] = d
  OBVIOUS
<1>3. \A i \in 1..2 : s[i] = t[i]
  BY <1>1, <1>2
<1> HIDE DEF s, t
<1> QED
  BY <1>1, <1>2, <1>3, SeqEqual DEF s, t

(* What auditing does to a trail.                                            *)
LEMMA Appended ==
    \A d \in {"Paused", "Approved", "Rejected"} :
        Append(<<>>, d) = <<d>> /\ Append(<<"Paused">>, d) = <<"Paused", d>>
<1> TAKE d \in {"Paused", "Approved", "Rejected"}
<1>1. Append(<<>>, d) = <<d>>
  OBVIOUS
<1>2. Append(<<"Paused">>, d) = <<"Paused", d>>
  BY AppendToSingleton
<1> QED
  BY <1>1, <1>2

(* The rest of the inductive step, one step per action.  Calls holds the     *)
(* part of IInv that speaks of the calls and their slots.                    *)
Calls == IdsOwned /\ SlotsLive /\ DecisionFlows /\ AuditedSoFar /\ WaitingIsResolvable

(* next_id only grows, so no registration reuses a listed id.                 *)
LEMMA IdsStep == IInv /\ [Next]_vars => IdsOwned'
<1> SUFFICES ASSUME IInv, [Next]_vars PROVE IdsOwned'
  OBVIOUS
<1> USE DEF IInv, IdsOwned
<1>1. ASSUME NEW h \in Holds, Register(h) PROVE IdsOwned'
  <2>1. /\ slots' = slots \cup {[id |-> nextId, hold |-> h]}
        /\ id' = [id EXCEPT ![h] = nextId]
        /\ nextId' = nextId + 1
    BY <1>1 DEF Register
  <2>2. \A g \in Holds : id'[g] = IF g = h THEN nextId ELSE id[g]
    BY <2>1 DEF TypeOK
  <2>3. nextId \in Nat /\ nextId # 0 /\ \A g \in Holds : id[g] \in Nat
    BY DEF TypeOK
  <2>4. \A s \in slots : s.hold # h
    BY <1>1 DEF Register, SlotsLive
  <2>5. \A s \in slots : s.hold \in Holds
    BY DEF TypeOK
  <2> QED
    BY <2>1, <2>2, <2>3, <2>4, <2>5
<1>2. CASE slots' \subseteq slots /\ UNCHANGED <<id, nextId>>
  BY <1>2
<1>3. CASE Next /\ ~(\E h \in Holds : Register(h))
  <2>1. slots' \subseteq slots /\ UNCHANGED <<id, nextId>>
    BY <1>3 DEF Next, Run, RefuseFull, AuditPaused, PollReceiver, Receive, PollAbandoned,
                TryReceive, TimeOut, Park, Wake, Conclude, GuardCancel, GuardAudit,
                DropFuture, Send, Leave, Elapse, Resolve, Without
  <2> QED
    BY <1>2, <2>1
<1> QED
  BY <1>1, <1>2, <1>3 DEF vars

(* Every handler, arm and API call keeps what the calls, their slots, their   *)
(* channels and their audit trails owe each other.                            *)
LEMMA CallsStep == IInv /\ [Next]_vars => Calls'
<1> SUFFICES ASSUME IInv, [Next]_vars PROVE Calls'
  OBVIOUS
<1>b. TypeOK'
  BY TypeStep DEF IInv
<1>a. IdsOwned'
  BY IdsStep
<1> USE DEF IInv, TypeOK, Decisions, Receiving
<1>1. ASSUME NEW h \in Holds, Register(h) PROVE Calls'
  <2> USE <1>1 DEF Register, Goto
  <2>1. SlotsLive'
    BY <1>b DEF SlotsLive, IdsOwned, DecisionFlows, DecisionAt
  <2>2. ASSUME NEW g \in Holds PROVE DecisionAt(g)'
    <3>1. DecisionAt(g) /\ AuditedAt(g)
      BY DEF DecisionFlows, AuditedSoFar
    <3> QED
      BY <1>b, <3>1 DEF DecisionAt, AuditedAt
  <2>3. ASSUME NEW g \in Holds PROVE AuditedAt(g)'
    <3>1. AuditedAt(g)
      BY DEF AuditedSoFar
    <3> QED
      BY <1>b, <3>1 DEF AuditedAt
  <2>4. WaitingIsResolvable'
    BY <1>b DEF WaitingIsResolvable, IdsOwned, SlotsLive, DecisionFlows, DecisionAt
  <2> QED
    BY <1>a, <2>1, <2>2, <2>3, <2>4 DEF Calls, DecisionFlows, AuditedSoFar
<1>2. ASSUME NEW h \in Holds, RefuseFull(h) PROVE Calls'
  <2> USE <1>2 DEF RefuseFull, Goto, Audit
  <2>1. SlotsLive'
    BY <1>b DEF SlotsLive, IdsOwned, DecisionFlows, DecisionAt
  <2>2. ASSUME NEW g \in Holds PROVE DecisionAt(g)'
    <3>1. DecisionAt(g) /\ AuditedAt(g)
      BY DEF DecisionFlows, AuditedSoFar
    <3> QED
      BY <1>b, <3>1 DEF DecisionAt, AuditedAt
  <2>3. ASSUME NEW g \in Holds PROVE AuditedAt(g)'
    <3>1. AuditedAt(g) /\ AuditedAt(h)
      BY DEF AuditedSoFar
    <3>2. trail'[h] = <<"Rejected">>
      BY <3>1, Appended DEF AuditedAt
    <3>3. CASE g = h
      BY <3>1, <3>2, <3>3 DEF AuditedAt
    <3>4. CASE g # h
      BY <3>1, <3>4 DEF AuditedAt
    <3> QED
      BY <3>3, <3>4
  <2>4. WaitingIsResolvable'
    BY <1>b DEF WaitingIsResolvable, IdsOwned, SlotsLive, DecisionFlows, DecisionAt
  <2> QED
    BY <1>a, <2>1, <2>2, <2>3, <2>4 DEF Calls, DecisionFlows, AuditedSoFar
<1>3. ASSUME NEW h \in Holds, AuditPaused(h) PROVE Calls'
  <2> USE <1>3 DEF AuditPaused, Goto, Audit
  <2>1. SlotsLive'
    BY <1>b DEF SlotsLive, IdsOwned, DecisionFlows, DecisionAt
  <2>2. ASSUME NEW g \in Holds PROVE DecisionAt(g)'
    <3>1. DecisionAt(g) /\ AuditedAt(g)
      BY DEF DecisionFlows, AuditedSoFar
    <3> QED
      BY <1>b, <3>1 DEF DecisionAt, AuditedAt
  <2>3. ASSUME NEW g \in Holds PROVE AuditedAt(g)'
    <3>1. AuditedAt(g) /\ AuditedAt(h)
      BY DEF AuditedSoFar
    <3>2. trail'[h] = <<"Paused">>
      BY <3>1, Appended DEF AuditedAt
    <3>3. CASE g = h
      BY <3>1, <3>2, <3>3 DEF AuditedAt
    <3>4. CASE g # h
      BY <3>1, <3>4 DEF AuditedAt
    <3> QED
      BY <3>3, <3>4
  <2>4. WaitingIsResolvable'
    BY <1>b DEF WaitingIsResolvable, IdsOwned, SlotsLive, DecisionFlows, DecisionAt
  <2> QED
    BY <1>a, <2>1, <2>2, <2>3, <2>4 DEF Calls, DecisionFlows, AuditedSoFar
<1>4. ASSUME NEW h \in Holds, PollReceiver(h) PROVE Calls'
  <2> USE <1>4 DEF PollReceiver, Receive, Goto
  <2>1. SlotsLive'
    BY <1>b DEF SlotsLive, IdsOwned, DecisionFlows, DecisionAt
  <2>2. ASSUME NEW g \in Holds PROVE DecisionAt(g)'
    <3>1. DecisionAt(g) /\ AuditedAt(g)
      BY DEF DecisionFlows, AuditedSoFar
    <3> QED
      BY <1>b, <3>1 DEF DecisionAt, AuditedAt
  <2>3. ASSUME NEW g \in Holds PROVE AuditedAt(g)'
    <3>1. AuditedAt(g)
      BY DEF AuditedSoFar
    <3> QED
      BY <1>b, <3>1 DEF AuditedAt
  <2>4. WaitingIsResolvable'
    BY <1>b DEF WaitingIsResolvable, IdsOwned, SlotsLive, DecisionFlows, DecisionAt
  <2> QED
    BY <1>a, <2>1, <2>2, <2>3, <2>4 DEF Calls, DecisionFlows, AuditedSoFar
<1>5. ASSUME NEW h \in Holds, PollAbandoned(h) PROVE Calls'
  <2> USE <1>5 DEF PollAbandoned, Goto
  <2>1. SlotsLive'
    BY <1>b DEF SlotsLive, IdsOwned, DecisionFlows, DecisionAt
  <2>2. ASSUME NEW g \in Holds PROVE DecisionAt(g)'
    <3>1. DecisionAt(g) /\ AuditedAt(g)
      BY DEF DecisionFlows, AuditedSoFar
    <3> QED
      BY <1>b, <3>1 DEF DecisionAt, AuditedAt
  <2>3. ASSUME NEW g \in Holds PROVE AuditedAt(g)'
    <3>1. AuditedAt(g)
      BY DEF AuditedSoFar
    <3> QED
      BY <1>b, <3>1 DEF AuditedAt
  <2>4. WaitingIsResolvable'
    BY <1>b DEF WaitingIsResolvable, IdsOwned, SlotsLive, DecisionFlows, DecisionAt
  <2> QED
    BY <1>a, <2>1, <2>2, <2>3, <2>4 DEF Calls, DecisionFlows, AuditedSoFar
<1>6. ASSUME NEW h \in Holds, TryReceive(h) PROVE Calls'
  <2> USE <1>6 DEF TryReceive, Receive, Goto
  <2>1. SlotsLive'
    BY <1>b DEF SlotsLive, IdsOwned, DecisionFlows, DecisionAt
  <2>2. ASSUME NEW g \in Holds PROVE DecisionAt(g)'
    <3>1. DecisionAt(g) /\ AuditedAt(g)
      BY DEF DecisionFlows, AuditedSoFar
    <3> QED
      BY <1>b, <3>1 DEF DecisionAt, AuditedAt
  <2>3. ASSUME NEW g \in Holds PROVE AuditedAt(g)'
    <3>1. AuditedAt(g)
      BY DEF AuditedSoFar
    <3> QED
      BY <1>b, <3>1 DEF AuditedAt
  <2>4. WaitingIsResolvable'
    BY <1>b DEF WaitingIsResolvable, IdsOwned, SlotsLive, DecisionFlows, DecisionAt
  <2> QED
    BY <1>a, <2>1, <2>2, <2>3, <2>4 DEF Calls, DecisionFlows, AuditedSoFar
<1>7. ASSUME NEW h \in Holds, TimeOut(h) PROVE Calls'
  <2> USE <1>7 DEF TimeOut, Goto, Without
  <2>1. SlotsLive'
    BY <1>b DEF SlotsLive, IdsOwned, DecisionFlows, DecisionAt
  <2>2. ASSUME NEW g \in Holds PROVE DecisionAt(g)'
    <3>1. DecisionAt(g) /\ AuditedAt(g)
      BY DEF DecisionFlows, AuditedSoFar
    <3> QED
      BY <1>b, <3>1 DEF DecisionAt, AuditedAt
  <2>3. ASSUME NEW g \in Holds PROVE AuditedAt(g)'
    <3>1. AuditedAt(g)
      BY DEF AuditedSoFar
    <3> QED
      BY <1>b, <3>1 DEF AuditedAt
  <2>4. WaitingIsResolvable'
    BY <1>b DEF WaitingIsResolvable, IdsOwned, SlotsLive, DecisionFlows, DecisionAt
  <2> QED
    BY <1>a, <2>1, <2>2, <2>3, <2>4 DEF Calls, DecisionFlows, AuditedSoFar
<1>8. ASSUME NEW h \in Holds, Park(h) PROVE Calls'
  <2> USE <1>8 DEF Park, Goto
  <2>1. SlotsLive'
    BY <1>b DEF SlotsLive, IdsOwned, DecisionFlows, DecisionAt
  <2>2. ASSUME NEW g \in Holds PROVE DecisionAt(g)'
    <3>1. DecisionAt(g) /\ AuditedAt(g)
      BY DEF DecisionFlows, AuditedSoFar
    <3> QED
      BY <1>b, <3>1 DEF DecisionAt, AuditedAt
  <2>3. ASSUME NEW g \in Holds PROVE AuditedAt(g)'
    <3>1. AuditedAt(g)
      BY DEF AuditedSoFar
    <3> QED
      BY <1>b, <3>1 DEF AuditedAt
  <2>4. WaitingIsResolvable'
    BY <1>b DEF WaitingIsResolvable, IdsOwned, SlotsLive, DecisionFlows, DecisionAt
  <2> QED
    BY <1>a, <2>1, <2>2, <2>3, <2>4 DEF Calls, DecisionFlows, AuditedSoFar
<1>9. ASSUME NEW h \in Holds, Wake(h) PROVE Calls'
  <2> USE <1>9 DEF Wake, Goto
  <2>1. SlotsLive'
    BY <1>b DEF SlotsLive, IdsOwned, DecisionFlows, DecisionAt
  <2>2. ASSUME NEW g \in Holds PROVE DecisionAt(g)'
    <3>1. DecisionAt(g) /\ AuditedAt(g)
      BY DEF DecisionFlows, AuditedSoFar
    <3> QED
      BY <1>b, <3>1 DEF DecisionAt, AuditedAt
  <2>3. ASSUME NEW g \in Holds PROVE AuditedAt(g)'
    <3>1. AuditedAt(g)
      BY DEF AuditedSoFar
    <3> QED
      BY <1>b, <3>1 DEF AuditedAt
  <2>4. WaitingIsResolvable'
    BY <1>b DEF WaitingIsResolvable, IdsOwned, SlotsLive, DecisionFlows, DecisionAt
  <2> QED
    BY <1>a, <2>1, <2>2, <2>3, <2>4 DEF Calls, DecisionFlows, AuditedSoFar
<1>10. ASSUME NEW h \in Holds, Conclude(h) PROVE Calls'
  <2> USE <1>10 DEF Conclude, Goto, Audit
  <2>1. SlotsLive'
    BY <1>b DEF SlotsLive, IdsOwned, DecisionFlows, DecisionAt
  <2>2. ASSUME NEW g \in Holds PROVE DecisionAt(g)'
    <3>1. DecisionAt(g) /\ AuditedAt(g)
      BY DEF DecisionFlows, AuditedSoFar
    <3> QED
      BY <1>b, <3>1 DEF DecisionAt, AuditedAt
  <2>3. ASSUME NEW g \in Holds PROVE AuditedAt(g)'
    <3>1. AuditedAt(g) /\ AuditedAt(h)
      BY DEF AuditedSoFar
    <3>2. trail'[h] = IF verdict[h] = "Approve" THEN <<"Paused", "Approved">>
                                           ELSE <<"Paused", "Rejected">>
      BY <3>1, Appended DEF AuditedAt
    <3>3. CASE g = h
      BY <3>1, <3>2, <3>3 DEF AuditedAt
    <3>4. CASE g # h
      BY <3>1, <3>4 DEF AuditedAt
    <3> QED
      BY <3>3, <3>4
  <2>4. WaitingIsResolvable'
    BY <1>b DEF WaitingIsResolvable, IdsOwned, SlotsLive, DecisionFlows, DecisionAt
  <2> QED
    BY <1>a, <2>1, <2>2, <2>3, <2>4 DEF Calls, DecisionFlows, AuditedSoFar
<1>11. ASSUME NEW h \in Holds, GuardCancel(h) PROVE Calls'
  <2> USE <1>11 DEF GuardCancel, Goto, Without
  <2>1. SlotsLive'
    BY <1>b DEF SlotsLive, IdsOwned, DecisionFlows, DecisionAt
  <2>2. ASSUME NEW g \in Holds PROVE DecisionAt(g)'
    <3>1. DecisionAt(g) /\ AuditedAt(g)
      BY DEF DecisionFlows, AuditedSoFar
    <3> QED
      BY <1>b, <3>1 DEF DecisionAt, AuditedAt
  <2>3. ASSUME NEW g \in Holds PROVE AuditedAt(g)'
    <3>1. AuditedAt(g)
      BY DEF AuditedSoFar
    <3> QED
      BY <1>b, <3>1 DEF AuditedAt
  <2>4. WaitingIsResolvable'
    BY <1>b DEF WaitingIsResolvable, IdsOwned, SlotsLive, DecisionFlows, DecisionAt
  <2> QED
    BY <1>a, <2>1, <2>2, <2>3, <2>4 DEF Calls, DecisionFlows, AuditedSoFar
<1>12. ASSUME NEW h \in Holds, GuardAudit(h) PROVE Calls'
  <2> USE <1>12 DEF GuardAudit, Goto, Audit
  <2>1. SlotsLive'
    BY <1>b DEF SlotsLive, IdsOwned, DecisionFlows, DecisionAt
  <2>2. ASSUME NEW g \in Holds PROVE DecisionAt(g)'
    <3>1. DecisionAt(g) /\ AuditedAt(g)
      BY DEF DecisionFlows, AuditedSoFar
    <3> QED
      BY <1>b, <3>1 DEF DecisionAt, AuditedAt
  <2>3. ASSUME NEW g \in Holds PROVE AuditedAt(g)'
    <3>1. AuditedAt(g)
      BY DEF AuditedSoFar
    <3> QED
      BY <1>b, <3>1, Appended DEF AuditedAt
  <2>4. WaitingIsResolvable'
    BY <1>b DEF WaitingIsResolvable, IdsOwned, SlotsLive, DecisionFlows, DecisionAt
  <2> QED
    BY <1>a, <2>1, <2>2, <2>3, <2>4 DEF Calls, DecisionFlows, AuditedSoFar
<1>13. ASSUME NEW h \in Holds, DropFuture(h) PROVE Calls'
  <2> USE <1>13 DEF DropFuture, Goto
  <2>1. SlotsLive'
    BY <1>b DEF SlotsLive, IdsOwned, DecisionFlows, DecisionAt
  <2>2. ASSUME NEW g \in Holds PROVE DecisionAt(g)'
    <3>1. DecisionAt(g) /\ AuditedAt(g)
      BY DEF DecisionFlows, AuditedSoFar
    <3> QED
      BY <1>b, <3>1 DEF DecisionAt, AuditedAt
  <2>3. ASSUME NEW g \in Holds PROVE AuditedAt(g)'
    <3>1. AuditedAt(g)
      BY DEF AuditedSoFar
    <3> QED
      BY <1>b, <3>1 DEF AuditedAt
  <2>4. WaitingIsResolvable'
    BY <1>b DEF WaitingIsResolvable, IdsOwned, SlotsLive, DecisionFlows, DecisionAt
  <2> QED
    BY <1>a, <2>1, <2>2, <2>3, <2>4 DEF Calls, DecisionFlows, AuditedSoFar
<1>14. ASSUME NEW h \in Holds, Send(h) PROVE Calls'
  <2> USE <1>14 DEF Send
  <2>1. SlotsLive'
    BY <1>b DEF SlotsLive, IdsOwned, DecisionFlows, DecisionAt
  <2>2. ASSUME NEW g \in Holds PROVE DecisionAt(g)'
    <3>1. DecisionAt(g) /\ AuditedAt(g)
      BY DEF DecisionFlows, AuditedSoFar
    <3> QED
      BY <1>b, <3>1 DEF DecisionAt, AuditedAt
  <2>3. ASSUME NEW g \in Holds PROVE AuditedAt(g)'
    <3>1. AuditedAt(g)
      BY DEF AuditedSoFar
    <3> QED
      BY <1>b, <3>1 DEF AuditedAt
  <2>4. WaitingIsResolvable'
    BY <1>b DEF WaitingIsResolvable, IdsOwned, SlotsLive, DecisionFlows, DecisionAt
  <2> QED
    BY <1>a, <2>1, <2>2, <2>3, <2>4 DEF Calls, DecisionFlows, AuditedSoFar
<1>15. ASSUME NEW h \in Holds, Leave(h) PROVE Calls'
  <2> USE <1>15 DEF Leave
  <2>1. SlotsLive'
    BY <1>b DEF SlotsLive, IdsOwned, DecisionFlows, DecisionAt
  <2>2. ASSUME NEW g \in Holds PROVE DecisionAt(g)'
    <3>1. DecisionAt(g) /\ AuditedAt(g)
      BY DEF DecisionFlows, AuditedSoFar
    <3> QED
      BY <1>b, <3>1 DEF DecisionAt, AuditedAt
  <2>3. ASSUME NEW g \in Holds PROVE AuditedAt(g)'
    <3>1. AuditedAt(g)
      BY DEF AuditedSoFar
    <3> QED
      BY <1>b, <3>1 DEF AuditedAt
  <2>4. WaitingIsResolvable'
    BY <1>b DEF WaitingIsResolvable, IdsOwned, SlotsLive, DecisionFlows, DecisionAt
  <2> QED
    BY <1>a, <2>1, <2>2, <2>3, <2>4 DEF Calls, DecisionFlows, AuditedSoFar
<1>16. ASSUME NEW h \in Holds, Elapse(h) PROVE Calls'
  <2> USE <1>16 DEF Elapse
  <2>1. SlotsLive'
    BY <1>b DEF SlotsLive, IdsOwned, DecisionFlows, DecisionAt
  <2>2. ASSUME NEW g \in Holds PROVE DecisionAt(g)'
    <3>1. DecisionAt(g) /\ AuditedAt(g)
      BY DEF DecisionFlows, AuditedSoFar
    <3> QED
      BY <1>b, <3>1 DEF DecisionAt, AuditedAt
  <2>3. ASSUME NEW g \in Holds PROVE AuditedAt(g)'
    <3>1. AuditedAt(g)
      BY DEF AuditedSoFar
    <3> QED
      BY <1>b, <3>1 DEF AuditedAt
  <2>4. WaitingIsResolvable'
    BY <1>b DEF WaitingIsResolvable, IdsOwned, SlotsLive, DecisionFlows, DecisionAt
  <2> QED
    BY <1>a, <2>1, <2>2, <2>3, <2>4 DEF Calls, DecisionFlows, AuditedSoFar
<1>17. ASSUME NEW s \in slots, NEW d \in Decisions, Resolve(s, d) PROVE Calls'
  <2> USE <1>17 DEF Resolve, Without
  <2>1. SlotsLive'
    BY <1>b DEF IdsOwned, SlotsLive
  <2>2. DecisionFlows'
    BY <1>b DEF DecisionFlows, DecisionAt, SlotsLive
  <2>3. AuditedSoFar'
    BY <1>b DEF AuditedSoFar, AuditedAt
  <2>4. WaitingIsResolvable'
    BY <1>b DEF WaitingIsResolvable, IdsOwned
  <2> QED
    BY <1>a, <2>1, <2>2, <2>3, <2>4 DEF Calls
<1>18. CASE UNCHANGED vars
  BY <1>18, <1>a DEF vars, Calls, SlotsLive, DecisionFlows, DecisionAt,
             AuditedSoFar, AuditedAt, WaitingIsResolvable
<1> QED
  BY <1>1, <1>2, <1>3, <1>4, <1>5, <1>6, <1>7, <1>8, <1>9, <1>10, <1>11, <1>12, <1>13, <1>14, <1>15, <1>16, <1>17, <1>18 DEF Next, Run

(* IInv holds in every reachable state.                                      *)
THEOREM Inductive == Spec => []IInv
<1>1. IInv /\ [Next]_vars => IInv'
  BY TypeStep, SlotsBounded, CallsStep DEF IInv, Calls
<1> QED
  BY <1>1, InitInv, PTL DEF Spec

-----------------------------------------------------------------------------
(* The safety properties, each a consequence of the inductive invariant.     *)

(* The registry never holds more entries than max_pending, however many      *)
(* requests register at once.                                                *)
THEOREM QueueStaysBounded == Spec => []QueueBounded
<1>1. IInv => QueueBounded
  BY DEF IInv
<1> QED
  BY <1>1, Inductive, PTL

(* No hold, however it ends, leaves its entry behind, and no entry is ever   *)
(* shared or orphaned.                                                       *)
THEOREM SlotsNeverLeak == Spec => []NoLeakedSlot
<1>1. IInv => NoLeakedSlot
  <2> SUFFICES ASSUME IInv PROVE NoLeakedSlot
    OBVIOUS
  <2> USE DEF IInv, TypeOK
  <2>1. \A s \in slots : id[s.hold] = s.id /\ pc[s.hold] \notin {"idle", "done", "guard_audit"}
    BY DEF IdsOwned, SlotsLive
  <2>2. ASSUME NEW s \in slots, NEW t \in slots, s.id = t.id PROVE s = t
    <3>1. s.hold = t.hold
      BY <2>2 DEF IdsOwned
    <3>2. s = [id |-> s.id, hold |-> s.hold] /\ t = [id |-> t.id, hold |-> t.hold]
      OBVIOUS
    <3> QED
      BY <2>2, <3>1, <3>2
  <2> QED
    BY <2>1, <2>2 DEF NoLeakedSlot
<1> QED
  BY <1>1, Inductive, PTL

(* A held request goes ahead only if a human approved that very request.     *)
THEOREM HumanApproves == Spec => []ApprovedOnlyByHuman
<1>1. IInv => ApprovedOnlyByHuman
  BY DEF IInv, DecisionFlows, DecisionAt, ApprovedOnlyByHuman
<1> QED
  BY <1>1, Inductive, PTL

(* While a call waits, a human can still end it.                             *)
THEOREM HoldsStayResolvable == Spec => []WaitingIsResolvable
<1>1. IInv => WaitingIsResolvable
  BY DEF IInv
<1> QED
  BY <1>1, Inductive, PTL

(* Every hold's audit trail is Paused and one end, the one the caller acts   *)
(* on.                                                                       *)
THEOREM AuditIsTruthful == Spec => []AuditTellsTheOutcome
<1>1. IInv => AuditTellsTheOutcome
  BY DEF IInv, AuditedSoFar, AuditedAt, AuditTellsTheOutcome
<1> QED
  BY <1>1, Inductive, PTL

(* The abandonment arm never discards a delivered decision.                  *)
THEOREM DepartureIsNotADecision == Spec => []DepartureYieldsToDecision
<1>1. IInv => DepartureYieldsToDecision
  BY DEF IInv, DecisionFlows, DecisionAt, DepartureYieldsToDecision
<1> QED
  BY <1>1, Inductive, PTL

(* A decision is taken once and never revised; an ended hold is not reopened. *)
THEOREM DecisionsStay == Spec => DecisionsAreFinal
<1> DEFINE Final == \A h \in Holds :
                      /\ decided[h] # "none" => decided'[h] = decided[h]
                      /\ pc[h] = "done" => /\ decided'[h] = decided[h]
                                           /\ outcome'[h] = outcome[h]
                                           /\ trail'[h] = trail[h]
<1>1. IInv /\ [Next]_vars => [Final]_vars
  <2> SUFFICES ASSUME IInv, [Next]_vars, NEW h \in Holds
               PROVE  /\ decided[h] # "none" => decided'[h] = decided[h]
                      /\ pc[h] = "done" => /\ decided'[h] = decided[h]
                                           /\ outcome'[h] = outcome[h]
                                           /\ trail'[h] = trail[h]
    OBVIOUS
  <2> USE DEF IInv, TypeOK
  <2>1. ASSUME NEW s \in slots, NEW d \in Decisions, Resolve(s, d)
        PROVE  decided[h] # "none" \/ pc[h] = "done" => UNCHANGED <<decided[h], outcome[h], trail[h]>>
    <3>1. decided[s.hold] = "none" /\ pc[s.hold] # "done"
      BY DEF SlotsLive
    <3> QED
      BY <2>1, <3>1 DEF Resolve
  <2>2. ASSUME NEW g \in Holds, Run(g) \/ DropFuture(g) \/ Send(g) \/ Leave(g) \/ Elapse(g)
        PROVE  /\ UNCHANGED decided
               /\ pc[h] = "done" => UNCHANGED <<outcome[h], trail[h]>>
    BY <2>2 DEF Run, Register, RefuseFull, AuditPaused, PollReceiver, Receive, PollAbandoned,
                TryReceive, TimeOut, Park, Wake, Conclude, GuardCancel, GuardAudit,
                DropFuture, Send, Leave, Elapse, Audit
  <2>3. CASE UNCHANGED vars
    BY <2>3 DEF vars
  <2> QED
    BY <2>1, <2>2, <2>3 DEF Next
<1> QED
  BY <1>1, Inductive, PTL DEF Spec, DecisionsAreFinal

-----------------------------------------------------------------------------
(* The refinement: the registry and the holds implement ApprovalAbs.         *)

(* No more requests are pending than slots are listed.                       *)
LEMMA PendingBounded ==
    IInv => IsFiniteSet(Gate!Pending) /\ Cardinality(Gate!Pending) <= Cardinality(slots)
<1> SUFFICES ASSUME IInv
             PROVE  IsFiniteSet(Gate!Pending) /\ Cardinality(Gate!Pending) <= Cardinality(slots)
  OBVIOUS
<1> DEFINE f == [s \in slots |-> s.hold]
<1>1. Gate!Pending = {h \in Holds : Listed(h)}
  BY DEF Gate!Pending, Stage, Listed, IInv, SlotsLive
<1>2. f \in Surjection(slots, Gate!Pending)
  BY <1>1 DEF Surjection, Listed, IInv, TypeOK
<1> HIDE DEF f
<1> QED
  BY <1>2, FS_Surjection DEF IInv

(* The instance brings its own copy of Cardinality.                          *)
LEMMA SameCardinality == \A S : Gate!Cardinality(S) = Cardinality(S)
  BY DEF Gate!Cardinality, Cardinality, Gate!IsFiniteSet, IsFiniteSet

(* The initial registry is an initial gate.                                   *)
LEMMA InitGate == Init => Gate!Init
  BY DEF Init, FirstId, Gate!Init, Stage, Answer

(* Each step of a call, of the API or of the environment is a step of the     *)
(* gate, or leaves the gate as it was.                                        *)
LEMMA StepGate == IInv /\ IInv' /\ [Next]_vars => [Gate!Next]_(Gate!vars)
<1> SUFFICES ASSUME IInv, IInv', [Next]_vars PROVE [Gate!Next]_(Gate!vars)
  OBVIOUS
<1> DEFINE stage == [h \in Holds |-> Stage(h)]
           answer == [h \in Holds |-> Answer(h)]
<1>1. ASSUME NEW h \in Holds, Register(h) PROVE Gate!Admit(h)
  <2>1. \A g \in Holds \ {h} : Stage(g)' = Stage(g) /\ Answer(g)' = Answer(g)
    BY <1>1 DEF IInv, TypeOK, Stage, Answer, Listed, Register, Goto, SlotsLive
  <2>2. Stage(h) = "new" /\ Stage(h)' = "pending"
    <3>1. Listed(h)'
      <4>1. [id |-> nextId, hold |-> h] \in slots'
        BY <1>1 DEF Register
      <4>2. [id |-> nextId, hold |-> h].hold = h
        OBVIOUS
      <4> QED
        BY <4>1, <4>2 DEF Listed
    <3> QED
      BY <1>1, <3>1 DEF IInv, TypeOK, Stage, Register, Goto
  <2>3. Answer(h) = "none" /\ Answer(h)' = "none" /\ UNCHANGED decided
    BY <1>1 DEF IInv, TypeOK, Stage, Answer, Listed, Register, Goto, SlotsLive
  <2>4. Cardinality(Gate!Pending) < MaxPending
    <3>1. Cardinality(slots) \in Nat /\ Cardinality(slots) < MaxPending
      BY <1>1, FS_CardinalityType, MaxPendingNat DEF IInv, Register, Full
    <3>2. Cardinality(Gate!Pending) \in Nat /\ Cardinality(Gate!Pending) <= Cardinality(slots)
      BY PendingBounded, FS_CardinalityType
    <3> QED
      BY <3>1, <3>2, MaxPendingNat
  <2>5. stage' = [stage EXCEPT ![h] = "pending"] /\ stage[h] = "new"
    BY <2>1, <2>2
  <2>6. answer' = answer
    BY <2>1, <2>3
  <2> QED
    BY <2>3, <2>4, <2>5, <2>6, SameCardinality DEF Gate!Admit
<1>2. ASSUME NEW h \in Holds, RefuseFull(h) PROVE Gate!TurnAway(h)
  <2>1. \A g \in Holds \ {h} : Stage(g)' = Stage(g) /\ Answer(g)' = Answer(g)
    BY <1>2 DEF IInv, TypeOK, Stage, Answer, Listed, RefuseFull, Goto, Audit, SlotsLive
  <2>2. Stage(h) = "new" /\ Stage(h)' = "settled"
    BY <1>2 DEF IInv, TypeOK, Stage, Answer, Listed, RefuseFull, Goto, Audit, SlotsLive
  <2>3. Answer(h) = "none" /\ Answer(h)' = "refused" /\ UNCHANGED decided
    BY <1>2 DEF IInv, TypeOK, Stage, Answer, Listed, RefuseFull, Goto, Audit, SlotsLive
  <2>5. stage' = [stage EXCEPT ![h] = "settled"] /\ stage[h] = "new"
    BY <2>1, <2>2
  <2>6. answer' = [answer EXCEPT ![h] = "refused"] /\ answer[h] = "none"
    BY <2>1, <2>3
  <2> QED
    BY <2>3, <2>5, <2>6 DEF Gate!TurnAway
<1>3. ASSUME NEW s \in slots, NEW d \in Decisions, Resolve(s, d)
      PROVE  s.hold \in Holds /\ Gate!Decide(s.hold, d)
  <2>4. s.hold \in Holds
    BY DEF IInv, TypeOK
  <2>1. \A g \in Holds \ {s.hold} : Stage(g)' = Stage(g) /\ Answer(g)' = Answer(g)
    BY <1>3 DEF IInv, TypeOK, Stage, Answer, Listed, Resolve, Without, SlotsLive, IdsOwned
  <2>2. Stage(s.hold) = "pending" /\ Stage(s.hold)' = "settled"
    BY <1>3 DEF IInv, TypeOK, Stage, Answer, Listed, Resolve, Without, SlotsLive, IdsOwned
  <2>3. Answer(s.hold)' = Answer(s.hold) /\ decided' = [decided EXCEPT ![s.hold] = d]
    BY <1>3 DEF IInv, TypeOK, Stage, Answer, Listed, Resolve, Without, SlotsLive, IdsOwned
  <2>5. stage' = [stage EXCEPT ![s.hold] = "settled"] /\ stage[s.hold] = "pending"
    BY <2>1, <2>2, <2>4
  <2>6. answer' = answer
    BY <2>1, <2>3, <2>4
  <2> QED
    BY <2>3, <2>4, <2>5, <2>6 DEF Gate!Decide
<1>4. ASSUME NEW h \in Holds, TimeOut(h) \/ GuardCancel(h)
      PROVE  Gate!Withdraw(h) \/ UNCHANGED Gate!vars
  <2>1. \A g \in Holds \ {h} : Stage(g)' = Stage(g) /\ Answer(g)' = Answer(g)
    BY <1>4 DEF IInv, TypeOK, Stage, Answer, Listed, TimeOut, GuardCancel, Goto, Without,
                SlotsLive, IdsOwned
  <2>2. Stage(h) \in {"pending", "settled"} /\ Stage(h)' = "settled"
    BY <1>4 DEF IInv, TypeOK, Stage, Listed, TimeOut, GuardCancel, Goto, Without,
                SlotsLive, IdsOwned
  <2>3. Answer(h)' = Answer(h) /\ UNCHANGED decided
    BY <1>4 DEF IInv, TypeOK, Answer, TimeOut, GuardCancel, Goto
  <2>4. stage' = [stage EXCEPT ![h] = "settled"] /\ stage[h] \in {"pending", "settled"}
    BY <2>1, <2>2
  <2>5. answer' = answer
    BY <2>1, <2>3
  <2>6. stage[h] = "settled" => stage' = stage
    BY <2>1, <2>2
  <2> QED
    BY <2>3, <2>4, <2>5, <2>6 DEF Gate!Withdraw, Gate!vars
<1>5. ASSUME NEW h \in Holds, Conclude(h) PROVE Gate!Grant(h) \/ Gate!Refuse(h)
  <2>1. \A g \in Holds \ {h} : Stage(g)' = Stage(g) /\ Answer(g)' = Answer(g)
    BY <1>5 DEF IInv, TypeOK, Stage, Answer, Listed, Conclude, Goto, SlotsLive
  <2>2. Stage(h) = "settled" /\ Stage(h)' = "settled"
    BY <1>5 DEF IInv, TypeOK, Stage, Answer, Listed, Conclude, Goto, SlotsLive
  <2>3. Answer(h) = "none" /\ Answer(h)' = (IF verdict[h] = "Approve" THEN "granted" ELSE "refused") /\ UNCHANGED decided
    BY <1>5 DEF IInv, TypeOK, Stage, Answer, Listed, Conclude, Goto, SlotsLive
  <2>4. verdict[h] = "Approve" => decided[h] = "Approve"
    BY DEF IInv, DecisionFlows, DecisionAt
  <2>5. stage' = stage /\ stage[h] = "settled"
    BY <2>1, <2>2
  <2>6. answer' = [answer EXCEPT ![h] = (IF verdict[h] = "Approve" THEN "granted" ELSE "refused")] /\ answer[h] = "none"
    BY <2>1, <2>3
  <2> QED
    BY <2>3, <2>4, <2>5, <2>6 DEF Gate!Grant, Gate!Refuse
<1>6. ASSUME NEW h \in Holds, GuardAudit(h) PROVE Gate!Refuse(h)
  <2>1. /\ pc[h] = "guard_audit" /\ pc' = [pc EXCEPT ![h] = "done"]
        /\ UNCHANGED <<slots, decided, outcome>>
    BY <1>6 DEF GuardAudit, Goto
  <2>2. \A g \in Holds \ {h} : Stage(g)' = Stage(g) /\ Answer(g)' = Answer(g)
    BY <2>1 DEF IInv, TypeOK, Stage, Answer, Listed
  <2>3. ~Listed(h) /\ ~Listed(h)'
    BY <2>1 DEF IInv, Listed, SlotsLive
  <2>4. Stage(h) = "settled" /\ Stage(h)' = "settled"
    BY <2>1, <2>3 DEF IInv, TypeOK, Stage
  <2>5. outcome[h] # "Approved"
    <3>1. AuditedAt(h)
      BY DEF IInv, AuditedSoFar
    <3> QED BY <2>1, <3>1 DEF AuditedAt
  <2>6. Answer(h) = "none" /\ Answer(h)' = "refused"
    BY <2>1, <2>5 DEF IInv, TypeOK, Answer
  <2>7. stage' = stage /\ stage[h] = "settled"
    BY <2>2, <2>4
  <2>8. answer' = [answer EXCEPT ![h] = "refused"] /\ answer[h] = "none"
    BY <2>2, <2>6
  <2> QED
    BY <2>1, <2>7, <2>8 DEF Gate!Refuse
<1>7. ASSUME NEW h \in Holds,
             \/ AuditPaused(h) \/ PollReceiver(h) \/ PollAbandoned(h) \/ TryReceive(h)
             \/ Park(h) \/ Wake(h) \/ DropFuture(h)
      PROVE  UNCHANGED Gate!vars
  BY <1>7 DEF IInv, TypeOK, Stage, Answer, Listed, Gate!vars, Goto, AuditPaused, PollReceiver,
              Receive, PollAbandoned, TryReceive, Park, Wake, DropFuture
<1>8. ASSUME NEW h \in Holds, Send(h) \/ Leave(h) \/ Elapse(h) PROVE UNCHANGED Gate!vars
  BY <1>8 DEF Stage, Answer, Listed, Gate!vars, Send, Leave, Elapse
<1>9. CASE UNCHANGED vars
  BY <1>9 DEF Stage, Answer, Listed, Gate!vars, vars
<1>10. ASSUME NEW h \in Holds, Run(h) \/ DropFuture(h) \/ Send(h) \/ Leave(h) \/ Elapse(h)
       PROVE  Gate!Next \/ UNCHANGED Gate!vars
  BY <1>1, <1>2, <1>4, <1>5, <1>6, <1>7, <1>8, <1>10 DEF Run, Gate!Next
<1>11. ASSUME NEW s \in slots, NEW d \in Decisions, Resolve(s, d) PROVE Gate!Next
  BY <1>3, <1>11 DEF Gate!Next, Decisions
<1> QED
  BY <1>9, <1>10, <1>11 DEF Next

(* Every behaviour of the registry is one the abstract gate allows: nothing  *)
(* is granted without a human's approval, nothing beyond the cap is pending. *)
THEOREM ImplementsGate == Spec => GateSafeSpec
<1> QED
  BY InitGate, StepGate, Inductive, PTL DEF Spec, GateSafeSpec, Gate!SafeSpec
=============================================================================
