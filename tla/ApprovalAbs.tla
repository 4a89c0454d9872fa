---------------------------- MODULE ApprovalAbs ----------------------------
(***************************************************************************)
(* What the approval gate promises, without saying how: a paused request   *)
(* is pending until a human decides it or it is withdrawn, and it is        *)
(* granted only on a human's approval.  At most Capacity requests are       *)
(* pending at once; a request beyond that is refused outright.              *)
(*                                                                         *)
(* Deciding and answering are separate on purpose: a request withdrawn or   *)
(* refused after the decision is allowed here (the client is gone), a       *)
(* request granted without one never is.                                    *)
(***************************************************************************)
EXTENDS Naturals, FiniteSets

CONSTANTS
    Holds,      \* the paused requests
    Capacity    \* how many may be pending at once

VARIABLES
    stage,      \* "new", "pending" or "settled"
    human,      \* what a human decided, "none" while nobody has
    answer      \* what the caller was told: "none", "granted" or "refused"

vars == <<stage, human, answer>>

Pending == {h \in Holds : stage[h] = "pending"}

Init ==
    /\ stage = [h \in Holds |-> "new"]
    /\ human = [h \in Holds |-> "none"]
    /\ answer = [h \in Holds |-> "none"]

Admit(h) ==
    /\ stage[h] = "new"
    /\ Cardinality(Pending) < Capacity
    /\ stage' = [stage EXCEPT ![h] = "pending"]
    /\ UNCHANGED <<human, answer>>

TurnAway(h) ==
    /\ stage[h] = "new"
    /\ stage' = [stage EXCEPT ![h] = "settled"]
    /\ answer' = [answer EXCEPT ![h] = "refused"]
    /\ UNCHANGED human

Decide(h, d) ==
    /\ stage[h] = "pending"
    /\ stage' = [stage EXCEPT ![h] = "settled"]
    /\ human' = [human EXCEPT ![h] = d]
    /\ UNCHANGED answer

Withdraw(h) ==
    /\ stage[h] = "pending"
    /\ stage' = [stage EXCEPT ![h] = "settled"]
    /\ UNCHANGED <<human, answer>>

Grant(h) ==
    /\ stage[h] = "settled"
    /\ answer[h] = "none"
    /\ human[h] = "Approve"
    /\ answer' = [answer EXCEPT ![h] = "granted"]
    /\ UNCHANGED <<stage, human>>

Refuse(h) ==
    /\ stage[h] = "settled"
    /\ answer[h] = "none"
    /\ answer' = [answer EXCEPT ![h] = "refused"]
    /\ UNCHANGED <<stage, human>>

Next ==
    \E h \in Holds :
        \/ Admit(h) \/ TurnAway(h) \/ Withdraw(h) \/ Grant(h) \/ Refuse(h)
        \/ \E d \in {"Approve", "Reject"} : Decide(h, d)

SafeSpec == Init /\ [][Next]_vars

(* Every pending request is settled and every settled request answered.    *)
Spec ==
    /\ SafeSpec
    /\ \A h \in Holds : WF_vars(Withdraw(h)) /\ WF_vars(Grant(h) \/ Refuse(h))
=============================================================================
