------------------------- MODULE MgmtTokenProofs -------------------------
(***************************************************************************)
(* What the token protocol guarantees for any number of starts and any      *)
(* faults, as long as no running holder's lock has been broken.             *)
(***************************************************************************)
EXTENDS MgmtToken, TLAPS

(* A start between acquire_lock and the end of its guard owns the file there.*)
Single == \A p \in Starts : Holding(p) => lock = p

(* A start past its re-read found no token, and none has appeared since.    *)
NothingToReplace == \A p \in Starts : pc[p] \in {"check", "publish"} => file \notin Starts

(* The inductive invariant: AgreeUnlessBroken needs that whoever may publish *)
(* saw no token, which needs that only the lock's owner is in there.        *)
Exclusive == ~brokeLive => Single /\ NothingToReplace /\ StartsAgree

Inv == TypeOK /\ Exclusive

-----------------------------------------------------------------------------
(* Types hold initially and across every step of every start.               *)
LEMMA TypeInit == Init => TypeOK
  BY DEF Init, TypeOK, Locked

(* ... and no step of a start, of the clock or of a fault breaks them.       *)
LEMMA TypeStep == TypeOK /\ [Next]_vars => TypeOK'
<1> SUFFICES ASSUME TypeOK, [Next]_vars PROVE TypeOK'
  OBVIOUS
<1>1. CASE AgeOut
  BY <1>1 DEF AgeOut, TypeOK
<1>2. ASSUME NEW p \in Starts, FirstRead(p) \/ Reread(p) \/ Poll(p) PROVE TypeOK'
  BY <1>2 DEF FirstRead, Reread, Poll, Read, Keep, Goto, TypeOK, Locked
<1>3. ASSUME NEW p \in Starts, Acquire(p) PROVE TypeOK'
  BY <1>3 DEF Acquire, Goto, TypeOK, Locked
<1>4. ASSUME NEW p \in Starts, Check(p) \/ Release(p) \/ Budget(p) \/ Judge(p)
      PROVE TypeOK'
  BY <1>4 DEF Check, Release, Budget, Judge, Goto, TypeOK, Locked
<1>5. ASSUME NEW p \in Starts, Publish(p) PROVE TypeOK'
  BY <1>5 DEF Publish, Goto, TypeOK, Locked
<1>6. ASSUME NEW p \in Starts, Unlink(p) PROVE TypeOK'
  BY <1>6 DEF Unlink, Goto, TypeOK, Locked
<1>7. ASSUME NEW p \in Starts, Break(p) PROVE TypeOK'
  <2>1. brokeLive' \in BOOLEAN
    BY <1>7 DEF Break, TypeOK
  <2> QED BY <1>7, <2>1 DEF Break, Goto, TypeOK, Locked
<1>8. ASSUME NEW p \in Starts, Fails(p) \/ Crash(p) \/ Expire(p) PROVE TypeOK'
  BY <1>8 DEF Fails, Crash, Expire, Goto, TypeOK, Locked
<1>9. CASE UNCHANGED vars
  BY <1>9 DEF vars, TypeOK
<1> QED BY <1>1, <1>2, <1>3, <1>4, <1>5, <1>6, <1>7, <1>8, <1>9 DEF Next, Step

-----------------------------------------------------------------------------
(* No start holds the lock or a token before it begins.                     *)
LEMMA InvInit == Init => Inv
<1> SUFFICES ASSUME Init PROVE Inv
  OBVIOUS
<1>1. TypeOK
  BY TypeInit
<1>2. Exclusive
  BY DEF Init, Exclusive, Single, NothingToReplace, StartsAgree, Holding, Locked
<1> QED BY <1>1, <1>2 DEF Inv

(* Every step keeps Exclusive: only Acquire makes a holder, only Reread lets *)
(* one go on to publish, and Break of a live lock ends the promise.         *)
LEMMA ExclusiveStep == Inv /\ [Next]_vars => Exclusive'
<1> SUFFICES ASSUME Inv, [Next]_vars, ~brokeLive' PROVE (Single /\ NothingToReplace /\ StartsAgree)'
  BY DEF Exclusive
<1> USE DEF Inv
<1>0. ~brokeLive
  BY DEF Next, Step, vars, TypeOK, AgeOut, FirstRead, Reread, Poll, Read, Acquire, Check,
         Release, Budget, Judge, Publish, Unlink, Break, Fails, Crash, Expire
<1>a. Single /\ NothingToReplace /\ StartsAgree
  BY <1>0 DEF Exclusive
<1>1. CASE AgeOut
  BY <1>1, <1>a DEF AgeOut, Single, NothingToReplace, StartsAgree, Holding
<1>2. ASSUME NEW p \in Starts, FirstRead(p) \/ Reread(p) \/ Poll(p)
      PROVE (Single /\ NothingToReplace /\ StartsAgree)'
  <2>1. pc' = [pc EXCEPT ![p] = pc'[p]] /\ UNCHANGED <<file, lock>>
    BY <1>2 DEF FirstRead, Reread, Poll, Read, Goto, TypeOK
  <2>2. /\ pc'[p] \in Locked => pc[p] \in Locked
        /\ pc'[p] \in {"check", "publish"} => file \notin Starts
    BY <1>2 DEF FirstRead, Reread, Poll, Read, Goto, TypeOK, Locked
  <2>3. \A q \in Starts : held'[q] = held[q] \/ held'[q] = file
    BY <1>2 DEF FirstRead, Reread, Poll, Read, Keep, TypeOK
  <2> QED BY <1>a, <2>1, <2>2, <2>3 DEF Single, NothingToReplace, StartsAgree, Holding, TypeOK
<1>3. ASSUME NEW p \in Starts, Acquire(p)
      PROVE (Single /\ NothingToReplace /\ StartsAgree)'
  <2>1. CASE lock = "none"
    <3>1. \A q \in Starts : ~Holding(q)
      BY <1>a, <2>1, StartsAreTokens DEF Single
    <3> QED BY <1>3, <1>a, <2>1, <3>1
            DEF Acquire, Goto, Single, NothingToReplace, StartsAgree, Holding, TypeOK, Locked
  <2>2. CASE lock # "none"
    BY <1>3, <1>a, <2>2
    DEF Acquire, Goto, Single, NothingToReplace, StartsAgree, Holding, TypeOK, Locked
  <2> QED BY <2>1, <2>2
<1>4. ASSUME NEW p \in Starts, Check(p) \/ Release(p) \/ Budget(p) \/ Judge(p)
      PROVE (Single /\ NothingToReplace /\ StartsAgree)'
  <2>1. pc' = [pc EXCEPT ![p] = pc'[p]] /\ UNCHANGED <<file, lock, held>>
    BY <1>4 DEF Check, Release, Budget, Judge, Goto, TypeOK
  <2>2. /\ pc'[p] \in Locked => pc[p] \in Locked
        /\ pc'[p] \in {"check", "publish"} => pc[p] \in {"check", "publish"}
    BY <1>4 DEF Check, Release, Budget, Judge, Goto, TypeOK, Locked
  <2> QED BY <1>a, <2>1, <2>2 DEF Single, NothingToReplace, StartsAgree, Holding, TypeOK
<1>5. ASSUME NEW p \in Starts, Publish(p)
      PROVE (Single /\ NothingToReplace /\ StartsAgree)'
  <2>1. pc' = [pc EXCEPT ![p] = "release"] /\ pc[p] = "publish" /\ lock' = lock
        /\ held' = [held EXCEPT ![p] = p] /\ file' = p
    BY <1>5 DEF Publish, Goto
  <2>2. \A q \in Starts : q # p => ~Holding(q) /\ held[q] = "none"
    <3>1. file \notin Starts /\ lock = p
      BY <1>a, <2>1 DEF NothingToReplace, Single, Holding, Locked
    <3>2. \A q \in Starts : q # p => ~Holding(q)
      BY <1>a, <3>1 DEF Single
    <3>3. \A q \in Starts : held[q] = "none"
      BY <1>a, <3>1 DEF StartsAgree, TypeOK
    <3> QED BY <3>2, <3>3
  <2>3. Single'
    BY <1>a, <2>1 DEF Single, Holding, Locked, TypeOK
  <2>4. NothingToReplace'
    BY <2>1, <2>2 DEF NothingToReplace, Holding, Locked, TypeOK
  <2>5. StartsAgree'
    BY <2>1, <2>2 DEF StartsAgree, TypeOK
  <2> QED BY <2>3, <2>4, <2>5
<1>6. ASSUME NEW p \in Starts, Unlink(p)
      PROVE (Single /\ NothingToReplace /\ StartsAgree)'
  <2>1. pc' = [pc EXCEPT ![p] = "ended"] /\ pc[p] = "unlink" /\ UNCHANGED <<file, held>>
    BY <1>6 DEF Unlink, Goto
  <2>2. \A q \in Starts : q # p => ~Holding(q)
    BY <1>a, <2>1 DEF Single, Holding, Locked
  <2> QED BY <1>a, <2>1, <2>2 DEF Single, NothingToReplace, StartsAgree, Holding, Locked, TypeOK
<1>7. ASSUME NEW p \in Starts, Break(p)
      PROVE (Single /\ NothingToReplace /\ StartsAgree)'
  <2>1. pc' = [pc EXCEPT ![p] = "acquire"] /\ UNCHANGED <<file, held>>
    BY <1>7 DEF Break, Goto
  <2>2. \A q \in Starts : ~Holding(q)
    BY <1>7, <1>a DEF Break, Single, StillOurs
  <2> QED BY <1>a, <2>1, <2>2 DEF Single, NothingToReplace, StartsAgree, Holding, Locked, TypeOK
<1>8. ASSUME NEW p \in Starts, Fails(p) \/ Crash(p) \/ Expire(p)
      PROVE (Single /\ NothingToReplace /\ StartsAgree)'
  <2>1. pc' = [pc EXCEPT ![p] = pc'[p]] /\ UNCHANGED <<file, lock, held>>
    BY <1>8 DEF Fails, Crash, Expire, Goto, TypeOK
  <2>2. /\ pc'[p] \in Locked => pc[p] \in Locked
        /\ pc'[p] \in {"check", "publish"} => pc[p] \in {"check", "publish"}
    BY <1>8 DEF Fails, Crash, Expire, Goto, TypeOK, Locked
  <2> QED BY <1>a, <2>1, <2>2 DEF Single, NothingToReplace, StartsAgree, Holding, TypeOK
<1>9. CASE UNCHANGED vars
  BY <1>9, <1>a DEF vars, Single, NothingToReplace, StartsAgree, Holding
<1> QED BY <1>1, <1>2, <1>3, <1>4, <1>5, <1>6, <1>7, <1>8, <1>9 DEF Next, Step

(* The invariant holds of every reachable state.                            *)
THEOREM Inductive == Spec => []Inv
<1>1. Inv /\ [Next]_vars => Inv'
  BY TypeStep, ExclusiveStep DEF Inv
<1> QED BY InvInit, <1>1, PTL DEF Spec

-----------------------------------------------------------------------------
(* Every variable of the protocol keeps its type.                           *)
THEOREM TypeCorrect == Spec => []TypeOK
<1>1. Inv => TypeOK
  BY DEF Inv
<1> QED BY Inductive, <1>1, PTL

(* Every start that goes on with a token goes on with the one on disk,      *)
(* unless a running holder's lock was broken (#189, #257).                  *)
THEOREM StartsConverge == Spec => []AgreeUnlessBroken
<1>1. Inv => AgreeUnlessBroken
  BY DEF Inv, Exclusive, AgreeUnlessBroken
<1> QED BY Inductive, <1>1, PTL

(* At most one start is inside the critical section, and the lock is its.   *)
THEOREM LockIsExclusive == Spec => []LockExcludes
<1>1. Inv => LockExcludes
  BY DEF Inv, Exclusive, Single, LockExcludes, StillOurs
<1> QED BY Inductive, <1>1, PTL

(* A token once published is never replaced.                                *)
THEOREM PublishedTokenStays == Spec => TokenStays
<1>1. Inv /\ [Next]_vars => [~brokeLive /\ file \in Starts => file' = file]_vars
  <2> SUFFICES ASSUME Inv, Next, ~brokeLive, file \in Starts PROVE file' = file
    BY DEF vars
  <2>1. \A p \in Starts : ~Publish(p)
    BY DEF Inv, Exclusive, NothingToReplace, Publish
  <2> QED BY <2>1 DEF Next, Step, AgeOut, FirstRead, Reread, Poll, Read, Acquire, Check,
                      Release, Budget, Judge, Unlink, Break, Fails, Crash, Expire
<1> QED BY Inductive, <1>1, PTL DEF Spec, TokenStays
=============================================================================
