----------------------------- MODULE MgmtToken -----------------------------
(***************************************************************************)
(* The management token two services must agree on                          *)
(* (crates/honmoon-cli/src/mgmt_token.rs; packages/api/src/auth.ts follows   *)
(* the same protocol over the same files).                                  *)
(*                                                                         *)
(* Several starts find no usable token.  One takes an O_EXCL lock file,     *)
(* mints and publishes by rename; the others wait and adopt.  A lock left   *)
(* by a start that crashed is judged by its age and renamed away.  A start  *)
(* is known by the token it would mint, and a lock file by the start that   *)
(* created it: the guard keeps the file open, so its inode number is not    *)
(* reused, and a start creates a lock only when it has none at the path.    *)
(***************************************************************************)
CONSTANTS
    Starts,    \* the processes starting over one directory
    Faults     \* what may go wrong, a subset of {"crash", "freeze", "io"}

ASSUME StartsAreTokens == "absent" \notin Starts /\ "empty" \notin Starts /\ "none" \notin Starts
ASSUME KnownFaults == Faults \subseteq {"crash", "freeze", "io"}

VARIABLES
    file,      \* mgmt-token: absent, empty, or a token
    lock,      \* mgmt-token.lock: the start that created it, "none" without one
    stale,     \* that file is older than stale_after
    pc,        \* where each start is
    held,      \* the token each start goes on with
    expired,   \* its budget is spent
    brokeLive  \* a lock whose holder was still running has been broken

vars == <<file, lock, stale, pc, held, expired, brokeLive>>

(* Between taking the lock and the end of the guard's Drop.                 *)
Locked == {"reread", "check", "publish", "release", "unlink"}

Holding(p) == pc[p] \in Locked

Init ==
    /\ file \in {"absent", "empty"}
    /\ lock = "none" /\ stale = FALSE
    /\ pc = [p \in Starts |-> "start"]
    /\ held = [p \in Starts |-> "none"]
    /\ expired = [p \in Starts |-> FALSE]
    /\ brokeLive = FALSE

Goto(p, point) == pc' = [pc EXCEPT ![p] = point]
Keep(p) == held' = [held EXCEPT ![p] = file]

(* read_on_disk: adopt the token there and go to `found`, or to `missing`.  *)
Read(p, found, missing) ==
    /\ IF file \in Starts
       THEN Keep(p) /\ Goto(p, found)
       ELSE Goto(p, missing) /\ UNCHANGED held
    /\ UNCHANGED <<file, lock, stale, expired, brokeLive>>

(* load_or_create: the persisted token, if there is one.                    *)
FirstRead(p) ==
    /\ pc[p] = "start"
    /\ Read(p, "ended", "acquire")

(* As Acquire, opening the lock file without O_EXCL.                        *)
AcquireShared(p) ==
    /\ pc[p] = "acquire"
    /\ lock' = p
    /\ stale' = FALSE
    /\ Goto(p, "reread")
    /\ UNCHANGED <<file, held, expired, brokeLive>>

(* acquire_lock: O_CREAT|O_EXCL.                                            *)
Acquire(p) ==
    /\ pc[p] = "acquire"
    /\ IF lock = "none"
       THEN lock' = p /\ stale' = FALSE /\ Goto(p, "reread")
       ELSE Goto(p, "poll") /\ UNCHANGED <<lock, stale>>
    /\ UNCHANGED <<file, held, expired, brokeLive>>

(* As Reread, minting on what was read before the lock was taken.           *)
RereadBlind(p) ==
    /\ pc[p] = "reread"
    /\ Goto(p, "check")
    /\ UNCHANGED <<file, lock, stale, held, expired, brokeLive>>

(* The re-read under the lock.                                              *)
Reread(p) ==
    /\ pc[p] = "reread"
    /\ Read(p, "release", "check")

StillOurs(p) == lock = p

(* The last look before publishing; a lost lock is not published over.      *)
Check(p) ==
    /\ pc[p] = "check"
    /\ \/ StillOurs(p) /\ Goto(p, "publish")
       \/ ~StillOurs(p) /\ Goto(p, IF expired[p] THEN "ended" ELSE "acquire")
    /\ UNCHANGED <<file, lock, stale, held, expired, brokeLive>>

(* publish_token: the rename.                                               *)
Publish(p) ==
    /\ pc[p] = "publish"
    /\ file' = p
    /\ held' = [held EXCEPT ![p] = p]
    /\ Goto(p, "release")
    /\ UNCHANGED <<lock, stale, expired, brokeLive>>

(* LockGuard::drop: compare, then unlink whatever is at the path by then.   *)
Release(p) ==
    /\ pc[p] = "release"
    /\ Goto(p, IF StillOurs(p) THEN "unlink" ELSE "ended")
    /\ UNCHANGED <<file, lock, stale, held, expired, brokeLive>>

Unlink(p) ==
    /\ pc[p] = "unlink"
    /\ lock' = "none" /\ stale' = FALSE
    /\ Goto(p, "ended")
    /\ UNCHANGED <<file, held, expired, brokeLive>>

(* A start that lost the lock polls for the winner's token.                 *)
Poll(p) ==
    /\ pc[p] = "poll"
    /\ Read(p, "ended", "budget")

(* As Budget, waiting however long the lock stays.                          *)
BudgetIgnored(p) ==
    /\ pc[p] = "budget"
    /\ Goto(p, "judge")
    /\ UNCHANGED <<file, lock, stale, held, expired, brokeLive>>

(* The budget is looked at after the poll.                                  *)
Budget(p) ==
    /\ pc[p] = "budget"
    /\ Goto(p, IF expired[p] THEN "ended" ELSE "judge")
    /\ UNCHANGED <<file, lock, stale, held, expired, brokeLive>>

(* lock_is_abandoned.                                                       *)
Judge(p) ==
    /\ pc[p] = "judge"
    /\ Goto(p, IF lock # "none" /\ stale THEN "break" ELSE "acquire")
    /\ UNCHANGED <<file, lock, stale, held, expired, brokeLive>>

(* break_abandoned_lock: rename away whatever is at the path by now.        *)
Break(p) ==
    /\ pc[p] = "break"
    /\ lock' = "none" /\ stale' = FALSE
    /\ brokeLive' = (brokeLive \/ \E q \in Starts : Holding(q) /\ StillOurs(q))
    /\ Goto(p, "acquire")
    /\ UNCHANGED <<file, held, expired>>

(* A system call fails.  A start that cannot read, create or publish fails, *)
(* releasing a lock it holds; one that cannot stat or rename the lock tries *)
(* again; one that cannot unlink its lock leaves it behind.                 *)
Fails(p) ==
    /\ "io" \in Faults
    /\ \/ pc[p] \in {"start", "acquire", "poll", "unlink"} /\ Goto(p, "ended")
       \/ pc[p] \in {"reread", "publish"} /\ Goto(p, "release")
       \/ pc[p] \in {"judge", "break"} /\ Goto(p, "acquire")
    /\ UNCHANGED <<file, lock, stale, held, expired, brokeLive>>

-----------------------------------------------------------------------------
(* The environment.  A lock ages only once its holder has stopped: crashed, *)
(* or frozen far beyond the microseconds its critical section takes.        *)

Crash(p) ==
    /\ "crash" \in Faults
    /\ pc[p] \notin {"ended", "crashed"}
    /\ Goto(p, "crashed")
    /\ UNCHANGED <<file, lock, stale, held, expired, brokeLive>>

AgeOut ==
    /\ lock # "none" /\ ~stale
    /\ "freeze" \in Faults \/ ~\E p \in Starts : Holding(p) /\ StillOurs(p)
    /\ stale' = TRUE
    /\ UNCHANGED <<file, lock, pc, held, expired, brokeLive>>

Expire(p) ==
    /\ ~expired[p]
    /\ pc[p] \notin {"start", "ended", "crashed"}
    /\ expired' = [expired EXCEPT ![p] = TRUE]
    /\ UNCHANGED <<file, lock, stale, pc, held, brokeLive>>

-----------------------------------------------------------------------------
Step(p) ==
    \/ FirstRead(p) \/ Acquire(p) \/ Reread(p) \/ Check(p) \/ Publish(p)
    \/ Release(p) \/ Unlink(p) \/ Poll(p) \/ Budget(p) \/ Judge(p) \/ Break(p)

Next == AgeOut \/ \E p \in Starts : Step(p) \/ Fails(p) \/ Crash(p) \/ Expire(p)

Spec == Init /\ [][Next]_vars

(* Each process runs and its clock moves.                                   *)
FairSpec == Spec /\ \A p \in Starts : WF_vars(Step(p)) /\ WF_vars(Expire(p))

-----------------------------------------------------------------------------
TypeOK ==
    /\ file \in Starts \cup {"absent", "empty"}
    /\ lock \in Starts \cup {"none"} /\ stale \in BOOLEAN
    /\ pc \in [Starts -> Locked \cup {"start", "acquire", "poll", "budget", "judge",
                                      "break", "ended", "crashed"}]
    /\ held \in [Starts -> Starts \cup {"none"}]
    /\ expired \in [Starts -> BOOLEAN]
    /\ brokeLive \in BOOLEAN

(* Every start that goes on with a token holds the one on disk, so every    *)
(* service over the directory accepts the same credential (#189).           *)
StartsAgree == \A p \in Starts : held[p] # "none" => file = held[p]

(* ... whatever crashes, freezes and fails, until a running holder's lock   *)
(* is broken.                                                               *)
AgreeUnlessBroken == brokeLive \/ StartsAgree

(* Until then at most one start is between taking the lock and releasing it,*)
(* and the lock on disk is that start's.                                    *)
LockExcludes ==
    brokeLive \/ \A p, q \in Starts :
                     Holding(p) => StillOurs(p) /\ (Holding(q) => p = q)

(* Until then a published token is never replaced: a service that read it   *)
(* is not locked out later.                                                 *)
TokenStays == [][~brokeLive /\ file \in Starts => file' = file]_vars

(* No start waits forever, a lock left by a crash included.                 *)
EveryStartEnds == \A p \in Starts : <>(pc[p] \in {"ended", "crashed"})
=============================================================================
