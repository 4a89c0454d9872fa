----------------------------- MODULE Dashboard ------------------------------
(***************************************************************************)
(* The dashboard's page against the management API: it signs in with the   *)
(* session of its link's fragment, polls the pending approvals while       *)
(* answers overlap and arrive out of order, and posts the operator's       *)
(* decisions (hooks.ts, session.ts, api.ts; honmoon-mgmt lib.rs).          *)
(***************************************************************************)
EXTENDS Naturals, Sequences, FiniteSets

CONSTANTS Approvals,  \* ids of the approvals the gateway may hold
          Fragments,  \* of the links the page is opened with
          Session,    \* session_secret(mgmt_token)
          MaxPolls    \* bound: polls of a page, its reloads included

VARIABLES waiting,   \* approvals pending at the gateway
          resolved,  \* approvals a request of the page decided, and after which poll
          session,   \* sessionStorage's entry
          mount,     \* which run of the polling effect is mounted
          tick,      \* refreshes asked for
          polls,     \* every poll ever started: its effect, its answer
          committed, \* the effect's lastCommitted
          shown,     \* the poll whose list is shown, and the list
          clicks     \* by id: the decision on its way, or its answer

pageVars == <<waiting, resolved, session, mount, tick, polls, committed, shown, clicks>>

NoSession == "none"
Hidden == [run |-> 0, list |-> {}]
Idle == "idle"

PageInit ==
    /\ waiting = Approvals
    /\ resolved = [id \in {} |-> 0]
    /\ session = NoSession
    /\ mount = 0 /\ tick = 0 /\ committed = 0
    /\ polls = <<>> /\ shown = Hidden
    /\ clicks = [id \in Approvals |-> Idle]

(* authorized, require_credential: every /api route answers 401 without.   *)
Authorized(presented) == presented = Session

NewPoll == [effect |-> mount', answer |-> "asked", list |-> {}, as |-> session']

(* captureSession and the first effect: a fragment that is no session      *)
(* leaves what the tab stored before.                                      *)
OpenPage(fragment) ==
    /\ Len(polls) < MaxPolls
    /\ session' = IF fragment.shape = "hex64" THEN fragment.secret ELSE session
    /\ mount' = mount + 1 /\ committed' = 0
    /\ shown' = Hidden
    /\ polls' = Append(polls, NewPoll)
    /\ clicks' = [id \in Approvals |-> Idle]
    /\ tick' = 0
    /\ UNCHANGED <<waiting, resolved>>

(* setInterval's run.                                                      *)
Poll ==
    /\ mount > 0 /\ Len(polls) < MaxPolls
    /\ polls' = Append(polls, [effect |-> mount, answer |-> "asked", list |-> {}, as |-> session])
    /\ UNCHANGED <<waiting, resolved, session, mount, tick, committed, shown, clicks>>

(* list_approvals.                                                         *)
ListApprovals(r) ==
    /\ polls[r].answer = "asked"
    /\ polls' = [polls EXCEPT ![r].answer = IF Authorized(polls[r].as) THEN "list" ELSE "error",
                              ![r].list = IF Authorized(polls[r].as) THEN waiting ELSE {}]
    /\ UNCHANGED <<waiting, resolved, session, mount, tick, committed, shown, clicks>>

\* As if only the mount were asked, and not which runs have committed.
MayCommitMounted(r) == polls[r].effect = mount

(* usePolling's commit: of a mounted effect, and no newer run has.         *)
MayCommit(r) == polls[r].effect = mount /\ r > committed

Arrives(r) ==
    /\ polls[r].answer \in {"list", "error"}
    /\ polls' = [polls EXCEPT ![r].answer = "done", ![r].list = {}]
    /\ IF MayCommit(r)
       THEN /\ committed' = r
            /\ shown' = IF polls[r].answer = "list"
                        THEN [run |-> r, list |-> polls[r].list] ELSE shown
       ELSE UNCHANGED <<committed, shown>>
    /\ UNCHANGED <<waiting, resolved, session, mount, tick, clicks>>

(* useApprovalActions: a row is busy until its own answer is back.         *)
Decide(id) ==
    /\ id \in shown.list /\ clicks[id] = Idle
    /\ clicks' = [clicks EXCEPT ![id] = "posted"]
    /\ UNCHANGED <<waiting, resolved, session, mount, tick, polls, committed, shown>>

(* approve, reject: the second of two, or one too late, answers 404.       *)
Resolve(id) ==
    /\ clicks[id] = "posted"
    /\ IF Authorized(session) /\ id \in waiting
       THEN /\ waiting' = waiting \ {id}
            /\ resolved' = [i \in DOMAIN resolved \union {id} |->
                                IF i = id THEN Len(polls) ELSE resolved[i]]
            /\ clicks' = [clicks EXCEPT ![id] = "ok"]
       ELSE clicks' = [clicks EXCEPT ![id] = "failed"] /\ UNCHANGED <<waiting, resolved>>
    /\ UNCHANGED <<session, mount, tick, polls, committed, shown>>

Settles(id) ==
    /\ clicks[id] \in {"ok", "failed"}
    /\ tick' = IF clicks[id] = "ok" THEN 1 ELSE tick
    /\ clicks' = [clicks EXCEPT ![id] = Idle]
    /\ UNCHANGED <<waiting, resolved, session, mount, polls, committed, shown>>

(* The tick changed: the effect is cleaned up and mounted again.           *)
Refresh ==
    /\ tick > 0 /\ Len(polls) < MaxPolls
    /\ tick' = 0
    /\ mount' = mount + 1 /\ committed' = 0
    /\ session' = session
    /\ polls' = Append(polls, NewPoll)
    /\ UNCHANGED <<waiting, resolved, shown, clicks>>

(* The hold ends by itself: its client left or its timer ran out.          *)
HoldEnds(id) ==
    /\ id \in waiting
    /\ waiting' = waiting \ {id}
    /\ UNCHANGED <<resolved, session, mount, tick, polls, committed, shown, clicks>>

PageStep ==
    \/ \E f \in Fragments : OpenPage(f)
    \/ Poll \/ Refresh
    \/ \E r \in DOMAIN polls : ListApprovals(r) \/ Arrives(r)
    \/ \E id \in Approvals : Decide(id) \/ Resolve(id) \/ Settles(id) \/ HoldEnds(id)

-----------------------------------------------------------------------------
(* Once a list asked for after a decision has been shown, no later answer  *)
(* brings the decided approval back before the operator: answers commit in *)
(* the order their polls started, across remounts too (usePolling).        *)
Fresh(id) == id \in DOMAIN resolved /\ shown.run > resolved[id]
DecidedStaysGone ==
    [][\A id \in Approvals :
        Fresh(id) /\ shown' # Hidden => id \notin shown'.list]_pageVars
=============================================================================
