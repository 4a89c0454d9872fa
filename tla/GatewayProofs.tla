----------------------------- MODULE GatewayProofs -----------------------------
(***************************************************************************)
(* What holds of the policy and of the HTTP front end that acts on it, for  *)
(* every policy and facts, any number of connections and any requests.  The *)
(* walk of decide_with comes to what the rules say, whatever their number:  *)
(* its loop invariant, not its recursion, carries the proof.  An allowance  *)
(* is used for nothing but its target, and the audit log tells what became  *)
(* of every request.  What is rewritten can be taken by the service it goes *)
(* to, no secret leaves but for a reason the code names, and what a service *)
(* echoes comes home.                                                       *)
(***************************************************************************)
EXTENDS Gateway, PolicyWalk, FiniteSetTheorems, SequenceTheorems, TLAPS

-----------------------------------------------------------------------------
(* The walk over the rules.                                                 *)

Hits == Matching(policy, facts)
Blamed == Caused(policy, facts)

First(i, indices) == i \in indices /\ \A j \in indices : i <= j

(* The loop invariant, while nothing is decided.  Every match the walk has  *)
(* passed was personal data's doing, and the first of all matches was a     *)
(* refusal; in block mode, then, it has passed none.                        *)
SoFar ==
    /\ \A i \in Hits : i < index => heldBack /\ i \in Blamed
    /\ heldBack => /\ piiWeight = "AuditsOnly"
                   /\ \E i \in Hits : /\ First(i, Hits) /\ i \in Blamed
                                      /\ policy.rules[i].verdict # "allow"

WalkInv ==
    /\ policy \in Policies /\ piiWeight \in {"Decides", "AuditsOnly"}
    /\ WalkTypeOK
    /\ ~Decided => SoFar
    /\ WalkIsClosedForm /\ ScanningAloneNeverRefuses

-----------------------------------------------------------------------------
(* Earliest is the least of some indices that have one.                     *)
LEMMA EarliestIsFirst ==
    ASSUME NEW indices \in SUBSET Nat, NEW i, First(i, indices)
    PROVE  Earliest(indices) = i
<1>1. Earliest(indices) \in indices /\ \A j \in indices : Earliest(indices) <= j
  BY DEF Earliest, First
<1>2. Earliest(indices) <= i /\ i <= Earliest(indices)
  BY <1>1 DEF First
<1>3. Earliest(indices) \in Nat /\ i \in Nat
  BY <1>1 DEF First
<1> QED
  BY <1>2, <1>3

(* The first of some rules decides for them; no rules leave it to the egress *)
(* lists, under no rule's name.                                             *)
LEMMA FirstDecides ==
    ASSUME NEW indices \in SUBSET Nat, NEW i, First(i, indices)
    PROVE  OutcomeOf(policy, facts, indices) = [verdict |-> policy.rules[i].verdict, rule |-> i]
BY EarliestIsFirst DEF OutcomeOf, First

(* A document none of whose rules applies is decided by its egress mode.     *)
LEMMA NoneDecides ==
    OutcomeOf(policy, facts, {}) = [verdict |-> EgressVerdict(policy, facts), rule |-> 0]
BY DEF OutcomeOf

(* A document's rules are numbered, and each has a verdict.                 *)
LEMMA RulesAreListed ==
    ASSUME policy \in Policies
    PROVE  /\ Len(policy.rules) \in Nat /\ DOMAIN policy.rules = 1 .. Len(policy.rules)
           /\ \A i \in 1 .. Len(policy.rules) : policy.rules[i].verdict \in Verdicts
           /\ Hits \subseteq 1 .. Len(policy.rules) /\ Blamed \subseteq 1 .. Len(policy.rules)
           /\ EgressVerdict(policy, facts) \in Verdicts
<1>1. policy.rules \in Seq(Rules) /\ policy.egress.default \in Verdicts
  BY PolicyAssumption
<1>2. Len(policy.rules) \in Nat /\ DOMAIN policy.rules = 1 .. Len(policy.rules)
  BY <1>1
<1>3. \A i \in 1 .. Len(policy.rules) : policy.rules[i] \in Rules
  BY <1>1
<1>4. \A i \in 1 .. Len(policy.rules) : policy.rules[i].verdict \in Verdicts
  BY <1>3 DEF Rules
<1>5. EgressVerdict(policy, facts) \in Verdicts
  BY <1>1 DEF EgressVerdict, Verdicts
<1> QED
  BY <1>2, <1>4, <1>5 DEF Hits, Blamed, Matching, Caused

-----------------------------------------------------------------------------
(* The two ways the walk decides.                                           *)

(* A rule that decides is the first match, or, once a refusal has been held *)
(* back, the first match personal data did not cause.                       *)
LEMMA RuleDecidesTheClosedForm ==
    ASSUME WalkInv, RuleDecides
    PROVE  /\ outcome' = IF piiWeight = "Decides" THEN DecideExplained(policy, facts)
                                                  ELSE DecidePiiAuditOnly(policy, facts)
           /\ ScanningAloneNeverRefuses'
<1>1. /\ policy \in Policies /\ SoFar /\ index \in Nat /\ index <= Len(policy.rules)
      /\ piiWeight \in {"Decides", "AuditsOnly"} /\ index >= 1
  BY RulesAreListed DEF WalkInv, RuleDecides, Walking, Decided, WalkTypeOK
<1>2. Hits \subseteq Nat /\ Blamed \subseteq Nat /\ index \in DOMAIN policy.rules
  BY <1>1, RulesAreListed
<1>3. index \in Hits
  BY <1>2 DEF RuleDecides, Rule, Hits, Matching
<1>4. ~PassedOver /\ outcome' = [verdict |-> policy.rules[index].verdict, rule |-> index]
  BY DEF RuleDecides, Rule
<1>5. PiiCaused(Rule, facts) <=> index \in Blamed
  BY <1>2 DEF Blamed, Caused, Rule
<1>8. UNCHANGED <<policy, facts, piiWeight>>
  BY DEF RuleDecides
<1>6. CASE ~heldBack
  <2>1. First(index, Hits)
    BY <1>1, <1>2, <1>3, <1>6 DEF SoFar, First
  <2>2. DecideExplained(policy, facts) = outcome'
    BY <2>1, <1>2, <1>4, FirstDecides DEF DecideExplained, Hits
  <2>3. piiWeight = "AuditsOnly" => (index \notin Blamed \/ policy.rules[index].verdict = "allow")
    BY <1>4, <1>5, <1>6 DEF PassedOver, Rule
  <2>4. piiWeight = "AuditsOnly" => DecidePiiAuditOnly(policy, facts) = outcome'
    BY <2>2, <2>3, <1>4 DEF DecidePiiAuditOnly, Blamed
  <2>5. ScanningAloneNeverRefuses'
    BY <2>2, <2>3, <1>4, <1>8 DEF ScanningAloneNeverRefuses, Blamed
  <2> QED
    BY <2>2, <2>4, <2>5, <1>1
<1>7. CASE heldBack
  <2>1. PICK i \in Hits : First(i, Hits) /\ i \in Blamed /\ policy.rules[i].verdict # "allow"
    BY <1>1, <1>7 DEF SoFar
  <2>2. piiWeight = "AuditsOnly" /\ index \notin Blamed
    BY <1>1, <1>4, <1>5, <1>7 DEF SoFar, PassedOver
  <2>3. DecideExplained(policy, facts) = [verdict |-> policy.rules[i].verdict, rule |-> i]
    BY <2>1, <1>2, FirstDecides DEF DecideExplained, Hits
  <2>4. DecidePiiAuditOnly(policy, facts) = OutcomeOf(policy, facts, Hits \ Blamed)
    BY <2>1, <2>3 DEF DecidePiiAuditOnly, Hits, Blamed
  <2>5. First(index, Hits \ Blamed)
    BY <1>1, <1>2, <1>3, <2>2 DEF SoFar, First
  <2>6. OutcomeOf(policy, facts, Hits \ Blamed) = outcome'
    BY <2>5, <1>2, <1>4, FirstDecides
  <2>7. ScanningAloneNeverRefuses'
    BY <2>1, <2>2, <2>3, <1>4, <1>8 DEF ScanningAloneNeverRefuses, Blamed
  <2> QED
    BY <2>2, <2>4, <2>6, <2>7
<1> QED
  BY <1>6, <1>7

(* Past the last rule, either nothing matched or personal data caused all   *)
(* that did, from a refusal on.                                             *)
LEMMA EgressDecidesTheClosedForm ==
    ASSUME WalkInv, EgressDecides
    PROVE  /\ outcome' = IF piiWeight = "Decides" THEN DecideExplained(policy, facts)
                                                  ELSE DecidePiiAuditOnly(policy, facts)
           /\ ScanningAloneNeverRefuses'
<1>1. /\ policy \in Policies /\ SoFar /\ index \in Nat /\ index > Len(policy.rules)
      /\ piiWeight \in {"Decides", "AuditsOnly"}
  BY RulesAreListed DEF WalkInv, EgressDecides, Walking, Decided, WalkTypeOK
<1>2. /\ \A i \in Hits : i \in Nat /\ i < index
      /\ Hits \subseteq Nat /\ 0 \notin Blamed
  BY <1>1, RulesAreListed
<1>3. outcome' = [verdict |-> EgressVerdict(policy, facts), rule |-> 0]
  BY DEF EgressDecides
<1>6. UNCHANGED <<policy, facts, piiWeight>>
  BY DEF EgressDecides
<1>4. CASE ~heldBack
  <2>1. Hits = {}
    BY <1>1, <1>2, <1>4 DEF SoFar
  <2>2. DecideExplained(policy, facts) = outcome'
    BY <2>1, <1>3, NoneDecides DEF DecideExplained, Hits
  <2>3. DecidePiiAuditOnly(policy, facts) = outcome'
    BY <2>2, <1>2, <1>3 DEF DecidePiiAuditOnly, Blamed
  <2>4. ScanningAloneNeverRefuses'
    BY <2>2, <1>2, <1>3, <1>6 DEF ScanningAloneNeverRefuses, Blamed
  <2> QED
    BY <2>2, <2>3, <2>4
<1>5. CASE heldBack
  <2>1. PICK i \in Hits : First(i, Hits) /\ i \in Blamed /\ policy.rules[i].verdict # "allow"
    BY <1>1, <1>5 DEF SoFar
  <2>2. DecideExplained(policy, facts) = [verdict |-> policy.rules[i].verdict, rule |-> i]
    BY <2>1, <1>2, FirstDecides DEF DecideExplained, Hits
  <2>3. DecidePiiAuditOnly(policy, facts) = OutcomeOf(policy, facts, Hits \ Blamed)
    BY <2>1, <2>2 DEF DecidePiiAuditOnly, Hits, Blamed
  <2>4. Hits \ Blamed = {}
    BY <1>1, <1>2 DEF SoFar
  <2>5. piiWeight = "AuditsOnly"
    BY <1>1, <1>5 DEF SoFar
  <2>6. ScanningAloneNeverRefuses'
    BY <2>1, <2>2, <1>2, <1>3, <1>6 DEF ScanningAloneNeverRefuses, Blamed
  <2> QED
    BY <2>3, <2>4, <2>5, <2>6, <1>3, NoneDecides
<1> QED
  BY <1>4, <1>5

-----------------------------------------------------------------------------
(* The invariant is kept: loading and walking on decide nothing.            *)
LEMMA StillUndecided ==
    ASSUME WalkInv, Walking, index <= Len(policy.rules),
           Matches(Rule, facts) => PassedOver,
           heldBack' = (heldBack \/ Matches(Rule, facts)), index' = index + 1,
           UNCHANGED <<policy, loaded, facts, piiWeight, outcome>>
    PROVE  WalkInv'
<1>1. /\ policy \in Policies /\ SoFar /\ index \in Nat /\ index >= 1
      /\ heldBack \in BOOLEAN
  BY RulesAreListed DEF WalkInv, Walking, Decided, WalkTypeOK
<1>2. Hits \subseteq Nat /\ index \in DOMAIN policy.rules
  BY <1>1, RulesAreListed
<1>3. Hits' = Hits /\ Blamed' = Blamed
  BY DEF Hits, Blamed
<1>4. (index \in Hits <=> Matches(Rule, facts)) /\ (index \in Blamed <=> PiiCaused(Rule, facts))
  BY <1>2 DEF Hits, Blamed, Matching, Caused, Rule
<1>5. \A i \in Hits : i < index' => heldBack' /\ i \in Blamed
  <2> SUFFICES ASSUME NEW i \in Hits, i < index' PROVE heldBack' /\ i \in Blamed
    OBVIOUS
  <2>1. CASE i < index
    BY <2>1, <1>1 DEF SoFar
  <2>2. CASE i = index
    <3>1. Matches(Rule, facts)
      BY <2>2, <1>4
    <3> QED
      BY <3>1, <2>2, <1>4 DEF PassedOver
  <2> QED
    BY <1>1, <1>2, <2>1, <2>2
<1>6. heldBack' => /\ piiWeight' = "AuditsOnly"
                   /\ \E i \in Hits : /\ First(i, Hits) /\ i \in Blamed
                                      /\ policy'.rules[i].verdict # "allow"
  <2>1. CASE heldBack
    BY <2>1, <1>1 DEF SoFar
  <2>2. CASE ~heldBack /\ Matches(Rule, facts)
    <3>1. index \in Hits /\ index \in Blamed /\ piiWeight = "AuditsOnly"
          /\ policy.rules[index].verdict # "allow"
      BY <2>2, <1>4 DEF PassedOver, Rule
    <3>2. First(index, Hits)
      BY <3>1, <2>2, <1>1, <1>2 DEF SoFar, First
    <3> QED
      BY <3>1, <3>2
  <2> QED
    BY <2>1, <2>2, <1>1
<1>7. SoFar'
  BY <1>3, <1>5, <1>6 DEF SoFar
<1>8. WalkTypeOK'
  <2>1. index' \in 1 .. Len(policy'.rules) + 1 /\ heldBack' \in BOOLEAN
    BY <1>1, RulesAreListed
  <2> QED
    BY <2>1 DEF WalkInv, WalkTypeOK, Verdicts
<1>9. ~Decided' /\ ~Decided
  BY DEF Walking, Decided
<1> QED
  BY <1>7, <1>8, <1>9 DEF WalkInv, WalkIsClosedForm, ScanningAloneNeverRefuses

(* Loading a document and looking at one more rule keep the invariant.       *)
LEMMA WalkNextKeeps ==
    ASSUME WalkInv, [WalkNext]_walkVars
    PROVE  WalkInv'
<1>1. CASE FromYaml
  <2>1. loaded' \in {"pending", "ok", "EndpointPortZero", "DuplicateEndpointTarget",
                     "BlankRuleCondition", "UncompilableRuleConditions"}
    BY <1>1 DEF FromYaml, LoadError
  <2>2. UNCHANGED <<policy, facts, piiWeight, index, heldBack, outcome>>
    BY <1>1 DEF FromYaml
  <2>3. WalkTypeOK'
    BY <2>1, <2>2 DEF WalkInv, WalkTypeOK
  <2> QED
    BY <2>2, <2>3 DEF WalkInv, WalkIsClosedForm, ScanningAloneNeverRefuses, Decided, SoFar, Hits,
                      Blamed
<1>2. CASE NextRule
  BY <1>2, StillUndecided DEF NextRule, WalkInv, WalkTypeOK
<1>3. CASE HoldBack
  BY <1>3, StillUndecided DEF HoldBack, WalkInv, WalkTypeOK
<1>4. CASE RuleDecides
  <2>1. UNCHANGED <<policy, loaded, facts, piiWeight, index, heldBack>>
    BY <1>4 DEF RuleDecides
  <2>2. WalkIsClosedForm' /\ ScanningAloneNeverRefuses'
    BY <2>1, <1>4, RuleDecidesTheClosedForm DEF WalkIsClosedForm
  <2>3. outcome' = [verdict |-> policy.rules[index].verdict, rule |-> index]
        /\ index \in 1 .. Len(policy.rules)
    BY <1>4, RulesAreListed DEF RuleDecides, Rule, WalkInv, WalkTypeOK
  <2>4. WalkTypeOK' /\ Decided'
    BY <2>1, <2>3, RulesAreListed DEF WalkInv, WalkTypeOK, Decided, Undecided
  <2> QED
    BY <2>1, <2>2, <2>4 DEF WalkInv
<1>5. CASE EgressDecides
  <2>1. UNCHANGED <<policy, loaded, facts, piiWeight, index, heldBack>>
    BY <1>5 DEF EgressDecides
  <2>2. WalkIsClosedForm' /\ ScanningAloneNeverRefuses'
    BY <2>1, <1>5, EgressDecidesTheClosedForm DEF WalkIsClosedForm
  <2>3. outcome' = [verdict |-> EgressVerdict(policy, facts), rule |-> 0]
        /\ EgressVerdict(policy, facts) \in Verdicts
    BY <1>5, RulesAreListed DEF EgressDecides, WalkInv
  <2>4. WalkTypeOK'
    BY <2>1, <2>3, RulesAreListed DEF WalkInv, WalkTypeOK
  <2>5. Decided'
    BY <2>3 DEF Decided, Undecided, Verdicts
  <2> QED
    BY <2>1, <2>2, <2>4, <2>5 DEF WalkInv
<1>6. CASE UNCHANGED walkVars
  BY <1>6 DEF walkVars, WalkInv, WalkTypeOK, WalkIsClosedForm, ScanningAloneNeverRefuses, Decided,
              SoFar, Hits, Blamed
<1> QED
  BY <1>1, <1>2, <1>3, <1>4, <1>5, <1>6 DEF WalkNext

(* A walk begins with every rule ahead of it.                                *)
LEMMA WalkInitHolds == WalkInit => WalkInv
<1> SUFFICES ASSUME WalkInit PROVE WalkInv
  OBVIOUS
<1>1. policy \in Policies /\ index = 1 /\ outcome = Undecided /\ heldBack = FALSE
      /\ loaded = "pending" /\ piiWeight \in {"Decides", "AuditsOnly"}
  BY DEF WalkInit
<1>2. Hits \subseteq 1 .. Len(policy.rules) /\ Len(policy.rules) \in Nat
  BY <1>1, RulesAreListed
<1>3. SoFar
  BY <1>1, <1>2 DEF SoFar
<1>4. index \in 1 .. Len(policy.rules) + 1 /\ 0 \in 0 .. Len(policy.rules)
  BY <1>1, <1>2
<1>5. outcome.verdict = "none" /\ outcome.rule = 0
  BY <1>1 DEF Undecided
<1>6. WalkTypeOK
  BY <1>1, <1>4, <1>5 DEF WalkTypeOK
<1> QED
  BY <1>1, <1>3, <1>6 DEF WalkInv, WalkIsClosedForm, ScanningAloneNeverRefuses, Decided

(* The loop invariant of the walk, for every document and request.           *)
THEOREM WalkInductive == WalkSpec => []WalkInv
<1>1. WalkInit => WalkInv
  BY WalkInitHolds
<1>2. WalkInv /\ [WalkNext]_walkVars => WalkInv'
  BY WalkNextKeeps
<1> QED
  BY <1>1, <1>2, PTL DEF WalkSpec

-----------------------------------------------------------------------------
(* The walk, with its flag, comes to the closed form the gateway's model    *)
(* decides with, whatever the policy's rules and whatever the facts         *)
(* (engine.rs, decide_with).                                                *)
THEOREM WalkComesToClosedForm == WalkSpec => [](WalkTypeOK /\ WalkIsClosedForm)
<1>1. WalkInv => WalkTypeOK /\ WalkIsClosedForm
  BY DEF WalkInv
<1> QED
  BY <1>1, WalkInductive, PTL

(* In detect mode scanning alone never refuses, for any policy and facts: a *)
(* rule that owes its match to personal data decides only as an exemption   *)
(* block mode reaches too, and the modes differ only where block mode's own *)
(* answer is a refusal of that kind (the doc of decide_pii_audit_only).     *)
THEOREM ScanningNeverRefuses == WalkSpec => []ScanningAloneNeverRefuses
<1>1. WalkInv => ScanningAloneNeverRefuses
  BY DEF WalkInv
<1> QED
  BY <1>1, WalkInductive, PTL

-----------------------------------------------------------------------------
(* A step is one connection's, or the hook endpoint's.                      *)

PerConn(f) == f = [c \in Conns |-> f[c]]
Kept == /\ PerConn(at) /\ PerConn(tunnel) /\ PerConn(request) /\ PerConn(events)
        /\ PerConn(status) /\ PerConn(granted)
        /\ PerConn(out) /\ PerConn(received) /\ PerConn(evictedAtSend)

Step(c) ==
    \/ \E r \in config.requests[c] : Connect(c, r) \/ Submit(c, r)
    \/ Inspect(c) \/ BodyFails(c) \/ Approved(c) \/ Rejected(c)
    \/ \E res \in Responses : Respond(c, res)

ChangesAt(c, f, g) == g = f \/ \E v : g = [f EXCEPT ![c] = v]
ChangesOnly(c) ==
    /\ ChangesAt(c, at, at') /\ ChangesAt(c, tunnel, tunnel') /\ ChangesAt(c, request, request')
    /\ ChangesAt(c, events, events') /\ ChangesAt(c, status, status')
    /\ ChangesAt(c, granted, granted') /\ ChangesAt(c, out, out')
    /\ ChangesAt(c, received, received') /\ ChangesAt(c, evictedAtSend, evictedAtSend')

(* No step of a connection touches what another one keeps.                  *)
LEMMA StepChangesOnly ==
    ASSUME NEW c \in Conns, Step(c)
    PROVE  config' = config /\ ChangesOnly(c)
<1> USE DEF ChangesOnly, ChangesAt, Goto, Refuse, Audit, Grant, OpenTunnel, Unanswered, Hold
<1>1. CASE \E r \in config.requests[c] : Connect(c, r)
  BY <1>1 DEF Connect, Arrives
<1>2. CASE \E r \in config.requests[c] : Submit(c, r)
  BY <1>2 DEF Submit, Arrives
<1>3. CASE Inspect(c)
  BY <1>3 DEF Inspect, SendOn, Forward, ForwardEvents
<1>4. CASE BodyFails(c)
  BY <1>4 DEF BodyFails, rest
<1>5. CASE Approved(c)
  BY <1>5 DEF Approved, SendOn, Forward, ForwardEvents
<1>6. CASE Rejected(c)
  BY <1>6 DEF Rejected, rest
<1>7. CASE \E res \in Responses : Respond(c, res)
  BY <1>7 DEF Respond, rest
<1> QED
  BY <1>1, <1>2, <1>3, <1>4, <1>5, <1>6, <1>7 DEF Step

perConn == <<config, at, tunnel, request, events, status, granted, out, received, evictedAtSend>>

(* The hook endpoint touches nothing that a connection keeps.                *)
LEMMA WhoSteps ==
    ASSUME [Next]_vars
    PROVE  \/ \E c \in Conns : Step(c)
           \/ UNCHANGED perConn
BY DEF Next, Step, HookRecords, vars, perConn

(* What is kept for each connection stays a function of them.                *)
LEMMA KeptStays ==
    ASSUME Kept, [Next]_vars
    PROVE  Kept'
<1> USE DEF Kept, PerConn
<1>1. CASE UNCHANGED perConn
  BY <1>1 DEF perConn
<1>2. ASSUME NEW c \in Conns, Step(c)
      PROVE  Kept'
  <2>1. ChangesOnly(c)
    BY <1>2, StepChangesOnly
  <2> QED
    BY <2>1 DEF ChangesOnly, ChangesAt
<1> QED
  BY <1>1, <1>2, WhoSteps

Untouched(d) ==
    /\ at'[d] = at[d] /\ tunnel'[d] = tunnel[d] /\ request'[d] = request[d]
    /\ events'[d] = events[d] /\ status'[d] = status[d] /\ granted'[d] = granted[d]
    /\ out'[d] = out[d] /\ received'[d] = received[d] /\ evictedAtSend'[d] = evictedAtSend[d]

(* A step of one connection leaves what the others keep.                    *)
LEMMA Elsewhere ==
    ASSUME Kept, NEW c \in Conns, Step(c), NEW d \in Conns, d # c
    PROVE  Untouched(d)
<1>1. ChangesOnly(c)
  BY StepChangesOnly
<1> QED
  BY <1>1 DEF ChangesOnly, ChangesAt, Untouched, Kept, PerConn

-----------------------------------------------------------------------------
(* What a connection may reach.                                             *)

(* A tunnel is kept only for a target that was granted, one that nobody     *)
(* reads is not to a database, and a CONNECT to one is never put on hold.   *)
MayReach(c) ==
    /\ tunnel[c] = NoTarget \/ tunnel[c] \in granted[c]
    /\ at[c] \in {"reading", "heldBody", "upstream"} => Target(request[c]) \in granted[c]
    /\ at[c] = "opaque" => tunnel[c] # NoTarget /\ ~ Uninspectable(tunnel[c])
    /\ at[c] = "heldConnect" => ~ Uninspectable(Target(request[c]))

GrantInv == Kept /\ \A c \in Conns : MayReach(c)

(* A target has a port: no request names the target that is none.            *)
LEMMA TargetsHavePorts ==
    ASSUME NEW r
    PROVE  Target(r) # NoTarget
BY DEF Target, PortOf, NoTarget

(* The policy of a gateway that runs does not change.                        *)
LEMMA DatabasesStay ==
    ASSUME config' = config, NEW t
    PROVE  Uninspectable(t)' <=> Uninspectable(t)
BY DEF Uninspectable, Endpoint

(* A connection that does not step may reach what it could.                  *)
LEMMA UntouchedMayReach ==
    ASSUME config' = config, NEW c \in Conns, MayReach(c), Untouched(c)
    PROVE  MayReach(c)'
<1>1. UNCHANGED <<at[c], tunnel[c], request[c], granted[c]>>
  BY DEF Untouched
<1>2. UNCHANGED <<Uninspectable(tunnel[c]), Uninspectable(Target(request[c]))>>
  BY <1>1 DEF Uninspectable, Endpoint, Target, PortOf
<1>3. UNCHANGED Target(request[c])
  BY <1>1 DEF Target, PortOf
<1> QED
  BY <1>1, <1>2, <1>3 DEF MayReach

(* A connection's own step leaves it where it may be: what it goes on to    *)
(* reach was granted before, or is granted by the step.                     *)
LEMMA StepIsGranted ==
    ASSUME Kept, NEW c \in Conns, MayReach(c), Step(c)
    PROVE  MayReach(c)'
<1> USE DEF MayReach, Kept, PerConn, Goto, Refuse, Audit, Grant, OpenTunnel, Unanswered, Hold
<1>0. config' = config
  BY StepChangesOnly
<1>d. \A t : Uninspectable(t)' <=> Uninspectable(t)
  BY <1>0, DatabasesStay
<1>p. \A r : Target(r) # NoTarget
  BY TargetsHavePorts
<1>1. ASSUME NEW r \in config.requests[c], Connect(c, r)
      PROVE  MayReach(c)'
  BY <1>0, <1>d, <1>p, <1>1 DEF Connect, Arrives
<1>2. ASSUME NEW r \in config.requests[c], Submit(c, r)
      PROVE  MayReach(c)'
  BY <1>0, <1>d, <1>p, <1>2 DEF Submit, Arrives, TunnelAuthorizes
<1>3. CASE Inspect(c)
  BY <1>0, <1>d, <1>p, <1>3 DEF Inspect, SendOn, Forward, ForwardEvents
<1>4. CASE BodyFails(c)
  BY <1>0, <1>d, <1>p, <1>4 DEF BodyFails, rest
<1>5. CASE Approved(c)
  <2>1. CASE at[c] = "heldConnect" /\ OpenTunnel(c, Target(request[c]))
    BY <1>0, <1>d, <1>p, <1>5, <2>1 DEF Approved
  <2>2. CASE at[c] = "heldHost"
    BY <1>0, <1>d, <1>5, <2>2 DEF Approved
  <2>3. CASE at[c] = "heldBody"
    BY <1>0, <1>d, <1>5, <2>3 DEF Approved, SendOn, Forward, ForwardEvents
  <2> QED
    BY <1>5, <2>1, <2>2, <2>3 DEF Approved
<1>6. CASE Rejected(c)
  BY <1>0, <1>d, <1>p, <1>6 DEF Rejected, rest
<1>7. ASSUME NEW res \in Responses, Respond(c, res)
      PROVE  MayReach(c)'
  BY <1>0, <1>d, <1>p, <1>7 DEF Respond, rest
<1> QED
  BY <1>1, <1>2, <1>3, <1>4, <1>5, <1>6, <1>7 DEF Step

(* A connection that has sent nothing reaches nothing.                       *)
LEMMA InitGrants ==
    ASSUME Init
    PROVE  GrantInv
BY DEF Init, GrantInv, Kept, PerConn, MayReach

(* Every step, of this connection or another, keeps what each may reach.     *)
LEMMA GrantsKept ==
    ASSUME GrantInv, [Next]_vars
    PROVE  GrantInv'
<1> USE DEF GrantInv
<1>1. Kept'
  BY KeptStays
<1>2. CASE UNCHANGED perConn
  BY <1>1, <1>2, UntouchedMayReach DEF Untouched, perConn
<1>3. ASSUME NEW c \in Conns, Step(c), NEW d \in Conns
      PROVE  MayReach(d)'
  <2>1. CASE d = c
    BY <1>3, <2>1, StepIsGranted
  <2>2. CASE d # c
    BY <1>3, <2>2, StepChangesOnly, Elsewhere, UntouchedMayReach
  <2> QED
    BY <2>1, <2>2
<1> QED
  BY <1>1, <1>2, <1>3, WhoSteps

(* Every connection, of however many, keeps what it may reach, whatever the  *)
(* policy, the requests and the order in which handlers and humans act.     *)
THEOREM GrantsInductive == Spec => []GrantInv
<1>1. Init => GrantInv
  BY InitGrants
<1>2. GrantInv /\ [Next]_vars => GrantInv'
  BY GrantsKept
<1> QED
  BY <1>1, <1>2, PTL DEF Spec

(* What reaches a service goes to a target that the policy or a human let    *)
(* this connection reach, and no database is reached through a tunnel that  *)
(* nobody reads: mitm.rs, handle_request and AuthorizedTunnel::authorizes.  *)
THEOREM NoBorrowedAllowance == Spec => []UpstreamIsAuthorized
<1>1. GrantInv => UpstreamIsAuthorized
  BY DEF GrantInv, MayReach, UpstreamIsAuthorized
<1> QED
  BY <1>1, GrantsInductive, PTL

-----------------------------------------------------------------------------
(* What the audit log tells.                                                *)

(* A trail of events, and how many of them say d.                           *)
IsTrail(s) == s \in Seq({s[i] : i \in DOMAIN s})
Count(s, d) == Cardinality({i \in DOMAIN s : s[i].decision \in {d}})
Decisions(s) == {s[i].decision : i \in DOMAIN s}
LastSays(s, d) == Len(s) > 0 /\ s[Len(s)].decision = d

(* What a trail may look like: every hold decided, one hold open, or the    *)
(* request refused, last of all.                                            *)
Settled(s) == IsTrail(s) /\ Count(s, "Paused") = Count(s, "Approved") /\ ~ LastSays(s, "Paused")
Waiting(s) == IsTrail(s) /\ Count(s, "Paused") = Count(s, "Approved") + 1 /\ LastSays(s, "Paused")
Refused(s) == IsTrail(s) /\ (LastSays(s, "Denied") \/ LastSays(s, "Rejected"))
GaveUp(s) == Refused(s) /\ Len(s) > 1 /\ s[Len(s) - 1].decision = "Paused"

Story(c) ==
    /\ at[c] \in Points
    /\ at[c] \in {"idle", "reading", "upstream", "opaque"} => Settled(events[c])
    /\ at[c] \in Holding => Waiting(events[c])
    /\ at[c] = "closed" =>
          \/ status[c] = "400" /\ Settled(events[c])
          \/ Refused(events[c]) /\ (status[c] = "403" => LastSays(events[c], "Denied"))
          \/ GaveUp(events[c])
    /\ at[c] = "upstream" /\ PiiFacts(request[c]).count > 0 =>
          Decisions(events[c]) \cap {"Allowed", "Approved"} # {}

StoryInv == Kept /\ \A c \in Conns : Story(c)

(* A trail is finite, and so is what it counts.                              *)
LEMMA CountIsNatural ==
    ASSUME NEW s, IsTrail(s), NEW d
    PROVE  Count(s, d) \in Nat
<1>1. IsFiniteSet(1 .. Len(s)) /\ DOMAIN s = 1 .. Len(s)
  BY FS_Interval DEF IsTrail
<1>2. IsFiniteSet({i \in DOMAIN s : s[i].decision \in {d}})
  BY <1>1, FS_Subset
<1> QED
  BY <1>2, FS_CardinalityType DEF Count

(* A trail that grows keeps what it had, and counts its new event.          *)
LEMMA TrailGrows ==
    ASSUME NEW s, IsTrail(s), NEW e
    PROVE  LET t == s \o <<e>>
           IN  /\ IsTrail(t) /\ Len(t) = Len(s) + 1 /\ t[Len(t)] = e
               /\ \A i \in DOMAIN s : i \in DOMAIN t /\ t[i] = s[i]
               /\ Len(t) \in DOMAIN t
               /\ DOMAIN t = DOMAIN s \cup {Len(t)} /\ Len(t) \notin DOMAIN s
               /\ Len(s) > 0 => Len(t) - 1 = Len(s) /\ t[Len(t) - 1] = s[Len(s)]
<1> DEFINE S == {s[i] : i \in DOMAIN s}
           t == s \o <<e>>
<1>1. s \in Seq(S) /\ s \in Seq(S \cup {e}) /\ <<e>> \in Seq(S \cup {e})
  BY DEF IsTrail
<1>2. /\ t \in Seq(S \cup {e}) /\ Len(t) = Len(s) + 1
      /\ \A i \in 1 .. Len(s) : t[i] = s[i]
      /\ t[Len(s) + 1] = e
  BY <1>1
<1>3. /\ DOMAIN s = 1 .. Len(s) /\ Len(s) \in Nat
      /\ DOMAIN t = 1 .. Len(s) + 1
  BY <1>1, <1>2
<1>4. IsTrail(t)
  <2> HIDE DEF t
  <2>1. {t[j] : j \in DOMAIN t} = S \cup {e}
    BY <1>2, <1>3
  <2> QED
    BY <1>2, <2>1 DEF IsTrail
<1> QED
  BY <1>2, <1>3, <1>4

(* One more event counts once, for what it says.                             *)
LEMMA CountGrows ==
    ASSUME NEW s, IsTrail(s), NEW e, NEW d
    PROVE  Count(s \o <<e>>, d) = Count(s, d) + (IF e.decision = d THEN 1 ELSE 0)
<1> DEFINE t == s \o <<e>>
           before == {i \in DOMAIN s : s[i].decision \in {d}}
           after == {i \in DOMAIN t : t[i].decision \in {d}}
<1>1. /\ \A i \in DOMAIN s : t[i] = s[i]
      /\ DOMAIN t = DOMAIN s \cup {Len(t)} /\ Len(t) \notin DOMAIN s
      /\ t[Len(t)] = e
  BY TrailGrows
<1> HIDE DEF t
<1>2. IsFiniteSet(before) /\ Cardinality(before) \in Nat
  <2>1. IsFiniteSet(1 .. Len(s)) /\ DOMAIN s = 1 .. Len(s)
    BY FS_Interval DEF IsTrail
  <2> QED
    BY <2>1, FS_Subset, FS_CardinalityType
<1>3. CASE e.decision = d
  <2>1. after = before \cup {Len(t)} /\ Len(t) \notin before
    BY <1>1, <1>3
  <2> QED
    BY <1>2, <1>3, <2>1, FS_AddElement DEF Count, t
<1>4. CASE e.decision # d
  <2>1. after = before
    BY <1>1, <1>4
  <2>2. Count(t, d) = Count(s, d) /\ Count(s, d) \in Nat
    BY <1>2, <2>1 DEF Count
  <2> QED
    BY <1>4, <2>2 DEF t
<1> QED
  BY <1>3, <1>4

(* A request that has just arrived has no event and no open hold.            *)
LEMMA EmptyIsSettled == Settled(<<>>)
<1>1. IsTrail(<<>>) /\ Len(<<>>) = 0
  BY DEF IsTrail
<1>2. \A d : Count(<<>>, d) = 0
  BY FS_EmptySet DEF Count
<1> QED
  BY <1>1, <1>2 DEF Settled, LastSays

(* What one more event makes of a trail.                                    *)
LEMMA SettledGrows ==
    ASSUME NEW s, Settled(s), NEW e
    PROVE  LET t == s \o <<e>>
           IN  /\ e.decision = "Paused" => Waiting(t)
               /\ e.decision = "Allowed" => Settled(t)
               /\ e.decision \in {"Denied", "Rejected"} => Refused(t)
               /\ LastSays(t, e.decision)
               /\ e.decision \in Decisions(t)
<1> DEFINE t == s \o <<e>>
<1>1. IsTrail(s)
  BY DEF Settled
<1>2. /\ IsTrail(t) /\ Len(t) = Len(s) + 1 /\ t[Len(t)] = e /\ Len(t) \in DOMAIN t
      /\ Len(t) > 0
  <2>1. Len(s) \in Nat
    BY <1>1 DEF IsTrail
  <2> QED
    BY <1>1, <2>1, TrailGrows
<1>3. \A d : Count(t, d) = Count(s, d) + (IF e.decision = d THEN 1 ELSE 0)
  BY <1>1, CountGrows
<1>4. Count(s, "Paused") \in Nat /\ Count(s, "Approved") \in Nat
  BY <1>1, CountIsNatural
<1> HIDE DEF t
<1>5. LastSays(t, e.decision) /\ e.decision \in Decisions(t)
  BY <1>2 DEF LastSays, Decisions
<1>6. e.decision = "Paused" => Waiting(t)
  BY <1>2, <1>3, <1>4, <1>5 DEF Waiting, Settled
<1>7. e.decision = "Allowed" => Settled(t)
  BY <1>2, <1>3, <1>4, <1>5 DEF Settled, LastSays
<1>8. e.decision \in {"Denied", "Rejected"} => Refused(t)
  BY <1>2, <1>5 DEF Refused
<1> QED
  BY <1>5, <1>6, <1>7, <1>8 DEF t

(* The end of a hold: its approval settles the trail, its rejection ends it. *)
LEMMA WaitingGrows ==
    ASSUME NEW s, Waiting(s), NEW e
    PROVE  LET t == s \o <<e>>
           IN  /\ e.decision = "Approved" => Settled(t)
               /\ e.decision = "Rejected" => GaveUp(t)
               /\ e.decision \in Decisions(t)
<1> DEFINE t == s \o <<e>>
<1>1. IsTrail(s) /\ Len(s) > 0 /\ Len(s) \in Nat
  BY DEF Waiting, LastSays, IsTrail
<1>2. /\ IsTrail(t) /\ Len(t) = Len(s) + 1 /\ t[Len(t)] = e /\ Len(t) \in DOMAIN t
      /\ t[Len(t) - 1] = s[Len(s)] /\ Len(t) > 1
  BY <1>1, TrailGrows
<1>3. \A d : Count(t, d) = Count(s, d) + (IF e.decision = d THEN 1 ELSE 0)
  BY <1>1, CountGrows
<1>4. Count(s, "Paused") \in Nat /\ Count(s, "Approved") \in Nat
  BY <1>1, CountIsNatural
<1> HIDE DEF t
<1>5. e.decision \in Decisions(t)
  BY <1>2 DEF Decisions
<1>6. e.decision = "Approved" => Settled(t)
  BY <1>2, <1>3, <1>4 DEF Waiting, Settled, LastSays
<1>7. e.decision = "Rejected" => GaveUp(t)
  BY <1>2 DEF Waiting, Refused, GaveUp, LastSays
<1> QED
  BY <1>5, <1>6, <1>7 DEF t

(* A trail that does not grow.                                              *)
LEMMA NothingAdded ==
    ASSUME NEW s, IsTrail(s)
    PROVE  s \o <<>> = s /\ <<>> \o s = s
BY DEF IsTrail

(* The same of the events the handler writes, whatever rule they name.       *)
LEMMA SettledEvents ==
    ASSUME NEW s, Settled(s)
    PROVE  /\ s \o <<>> = s
           /\ \A x : /\ Waiting(s \o Event("Paused", x))
                     /\ Settled(s \o Event("Allowed", x))
                     /\ "Allowed" \in Decisions(s \o Event("Allowed", x))
                     /\ Refused(s \o Event("Denied", x))
                     /\ LastSays(s \o Event("Denied", x), "Denied")
                     /\ Refused(s \o Event("Rejected", x))
<1>1. s \o <<>> = s
  BY NothingAdded DEF Settled
<1>2. ASSUME NEW x, NEW d
      PROVE  /\ d = "Paused" => Waiting(s \o Event(d, x))
             /\ d = "Allowed" => Settled(s \o Event(d, x))
             /\ d \in {"Denied", "Rejected"} => Refused(s \o Event(d, x))
             /\ LastSays(s \o Event(d, x), d) /\ d \in Decisions(s \o Event(d, x))
  <2> DEFINE e == [decision |-> d, rule |-> x]
  <2>1. e.decision = d /\ Event(d, x) = <<e>>
    BY DEF Event
  <2> HIDE DEF e
  <2> QED
    BY <2>1, SettledGrows
<1> QED
  BY <1>1, <1>2

(* The two ends of a hold, as the handler writes them.                       *)
LEMMA WaitingEvents ==
    ASSUME NEW s, Waiting(s)
    PROVE  \A x : /\ Settled(s \o Event("Approved", x))
                  /\ "Approved" \in Decisions(s \o Event("Approved", x))
                  /\ GaveUp(s \o Event("Rejected", x))
<1>1. ASSUME NEW x, NEW d
      PROVE  /\ d = "Approved" => Settled(s \o Event(d, x))
             /\ d = "Rejected" => GaveUp(s \o Event(d, x))
             /\ d \in Decisions(s \o Event(d, x))
  <2> DEFINE e == [decision |-> d, rule |-> x]
  <2>1. e.decision = d /\ Event(d, x) = <<e>>
    BY DEF Event
  <2> HIDE DEF e
  <2> QED
    BY <2>1, WaitingGrows
<1> QED
  BY <1>1

(* A connection that does not step keeps its trail.                          *)
LEMMA UntouchedStory ==
    ASSUME NEW c \in Conns, Story(c), Untouched(c)
    PROVE  Story(c)'
<1>1. UNCHANGED <<at[c], request[c], events[c], status[c]>>
  BY DEF Untouched
<1> QED
  BY <1>1 DEF Story

(* What a gate does to a connection whose trail begins or goes on with s.   *)
Gated(c, s) ==
    \E x : \/ /\ events'[c] = s \o Event("Denied", x)
              /\ at'[c] = "closed" /\ status'[c] # "400"
           \/ /\ events'[c] = s \o Event("Rejected", x)
              /\ at'[c] = "closed" /\ status'[c] = "503"
           \/ events'[c] = s \o Event("Allowed", x) /\ at'[c] \in {"idle", "opaque"}
           \/ events'[c] = s \o Event("Paused", x) /\ at'[c] \in Holding
           \/ events'[c] = s \o <<>> /\ at'[c] = "reading"

(* A gate lets the request on, holds it, or ends it with its refusal.        *)
LEMMA GatedIsTold ==
    ASSUME NEW c \in Conns, NEW s, Settled(s), Gated(c, s)
    PROVE  Story(c)'
<1>1. s \o <<>> = s
  BY SettledEvents
<1>2. PICK x : Gated(c, s)!(x)
  BY DEF Gated
<1>3. /\ Waiting(s \o Event("Paused", x)) /\ Settled(s \o Event("Allowed", x))
      /\ Refused(s \o Event("Denied", x)) /\ LastSays(s \o Event("Denied", x), "Denied")
      /\ Refused(s \o Event("Rejected", x))
  BY SettledEvents
<1> QED
  BY <1>1, <1>2, <1>3 DEF Story, Points, Holding

(* What sending on does, the trail being s: on its way, or blocked.         *)
Sent(c, s) ==
    \/ events'[c] = s \o <<>> /\ at'[c] = "upstream"
    \/ \E x : events'[c] = s \o Event("Denied", x) /\ at'[c] = "closed" /\ status'[c] = "signed"

(* A request that was let on leaves, or is blocked for its signature.        *)
LEMMA SendOnSends ==
    ASSUME Kept, NEW c \in Conns, NEW result, NEW before, SendOn(c, result, before)
    PROVE  Sent(c, events[c] \o before)
<1> USE DEF SendOn, Forward, ForwardEvents, Goto, Refuse, Audit, Kept, PerConn
<1>1. CASE result.is = "sent"
  BY <1>1 DEF Sent
<1>2. CASE result.is = "blocked"
  BY <1>2 DEF Sent
<1> QED
  BY <1>1, <1>2

(* Either way its trail says so, and says what let personal data leave.      *)
LEMMA SentIsTold ==
    ASSUME NEW c \in Conns, NEW s, Settled(s), Sent(c, s),
           (PiiFacts(request[c]).count > 0)' => Decisions(s) \cap {"Allowed", "Approved"} # {}
    PROVE  Story(c)'
<1>1. s \o <<>> = s
  BY SettledEvents
<1>2. \A x : Refused(s \o Event("Denied", x)) /\ LastSays(s \o Event("Denied", x), "Denied")
  BY SettledEvents
<1> QED
  BY <1>1, <1>2 DEF Sent, Story, Points, Holding

(* A connection's own step tells what it does.                              *)
LEMMA StepIsTold ==
    ASSUME Kept, NEW c \in Conns, Story(c), Step(c)
    PROVE  Story(c)'
<1> USE DEF Kept, PerConn, Goto, Refuse, Audit, Unanswered, Hold, Points, Holding
<1>1. ASSUME NEW r \in config.requests[c], Connect(c, r)
      PROVE  Story(c)'
  <2>1. Gated(c, <<>>)
    BY <1>1 DEF Connect, Arrives, OpenTunnel, Gated
  <2> QED
    BY <2>1, EmptyIsSettled, GatedIsTold
<1>2. ASSUME NEW r \in config.requests[c], Submit(c, r)
      PROVE  Story(c)'
  <2>1. Gated(c, <<>>)
    BY <1>2 DEF Submit, Arrives, Gated
  <2> QED
    BY <2>1, EmptyIsSettled, GatedIsTold
<1>3. CASE Inspect(c)
  <2> DEFINE decision == Decision(c)
             verdict == decision.outcome.verdict
             rule == RuleName(decision.outcome)
             pii == PiiFacts(request[c]).count > 0
             before == IF pii THEN Event("Allowed", rule) ELSE <<>>
             s == events[c] \o before
  <2>1. Settled(events[c]) /\ request' = request
    BY <1>3 DEF Inspect, Story
  <2>2. Settled(s) /\ (pii => "Allowed" \in Decisions(s))
    BY <2>1, SettledEvents
  <2>3. CASE SendOn(c, Forwarded(request[c]), before)
    <3>1. Sent(c, s)
      BY <2>3, SendOnSends
    <3>2. PiiFacts(request[c])' = PiiFacts(request[c])
      BY <2>1
    <3> QED
      BY <2>2, <3>1, <3>2, SentIsTold
  <2>4. CASE ~ SendOn(c, Forwarded(request[c]), before)
    <3> SUFFICES Gated(c, events[c])
      BY <2>1, GatedIsTold
    <3>1. decision.enforced /\ verdict \in {"deny", "pause"}
      BY <1>3, <2>4 DEF Inspect
    <3>2. CASE decision.enforced /\ verdict = "deny"
      BY <1>3, <2>4, <3>2 DEF Inspect, Gated
    <3>3. CASE decision.enforced /\ verdict = "pause"
      BY <1>3, <2>4, <3>3 DEF Inspect, Gated
    <3> QED
      BY <3>1, <3>2, <3>3
  <2> QED
    BY <2>3, <2>4
<1>4. CASE BodyFails(c)
  BY <1>4 DEF BodyFails, rest, Story
<1>5. CASE Approved(c)
  <2>1. Waiting(events[c]) /\ request' = request
    BY <1>5 DEF Approved, Story
  <2> DEFINE s == events[c] \o Event("Approved", LastRule(c))
  <2>2. Settled(s) /\ "Approved" \in Decisions(s)
    BY <2>1, WaitingEvents
  <2>3. CASE SendOn(c, Forwarded(request[c]), Event("Approved", LastRule(c)))
    <3>1. Sent(c, s)
      BY <2>3, SendOnSends
    <3> QED
      BY <2>2, <3>1, SentIsTold
  <2>4. CASE ~ SendOn(c, Forwarded(request[c]), Event("Approved", LastRule(c)))
    <3>1. events'[c] = s /\ at'[c] \in {"idle", "opaque", "reading"}
      BY <1>5, <2>4 DEF Approved, OpenTunnel
    <3> QED
      BY <2>2, <3>1 DEF Story
  <2> QED
    BY <2>3, <2>4
<1>6. CASE Rejected(c)
  <2>1. Waiting(events[c])
    BY <1>6 DEF Rejected, Story
  <2>2. GaveUp(events[c] \o Event("Rejected", LastRule(c)))
    BY <2>1, WaitingEvents
  <2> QED
    BY <1>6, <2>2 DEF Rejected, rest, Story
<1>7. ASSUME NEW res \in Responses, Respond(c, res)
      PROVE  Story(c)'
  BY <1>7 DEF Respond, rest, Story
<1> QED
  BY <1>1, <1>2, <1>3, <1>4, <1>5, <1>6, <1>7 DEF Step

(* A connection that has sent nothing has an empty trail.                    *)
LEMMA InitTells ==
    ASSUME Init
    PROVE  StoryInv
BY EmptyIsSettled DEF Init, StoryInv, Story, Kept, PerConn, Points, Holding

(* Every step, of this connection or another, keeps each trail as it stands. *)
LEMMA StoriesKept ==
    ASSUME StoryInv, [Next]_vars
    PROVE  StoryInv'
<1> USE DEF StoryInv
<1>1. Kept'
  BY KeptStays
<1>2. CASE UNCHANGED perConn
  BY <1>1, <1>2, UntouchedStory DEF Untouched, perConn
<1>3. ASSUME NEW c \in Conns, Step(c), NEW d \in Conns
      PROVE  Story(d)'
  <2>1. CASE d = c
    BY <1>3, <2>1, StepIsTold
  <2>2. CASE d # c
    BY <1>3, <2>2, Elsewhere, UntouchedStory
  <2> QED
    BY <2>1, <2>2
<1> QED
  BY <1>1, <1>2, <1>3, WhoSteps

(* Every connection's trail is settled, waits, or is refused, as its handler *)
(* stands, whatever the requests, the bodies and the policy.                *)
THEOREM StoriesInductive == Spec => []StoryInv
<1>1. Init => StoryInv
  BY InitTells
<1>2. StoryInv /\ [Next]_vars => StoryInv'
  BY StoriesKept
<1> QED
  BY <1>1, <1>2, PTL DEF Spec

(* What the property asks of a trail follows from where its handler is.      *)
LEMMA StoryIsTold ==
    ASSUME NEW c \in Conns, Story(c)
    PROVE  LET s == events[c]
               last == s[Len(s)].decision
           IN  /\ at[c] = "closed" /\ status[c] # "400" =>
                    Decisions(s) # {} /\ last \in {"Denied", "Rejected"}
               /\ at[c] = "closed" /\ status[c] = "403" /\ last = "Rejected" =>
                    Len(s) > 1 /\ s[Len(s) - 1].decision = "Paused"
               /\ at[c] \in Holding <=> Count(s, "Paused") > Count(s, "Approved")
                                        /\ Decisions(s) # {} /\ last = "Paused"
               /\ at[c] = "upstream" /\ PiiFacts(request[c]).count > 0 =>
                    Decisions(s) \cap {"Allowed", "Approved"} # {}
<1> DEFINE s == events[c]
<1>1. IsTrail(s)
  BY DEF Story, Points, Holding, Settled, Waiting, Refused, GaveUp
<1>2. /\ Count(s, "Paused") \in Nat /\ Count(s, "Approved") \in Nat
      /\ Len(s) \in Nat
      /\ Decisions(s) # {} <=> Len(s) > 0
  <2> HIDE DEF s
  <2>1. Count(s, "Paused") \in Nat /\ Count(s, "Approved") \in Nat
    BY <1>1, CountIsNatural
  <2>2. Len(s) \in Nat /\ DOMAIN s = 1 .. Len(s)
    BY <1>1 DEF IsTrail
  <2>3. Decisions(s) # {} <=> Len(s) > 0
    <3>1. ASSUME Len(s) > 0
          PROVE  s[Len(s)].decision \in Decisions(s)
      BY <2>2, <3>1 DEF Decisions
    <3>2. ASSUME NEW d \in Decisions(s)
          PROVE  Len(s) > 0
      BY <2>2, <3>2 DEF Decisions
    <3> QED
      BY <3>1, <3>2
  <2> QED
    BY <2>1, <2>2, <2>3
<1> HIDE DEF s
<1>3. at[c] \in Holding => Waiting(s)
  BY DEF Story, s
<1>4. at[c] \in {"idle", "reading", "upstream", "opaque"} => Settled(s)
  BY DEF Story, s
<1>5. at[c] = "closed" =>
         \/ status[c] = "400" /\ Settled(s)
         \/ Refused(s) /\ (status[c] = "403" => LastSays(s, "Denied"))
         \/ GaveUp(s)
  BY DEF Story, s
<1>6. at[c] \in {"idle", "reading", "upstream", "opaque", "closed"} \cup Holding
  BY DEF Story, Points
<1> QED
  <2> USE DEF LastSays
  <2>1. CASE at[c] \in Holding
    BY <1>2, <1>3, <2>1 DEF Holding, Waiting, s
  <2>2. CASE at[c] = "closed"
    BY <1>2, <1>5, <2>2 DEF Holding, Settled, Refused, GaveUp, s
  <2>3. CASE at[c] \in {"idle", "reading", "upstream", "opaque"}
    BY <1>2, <1>4, <2>3 DEF Story, Holding, Settled, s
  <2> QED
    BY <1>6, <2>1, <2>2, <2>3

(* A refusal is a request's last event, a hold ends in exactly one decision, *)
(* and personal data that left was allowed or approved: the events audited   *)
(* by host_gate, inspect_body and hold.                                     *)
THEOREM LogTellsTheStory == Spec => []AuditTellsTheStory
<1>1. StoryInv => AuditTellsTheStory
  BY StoryIsTold DEF StoryInv, AuditTellsTheStory, Count, Decisions
<1> QED
  BY <1>1, StoriesInductive, PTL
-----------------------------------------------------------------------------
(* What a service can take.                                                 *)


(* Where no token is a blank there is nothing to trim.                      *)
LEMMA TrimTokens ==
    ASSUME NEW T, NEW v \in Seq(T), v # <<>>, \A i \in DOMAIN v : v[i] # Blank
    PROVE  Trim(v) = v
<1>1. {i \in DOMAIN v : v[i] # Blank} = 1 .. Len(v) /\ Len(v) \in Nat \ {0}
  OBVIOUS
<1>2. (CHOOSE i \in 1 .. Len(v) : \A j \in 1 .. Len(v) : i <= j) = 1
  BY <1>1
<1>3. (CHOOSE i \in 1 .. Len(v) : \A j \in 1 .. Len(v) : i >= j) = Len(v)
  BY <1>1
<1>4. SubSeq(v, 1, Len(v)) = v
  OBVIOUS
<1>5. 1 .. Len(v) # {}
  BY <1>1
<1> QED
  BY <1>1, <1>2, <1>3, <1>4, <1>5 DEF Trim

(* Nor is a single word.                                                    *)
LEMMA TrimWord ==
    ASSUME NEW w, w # Blank
    PROVE  Trim(<<w>>) = <<w>>
<1>1. <<w>> \in Seq({w}) /\ <<w>> # <<>> /\ \A i \in DOMAIN <<w>> : <<w>>[i] # Blank
  OBVIOUS
<1> QED
  BY <1>1, TrimTokens

(* Of nothing nothing is left, and no piece of it has a token.               *)
LEMMA NoTokens == Trim(<<>>) = <<>> /\ TopLevelParams(<<>>) = {<<>>}
<1>1. Trim(<<>>) = <<>>
  BY DEF Trim
<1> DEFINE lexed == Lexed(<<>>)
<1>2. TopLevelParams(<<>>) = SplitAt(<<>>, {})
  BY DEF TopLevelParams
<1>3. SplitAt(<<>>, {}) = {Trim(SubSeq(<<>>, 1, 0))}
  <2>1. Len(<<>>) + 1 = 1
    OBVIOUS
  <2>2. {0} \cup {} = {0} /\ {} \cup {1} = {1}
    OBVIOUS
  <2>3. (CHOOSE e \in {1} : e > 0 /\ \A f \in {1} : f > 0 => e <= f) = 1
    OBVIOUS
  <2> QED
    BY <2>1, <2>2, <2>3 DEF SplitAt
<1>4. SubSeq(<<>>, 1, 0) = <<>>
  OBVIOUS
<1> QED
  BY <1>1, <1>2, <1>3, <1>4

(* A signature's member comes from a value that is there.                    *)
LEMMA MembersHaveValues ==
    ASSUME NEW headers, NEW x, Members(headers, x) # {}
    PROVE  HeaderValues(headers, x) \ {<<>>} # {}
<1>1. PICK m \in Members(headers, x) : TRUE
  OBVIOUS
<1>2. PICK v \in HeaderValues(headers, x) : m \in TopLevelParams(v)
  BY <1>1 DEF Members
<1>3. PICK i \in DOMAIN m : TRUE
  BY <1>1 DEF Members
<1>4. m # <<>>
  BY <1>3
<1>5. v # <<>>
  BY <1>2, <1>4, NoTokens
<1> QED
  BY <1>2, <1>5

LEMMA OpaqueIsAWord == Opaque # Blank /\ Comma # Blank
BY Zenon DEF Opaque, Blank, Comma

(* A client that signs headers authenticates in a way that says so.          *)
LEMMA SignersAuthenticate ==
    ASSUME NEW r, Plain(r), r.covers # {}
    PROVE  AuthenticationSignsHeaders(r)
<1> DEFINE h == r.headers["authorization"]
<1>0. PICK name : HeaderIsSigned(r, name)
  BY DEF Plain
<1>1. CASE SigV4SignsHeader(r, name)
  <2>1. \/ \E v \in HeaderValues(r.headers, "authorization") : IsSigV4Authorization(v)
        \/ SigV4Authenticates(r)
    BY <1>1 DEF SigV4SignsHeader, SignedHeaderLists
  <2>2. ASSUME NEW v \in HeaderValues(r.headers, "authorization"), IsSigV4Authorization(v)
        PROVE  SigV4Authenticates(r)
    <3>1. PICK i \in DOMAIN h : v = Trim(h[i]) /\ v # NotText
      BY <2>2 DEF HeaderValues
    <3>2. h \in Seq(Seq(STRING)) /\ Len(h) <= 1
      BY DEF Plain, KnownHeaders
    <3>3. i = 1 /\ h # <<>>
      BY <3>1, <3>2
    <3>4. h[1] # NotText
      BY <3>1, <3>3, OpaqueIsAWord, TrimWord DEF NotText
    <3>5. HeaderStr(r.headers, "authorization") = v
      BY <3>1, <3>3, <3>4 DEF HeaderStr
    <3> QED
      BY <2>2, <3>5 DEF SigV4Authenticates
  <2> QED
    BY <2>1, <2>2 DEF AuthenticationSignsHeaders
<1>2. CASE <<name>> \in MessageSignatureComponents(r.headers)
  <2>1. Members(r.headers, "signature-input") # {} /\ Members(r.headers, "signature") # {}
    BY <1>2 DEF MessageSignatureComponents
  <2> QED
    BY <2>1, MembersHaveValues DEF MessageSignaturePresent, AuthenticationSignsHeaders
<1>3. CASE CavageLists(r.headers) # {}
  BY <1>3 DEF AuthenticationSignsHeaders
<1> QED
  BY <1>0, <1>1, <1>2, <1>3 DEF HeaderIsSigned

(* What is signed does not depend on accept-encoding.                        *)
LEMMA IdentityIsNotSigned ==
    ASSUME NEW r, Plain(r), NEW headers,
           \A x \in DOMAIN r.headers : x # "accept-encoding" => headers[x] = r.headers[x],
           NEW name
    PROVE  HeaderIsSigned([r EXCEPT !.headers = headers], name) <=> HeaderIsSigned(r, name)
<1> DEFINE s == [r EXCEPT !.headers = headers]
           same(x) == HeaderValues(headers, x) = HeaderValues(r.headers, x)
<1>1. s.headers = headers /\ s.query = r.query
  BY DEF Plain
<1>2. same("authorization") /\ same("signature") /\ same("signature-input")
  BY DEF HeaderValues, Plain, KnownHeaders
<1>3. HeaderStr(headers, "authorization") = HeaderStr(r.headers, "authorization")
  BY DEF HeaderStr, Plain, KnownHeaders
<1> HIDE DEF s
<1>4. SigV4Authenticates(s) <=> SigV4Authenticates(r)
  BY <1>1, <1>3 DEF SigV4Authenticates
<1>5. SignedHeaderLists(s) = SignedHeaderLists(r)
  BY <1>1, <1>2, <1>4 DEF SignedHeaderLists
<1>6. /\ Members(headers, "signature") = Members(r.headers, "signature")
      /\ Members(headers, "signature-input") = Members(r.headers, "signature-input")
  BY <1>2 DEF Members
<1>7. MessageSignatureComponents(headers) = MessageSignatureComponents(r.headers)
  BY <1>6 DEF MessageSignatureComponents
<1>8. CavageCandidates(headers) = CavageCandidates(r.headers)
  BY <1>2 DEF CavageCandidates
<1>9. CavageLists(headers) = CavageLists(r.headers)
  BY <1>8 DEF CavageLists
<1>10. HeaderIsSigned(s, name) <=> HeaderIsSigned(r, name)
  BY <1>1, <1>5, <1>7, <1>9 DEF HeaderIsSigned, SigV4SignsHeader
<1> QED
  BY <1>10 DEF s

(* A function on the first n numbers is a sequence of length n.              *)
LEMMA FunctionIsSeq ==
    ASSUME NEW S, NEW n \in Nat, NEW f \in [1 .. n -> S]
    PROVE  f \in Seq(S) /\ Len(f) = n /\ DOMAIN f = 1 .. n
<1>1. f \in Seq(S)
  BY SeqDef
<1>2. DOMAIN f = 1 .. n /\ DOMAIN f = 1 .. Len(f) /\ Len(f) \in Nat
  BY <1>1, LenProperties
<1> QED
  BY <1>1, <1>2

(* The piece of one token.                                                   *)
LEMMA OneToken ==
    ASSUME NEW T, NEW s \in Seq(T), NEW j \in 1 .. Len(s)
    PROVE  SubSeq(s, j, j) = <<s[j]>>
<1>1. s[j] \in T /\ Len(s) \in Nat
  OBVIOUS
<1> DEFINE piece == SubSeq(s, j, j)
<1>2. piece \in Seq(T) /\ Len(piece) = 1 /\ piece[1] = s[j]
  BY <1>1, SubSeqProperties
<1> HIDE DEF piece
<1>3. piece = <<piece[1]>>
  BY <1>2
<1> QED
  BY <1>2, <1>3 DEF piece

(* Names in one value, between commas, are what the value lists.             *)
LEMMA JoinedLists ==
    ASSUME NEW names, IsFiniteSet(names), names # {},
           names \subseteq STRING \ {Blank, Comma, Opaque}
    PROVE  /\ Joined(names) \in Seq(names \cup {Comma})
           /\ Joined(names) # NotText /\ Trim(Joined(names)) = Joined(names)
           /\ \A t \in names : <<t>> \in SplitOn(Joined(names), Comma)
<1> DEFINE n == Cardinality(names)
           lists(s) == s \in [1 .. n -> names] /\ \A t \in names : \E i \in DOMAIN s : s[i] = t
           inOrder == CHOOSE s \in [1 .. n -> names] : \A t \in names : \E i \in DOMAIN s : s[i] = t
           value == Joined(names)
<1>0. n \in Nat
  BY FS_CardinalityType
<1>1. \E s : lists(s)
  <2>1. ExistsBijection(1 .. n, names)
    BY FS_CardinalityType
  <2> QED
    BY <2>1 DEF ExistsBijection, Bijection, Surjection
<1>2. lists(inOrder)
  BY <1>1
<1> DEFINE d == inOrder
<1>3. value = [i \in 1 .. 2 * Len(d) - 1 |-> IF i % 2 = 1 THEN d[(i + 1) \div 2] ELSE Comma]
  BY DEF Joined
<1>4. lists(d)
  BY <1>2
<1> HIDE DEF inOrder, d, n, value
<1>5. Len(d) = n /\ DOMAIN d = 1 .. n /\ n > 0
  <2>1. d \in [1 .. n -> names] /\ DOMAIN d = 1 .. n
    BY <1>4
  <2>2. Len(d) = n
    BY <1>0, <2>1, FunctionIsSeq
  <2>3. \E i \in 1 .. n : TRUE
    BY <1>4, <2>1
  <2> QED
    BY <1>0, <2>1, <2>2, <2>3
<1>7. \A i \in 1 .. 2 * n - 1 : (i + 1) \div 2 \in 1 .. n
  BY <1>0
<1>8. value \in [1 .. 2 * n - 1 -> names \cup {Comma}]
  <2>1. value = [i \in 1 .. 2 * n - 1 |-> IF i % 2 = 1 THEN d[(i + 1) \div 2] ELSE Comma]
    BY <1>3, <1>5
  <2>2. ASSUME NEW i \in 1 .. 2 * n - 1
        PROVE  (IF i % 2 = 1 THEN d[(i + 1) \div 2] ELSE Comma) \in names \cup {Comma}
    <3>1. i % 2 = 1 => d[(i + 1) \div 2] \in names
      BY <1>4, <1>7
    <3> QED
      BY <3>1
  <2> QED
    BY <2>1, <2>2
<1>9. Len(value) = 2 * n - 1 /\ DOMAIN value = 1 .. 2 * n - 1 /\ value \in Seq(names \cup {Comma})
  BY <1>0, <1>5, <1>8, FunctionIsSeq
<1>10. /\ \A i \in DOMAIN value : value[i] \in names \cup {Comma}
       /\ \A i \in 1 .. n : 2 * i - 1 \in DOMAIN value /\ value[2 * i - 1] = d[i]
  <2>1. \A i \in DOMAIN value : value[i] \in names \cup {Comma}
    BY <1>3, <1>4, <1>5, <1>7, <1>9
  <2>2. ASSUME NEW i \in 1 .. n
        PROVE  2 * i - 1 \in DOMAIN value /\ value[2 * i - 1] = d[i]
    <3>1. 2 * i - 1 \in 1 .. 2 * n - 1 /\ (2 * i - 1) % 2 = 1 /\ (2 * i - 1 + 1) \div 2 = i
      BY <1>0
    <3> QED
      BY <1>3, <1>5, <1>9, <3>1
  <2> QED
    BY <2>1, <2>2
<1>11. \A i \in DOMAIN value : value[i] = Comma <=> i % 2 = 0
  <2>1. ASSUME NEW i \in 1 .. 2 * n - 1
        PROVE  value[i] = Comma <=> i % 2 = 0
    <3>1. i \in Int /\ i % 2 \in {0, 1}
      BY <1>0
    <3>2. value[i] = IF i % 2 = 1 THEN d[(i + 1) \div 2] ELSE Comma
      BY <1>3, <1>5
    <3>3. i % 2 = 1 => d[(i + 1) \div 2] # Comma
      BY <1>4, <1>7
    <3> QED
      BY <3>1, <3>2, <3>3
  <2> QED
    BY <1>9, <2>1
<1>12. Trim(value) = value
  <2>1. \A i \in DOMAIN value : value[i] # Blank
    BY <1>10, OpaqueIsAWord
  <2>2. Len(value) # 0
    BY <1>0, <1>5, <1>9
  <2>3. value # <<>>
    BY <2>2
  <2> QED
    BY <1>9, <2>1, <2>3, TrimTokens
<1>13. value # NotText
  <2>1. value[1] # Opaque
    <3>1. 1 \in 1 .. n /\ 2 * 1 - 1 = 1
      BY <1>0, <1>5
    <3>2. value[1] = d[1]
      BY <1>10, <3>1
    <3> QED
      BY <1>4, <3>1, <3>2
  <2> QED
    BY <2>1 DEF NotText
<1>14. ASSUME NEW t \in names
       PROVE  <<t>> \in SplitOn(value, Comma)
  <2>1. PICK k \in 1 .. n : d[k] = t
    BY <1>4, <1>5
  <2> DEFINE positions == {i \in DOMAIN value : value[i] = Comma}
             ends == positions \cup {Len(value) + 1}
             b == 2 * k - 2
             stop == CHOOSE e \in ends : e > b /\ \A f \in ends : f > b => e <= f
  <2>2. ends = {i \in 1 .. 2 * n : i % 2 = 0}
    BY <1>0, <1>5, <1>9, <1>11
  <2>3. b \in {0} \cup positions
    BY <1>0, <1>5, <1>9, <1>11
  <2>4. 2 * k \in ends /\ \A f \in ends : f > b => 2 * k <= f
    BY <1>0, <1>5, <2>2
  <2>5. stop = 2 * k
    BY <1>0, <1>5, <2>2, <2>4
  <2>0. b = 2 * k - 2
    OBVIOUS
  <2> HIDE DEF b, stop
  <2>6. SubSeq(value, b + 1, stop - 1) = <<t>>
    <3>1. 2 * k - 1 \in 1 .. Len(value) /\ value[2 * k - 1] = t
      BY <1>9, <1>10, <2>1
    <3>2. b + 1 = 2 * k - 1 /\ stop - 1 = 2 * k - 1
      BY <1>0, <2>0, <2>5
    <3>3. SubSeq(value, 2 * k - 1, 2 * k - 1) = <<t>>
      BY <1>9, <3>1, OneToken
    <3> QED
      BY <3>2, <3>3
  <2>7. Trim(<<t>>) = <<t>>
    BY TrimWord
  <2>8. Trim(SubSeq(value, b + 1, stop - 1)) \in SplitAt(value, positions)
    BY <2>3 DEF SplitAt, stop
  <2> QED
    BY <2>6, <2>7, <2>8 DEF SplitOn
<1> QED
  BY <1>9, <1>12, <1>13, <1>14 DEF value

(* The headers a request leaves with are its own but for accept-encoding, and *)
(* that too where the client signs any.                                     *)
Leaves(r, headers) == headers = r.headers \/ headers = WithIdentity(r)

LEMMA HeadersStay ==
    ASSUME NEW r, Plain(r), NEW headers, Leaves(r, headers)
    PROVE  /\ headers = [x \in DOMAIN r.headers |-> headers[x]]
           /\ \A x \in DOMAIN r.headers : x # "accept-encoding" =>
                 headers[x] = r.headers[x] /\ headers[x] \in Seq(Seq(STRING))
           /\ r.covers # {} => headers = r.headers
           /\ \A x : HeaderIsSigned([r EXCEPT !.headers = headers], x) <=> HeaderIsSigned(r, x)
<1>1. r.headers = [x \in DOMAIN r.headers |-> r.headers[x]]
      /\ \A x \in DOMAIN r.headers : r.headers[x] \in Seq(Seq(STRING))
  BY DEF Plain
<1>2. /\ headers = [x \in DOMAIN r.headers |-> headers[x]]
      /\ \A x \in DOMAIN r.headers : x # "accept-encoding" => headers[x] = r.headers[x]
  BY <1>1 DEF Leaves, WithIdentity
<1>3. r.covers # {} => headers = r.headers
  BY SignersAuthenticate DEF Leaves, WithIdentity
<1> QED
  BY <1>1, <1>2, <1>3, IdentityIsNotSigned

(* What framed_for_trailers leaves alone, and what it adds.                  *)
Undeclared(r, headers) == {t \in RetainedTrailers(r) : ~ DeclaresTrailer(headers, t)}
IsSigned(r, headers, name) == HeaderIsSigned([r EXCEPT !.headers = headers], name)

LeftAlone(r, headers) ==
    \/ RetainedTrailers(r) = {}
    \/ IsChunked(headers) /\ Undeclared(r, headers) = {}
    \/ ~ IsChunked(headers) /\ ~ LengthIsUnambiguous(headers)
    \/ \E name : IsSigned(r, headers, name) /\ name \in {"transfer-encoding", "content-length", "trailer"}

Adds(r, headers) ==
    /\ IsChunked(headers) \/ LengthIsUnambiguous(headers)
    /\ IsChunked(headers) \/ ~ IsSigned(r, headers, "transfer-encoding")
    /\ Undeclared(r, headers) = {} \/ ~ IsSigned(r, headers, "trailer")
    /\ Framed(r, headers) =
          [headers EXCEPT
             !["transfer-encoding"] = IF IsChunked(headers) THEN @ ELSE Append(@, <<"chunked">>),
             !["trailer"] = IF Undeclared(r, headers) = {} THEN @
                            ELSE Append(@, Joined(Undeclared(r, headers)))]

LEMMA FramedIs ==
    ASSUME NEW r, NEW headers
    PROVE  \/ LeftAlone(r, headers) /\ Framed(r, headers) = headers
           \/ Adds(r, headers)
<1> DEFINE chunked == IsChunked(headers)
           undeclared == Undeclared(r, headers)
           reframed == (IF chunked THEN {} ELSE {"transfer-encoding"})
                         \cup (IF ~ chunked /\ Present(headers, "content-length")
                               THEN {"content-length"} ELSE {})
                         \cup (IF undeclared # {} THEN {"trailer"} ELSE {})
           signed == SignedHeadersAmong([r EXCEPT !.headers = headers], reframed)
           alone == \/ RetainedTrailers(r) = {} \/ reframed = {}
                    \/ ~ chunked /\ ~ LengthIsUnambiguous(headers)
                    \/ signed # {}
           new == [headers EXCEPT
                     !["transfer-encoding"] = IF chunked THEN @ ELSE Append(@, <<"chunked">>),
                     !["trailer"] = IF undeclared = {} THEN @ ELSE Append(@, Joined(undeclared))]
<1>1. Framed(r, headers) = IF alone THEN headers ELSE new
  BY DEF Framed, Undeclared
<1>2. reframed = {} => chunked /\ undeclared = {}
  OBVIOUS
<1>3. reframed \subseteq {"transfer-encoding", "content-length", "trailer"}
  OBVIOUS
<1>4. signed = {name \in reframed : IsSigned(r, headers, name)}
  BY DEF SignedHeadersAmong, IsSigned
<1>5. CASE alone
  <2> HIDE DEF new, reframed, undeclared, signed
  <2>1. signed # {} => \E name : IsSigned(r, headers, name)
                                 /\ name \in {"transfer-encoding", "content-length", "trailer"}
    BY <1>3, <1>4
  <2> QED
    BY <1>1, <1>2, <1>5, <2>1 DEF LeftAlone, undeclared
<1>6. CASE ~ alone
  <2>1. chunked \/ "transfer-encoding" \in reframed
    OBVIOUS
  <2>2. undeclared = {} \/ "trailer" \in reframed
    OBVIOUS
  <2>3. Framed(r, headers) = new
    BY <1>1, <1>6
  <2>4. /\ chunked \/ ~ IsSigned(r, headers, "transfer-encoding")
        /\ undeclared = {} \/ ~ IsSigned(r, headers, "trailer")
    BY <1>4, <1>6, <2>1, <2>2
  <2>5. chunked \/ LengthIsUnambiguous(headers)
    BY <1>6
  <2> QED
    BY <2>3, <2>4, <2>5 DEF Adds
<1> QED
  BY <1>5, <1>6

(* A header the client signed leaves as it came, trailers or not.            *)
LEMMA FramedIsSigned ==
    ASSUME NEW r, Plain(r), NEW headers, Leaves(r, headers), NEW name \in r.covers
    PROVE  Framed(r, headers)[name] = r.headers[name]
<1>1. headers = r.headers /\ name \in DOMAIN r.headers
  BY HeadersStay DEF Plain
<1>2. IsSigned(r, headers, name)
  BY HeadersStay DEF IsSigned, Plain
<1>3. CASE Framed(r, headers) = headers
  BY <1>1, <1>3
<1>4. CASE Adds(r, headers)
  <2>1. name = "transfer-encoding" => IsChunked(headers)
    BY <1>2, <1>4 DEF Adds
  <2>2. name = "trailer" => Undeclared(r, headers) = {}
    BY <1>2, <1>4 DEF Adds
  <2>3. headers = [x \in DOMAIN headers |-> headers[x]]
    BY <1>1, HeadersStay
  <2> DEFINE te == IF IsChunked(headers) THEN headers["transfer-encoding"]
                   ELSE Append(headers["transfer-encoding"], <<"chunked">>)
             tr == IF Undeclared(r, headers) = {} THEN headers["trailer"]
                   ELSE Append(headers["trailer"], Joined(Undeclared(r, headers)))
  <2>4. Framed(r, headers) = [headers EXCEPT !["transfer-encoding"] = te, !["trailer"] = tr]
    BY <1>4 DEF Adds
  <2>5. /\ name = "transfer-encoding" => te = headers["transfer-encoding"]
        /\ name = "trailer" => tr = headers["trailer"]
    BY <2>1, <2>2
  <2> HIDE DEF te, tr
  <2> QED
    BY <1>1, <2>3, <2>4, <2>5
<1> QED
  BY <1>3, <1>4, FramedIs

(* What is added after some values is a value too, and the last one.         *)
LEMMA AppendedLast ==
    ASSUME NEW S, NEW s \in Seq(S), NEW e
    PROVE  /\ Append(s, e)[Len(Append(s, e))] = e /\ Append(s, e) # <<>>
           /\ Len(Append(s, e)) \in DOMAIN Append(s, e)
           /\ \A i \in DOMAIN s : i \in DOMAIN Append(s, e) /\ Append(s, e)[i] = s[i]
<1> DEFINE T == S \cup {e}
<1>1. s \in Seq(T) /\ e \in T
  BY SeqMonotonic
<1> HIDE DEF T
<1> QED
  BY <1>1, AppendProperties

LEMMA ChunkedIsAWord == "chunked" # Opaque /\ "chunked" # Blank
BY Zenon DEF Opaque, Blank

(* The wire of a request sent on is framed once if the client's was, and     *)
(* what trailers it may keep are announced on it.                           *)
LEMMA FramedIsSound ==
    ASSUME NEW r, Plain(r), NEW headers, Leaves(r, headers)
    PROVE  /\ BothFramings(Framed(r, headers)) => BothFramings(r.headers)
           /\ Scanned(r) /\ r.covers = {} /\ LengthIsUnambiguous(r.headers) =>
                \A t \in KeptTrailers(r) :
                   IsChunked(Framed(r, headers)) /\ DeclaresTrailer(Framed(r, headers), t)
<1> DEFINE framed == Framed(r, headers)
<1>1. /\ headers = [x \in DOMAIN r.headers |-> headers[x]]
      /\ KnownHeaders \subseteq DOMAIN r.headers
      /\ \A x \in DOMAIN r.headers : x # "accept-encoding" =>
            headers[x] = r.headers[x] /\ headers[x] \in Seq(Seq(STRING))
      /\ \A x : IsSigned(r, headers, x) <=> HeaderIsSigned(r, x)
  <2>1. /\ headers = [x \in DOMAIN r.headers |-> headers[x]]
        /\ \A x \in DOMAIN r.headers : x # "accept-encoding" => headers[x] = r.headers[x]
    BY HeadersStay
  <2>2. \A x : IsSigned(r, headers, x) <=> HeaderIsSigned(r, x)
    BY HeadersStay DEF IsSigned
  <2>3. KnownHeaders \subseteq DOMAIN r.headers /\ \A x \in DOMAIN r.headers : r.headers[x] \in Seq(Seq(STRING))
    BY DEF Plain
  <2> QED
    BY <2>1, <2>2, <2>3
<1>2. /\ headers["content-length"] = r.headers["content-length"]
      /\ headers["transfer-encoding"] = r.headers["transfer-encoding"]
  BY <1>1 DEF KnownHeaders
<1>3. LengthIsUnambiguous(headers) <=> LengthIsUnambiguous(r.headers)
  BY <1>2 DEF LengthIsUnambiguous
<1>4. BothFramings(headers) <=> BothFramings(r.headers)
  BY <1>2 DEF BothFramings, Present
<1>5. CASE LeftAlone(r, headers) /\ framed = headers
  <2>1. ASSUME Scanned(r), r.covers = {}, LengthIsUnambiguous(r.headers), NEW t \in KeptTrailers(r)
        PROVE  IsChunked(headers) /\ DeclaresTrailer(headers, t)
    <3>1. t \in RetainedTrailers(r)
      BY <2>1 DEF RetainedTrailers
    <3>2. \A name \in KnownHeaders : ~ IsSigned(r, headers, name)
      BY <1>1, <2>1 DEF Plain
    <3>3. IsChunked(headers) /\ Undeclared(r, headers) = {}
      BY <1>3, <1>5, <2>1, <3>1, <3>2 DEF LeftAlone, KnownHeaders
    <3> QED
      BY <3>1, <3>3 DEF Undeclared
  <2> QED
    BY <1>4, <1>5, <2>1
<1>6. CASE Adds(r, headers)
  <2> DEFINE te == IF IsChunked(headers) THEN headers["transfer-encoding"]
                   ELSE Append(headers["transfer-encoding"], <<"chunked">>)
             more == Undeclared(r, headers)
             tr == IF more = {} THEN headers["trailer"] ELSE Append(headers["trailer"], Joined(more))
  <2>1. framed = [headers EXCEPT !["transfer-encoding"] = te, !["trailer"] = tr]
    BY <1>6 DEF Adds
  <2>2. /\ headers["transfer-encoding"] \in Seq(Seq(STRING))
        /\ headers["trailer"] \in Seq(Seq(STRING))
    BY <1>1 DEF KnownHeaders
  <2>3. IsChunked(framed)
    <3>1. framed["transfer-encoding"] = te
      <4> HIDE DEF te, tr
      <4> QED
        BY <1>1, <2>1 DEF KnownHeaders
    <3>2. CASE IsChunked(headers)
      BY <3>1, <3>2 DEF IsChunked
    <3>3. CASE ~ IsChunked(headers)
      <4> HIDE DEF framed
      <4>1. te # <<>> /\ te[Len(te)] = <<"chunked">>
        BY <2>2, <3>3, AppendedLast
      <4>2. <<"chunked">> # NotText
        BY ChunkedIsAWord DEF NotText
      <4>3. Trim(<<"chunked">>) = <<"chunked">>
        BY ChunkedIsAWord, TrimWord
      <4> HIDE DEF te
      <4> QED
        BY <3>1, <4>1, <4>2, <4>3 DEF IsChunked
    <3> QED
      BY <3>2, <3>3
  <2>4. framed["trailer"] = tr /\ framed["content-length"] = headers["content-length"]
    <3> HIDE DEF te, tr
    <3> QED
      BY <1>1, <2>1 DEF KnownHeaders
  <2>5. ASSUME NEW t \in RetainedTrailers(r)
        PROVE  DeclaresTrailer(framed, t)
    <3> HIDE DEF framed
    <3>1. CASE DeclaresTrailer(headers, t)
      <4>1. PICK v \in HeaderValues(headers, "trailer") : <<t>> \in SplitOn(v, Comma)
        BY <3>1 DEF DeclaresTrailer
      <4>2. PICK i \in DOMAIN headers["trailer"] : v = Trim(headers["trailer"][i]) /\ v # NotText
        BY <4>1 DEF HeaderValues
      <4>3. i \in DOMAIN tr /\ tr[i] = headers["trailer"][i]
        BY <2>2, AppendedLast
      <4>4. v \in HeaderValues(framed, "trailer")
        BY <2>4, <4>2, <4>3 DEF HeaderValues
      <4> QED
        BY <4>1, <4>4 DEF DeclaresTrailer
    <3>2. CASE ~ DeclaresTrailer(headers, t)
      <4>1. t \in more /\ more # {}
        BY <3>2 DEF Undeclared
      <4>2. IsFiniteSet(more) /\ more \subseteq STRING \ {Blank, Comma, Opaque}
        <5>1. more \subseteq r.body.trailers
          BY DEF Undeclared, RetainedTrailers, KeptTrailers
        <5> QED
          BY <5>1, FS_Subset DEF Plain
      <4> DEFINE value == Joined(more)
      <4>3. value # NotText /\ Trim(value) = value /\ <<t>> \in SplitOn(value, Comma)
        BY <4>1, <4>2, JoinedLists
      <4>4. tr = Append(headers["trailer"], value)
        BY <4>1
      <4> HIDE DEF value, tr
      <4>5. Len(tr) \in DOMAIN tr /\ tr[Len(tr)] = value
        BY <2>2, <4>4, AppendedLast
      <4>6. value \in HeaderValues(framed, "trailer")
        BY <2>4, <4>3, <4>5 DEF HeaderValues
      <4> QED
        BY <4>3, <4>6 DEF DeclaresTrailer
    <3> QED
      BY <3>1, <3>2
  <2>6. BothFramings(framed) => BothFramings(headers)
    <3>1. CASE IsChunked(headers)
      <4>1. framed["transfer-encoding"] = headers["transfer-encoding"]
        <5>1. te = headers["transfer-encoding"]
          BY <3>1
        <5> HIDE DEF te, tr
        <5> QED
          BY <1>1, <2>1, <5>1 DEF KnownHeaders
      <4> HIDE DEF framed
      <4> QED
        BY <2>4, <4>1 DEF BothFramings, Present
    <3>2. CASE LengthIsUnambiguous(headers)
      <4> HIDE DEF framed
      <4>1. ~ BothFramings(framed)
        <5> DEFINE length == headers["content-length"]
        <5>1. length \in Seq(Seq(STRING))
          BY <1>1 DEF KnownHeaders
        <5>2. CASE length = <<>>
          <6> DEFINE values == framed["content-length"]
          <6>1. DOMAIN values = {}
            BY <2>4, <5>2
          <6>2. {values[i] : i \in DOMAIN values} = {}
            BY <6>1
          <6>3. Cardinality({values[i] : i \in DOMAIN values}) = 0
            BY <6>2, FS_EmptySet
          <6> QED
            BY <6>1, <6>3 DEF BothFramings
        <5>3. CASE Len(length) = 1 /\ length[1] \in LengthTokens
          <6>1. DOMAIN length = {1}
            BY <5>1, <5>3
          <6>2. {length[i] : i \in DOMAIN length} = {length[1]}
            BY <6>1
          <6> HIDE DEF length
          <6>3. Cardinality({length[i] : i \in DOMAIN length}) = 1
            BY <6>2, FS_Singleton DEF length
          <6> QED
            BY <2>4, <5>3, <6>1, <6>3 DEF BothFramings, length
        <5> QED
          BY <3>2, <5>2, <5>3 DEF LengthIsUnambiguous
      <4> QED
        BY <4>1
    <3> QED
      BY <1>6, <3>1, <3>2 DEF Adds
  <2> QED
    BY <1>4, <2>3, <2>5, <2>6 DEF RetainedTrailers
<1> QED
  BY <1>5, <1>6, FramedIs

(* What a service can verify and read, of what was sent for a request.       *)
Taken(r, o) ==
    /\ \A name \in r.covers : o.headers[name] = r.headers[name]
    /\ r.signsBody => o.text = r.body.text
    /\ BothFramings(o.headers) => BothFramings(r.headers)
    /\ o.trailers \cap (ForbiddenTrailerFields \cup ConnectionNominated(r)) = {}
    /\ Scanned(r) /\ ~ o.rewritten /\ r.covers = {} /\ LengthIsUnambiguous(r.headers) =>
          \A t \in KeptTrailers(r) : IsChunked(o.headers) /\ DeclaresTrailer(o.headers, t)

(* A request sent on as it came can be taken.                                *)
LEMMA PassedOnIsTaken ==
    ASSUME NEW r, Plain(r), NEW headers, Leaves(r, headers)
    PROVE  Taken(r, PassedOn(r, headers))
<1> DEFINE framed == Framed(r, headers)
           o == PassedOn(r, headers)
<1>1. \A name \in r.covers : framed[name] = r.headers[name]
  BY FramedIsSigned
<1>2. /\ BothFramings(framed) => BothFramings(r.headers)
      /\ Scanned(r) /\ r.covers = {} /\ LengthIsUnambiguous(r.headers) =>
           \A t \in KeptTrailers(r) : IsChunked(framed) /\ DeclaresTrailer(framed, t)
  BY FramedIsSound
<1>3. KeptTrailers(r) \cap (ForbiddenTrailerFields \cup ConnectionNominated(r)) = {}
  BY DEF KeptTrailers
<1>4. o.text = r.body.text /\ o.headers = framed /\ o.trailers = KeptTrailers(r)
  BY DEF PassedOn
<1> HIDE DEF o, framed
<1>5. Taken(r, o)
  BY <1>1, <1>2, <1>3, <1>4 DEF Taken
<1> QED
  BY <1>5 DEF o

(* A rewrite goes ahead only if nothing it changes is signed.                *)
LEMMA NothingBreaks ==
    ASSUME NEW r, NEW headers, NEW text, Breaks(r, headers, text) = ""
    PROVE  /\ BodySignatureScheme(r) = "none"
           /\ SignedHeadersAmong([r EXCEPT !.headers = headers], Rewrites(headers, Len(text))) = {}
BY Zenon DEF Breaks

(* And a request is blocked only if something of it is.                      *)
LEMMA SomethingBreaks ==
    ASSUME NEW r, Plain(r), NEW headers, Leaves(r, headers), NEW text, Breaks(r, headers, text) # ""
    PROVE  r.signsBody \/ r.covers # {}
<1>1. \/ BodySignatureScheme(r) # "none"
      \/ SignedHeadersAmong([r EXCEPT !.headers = headers], Rewrites(headers, Len(text))) # {}
  BY Zenon DEF Breaks
<1>2. CASE BodySignatureScheme(r) # "none"
  BY <1>2 DEF Plain
<1>3. ASSUME NEW name \in Rewrites(headers, Len(text)),
             HeaderIsSigned([r EXCEPT !.headers = headers], name)
      PROVE  r.covers # {}
  <2>1. HeaderIsSigned(r, name)
    BY <1>3, HeadersStay
  <2>2. name \in DOMAIN r.headers
    BY <1>3 DEF Rewrites, RewrittenFramingHeaders, Plain, KnownHeaders
  <2> QED
    BY <2>1, <2>2 DEF Plain
<1> QED
  BY <1>1, <1>2, <1>3 DEF SignedHeadersAmong

(* A rewritten request can be taken.                                         *)
LEMMA RewrittenIsTaken ==
    ASSUME NEW r, Plain(r), NEW headers, Leaves(r, headers), NEW text,
           Breaks(r, headers, text) = ""
    PROVE  Taken(r, Rewritten(r, headers, text))
<1> DEFINE o == Rewritten(r, headers, text)
           length == << <<ToString(Len(text))>> >>
<1>1. ~ r.signsBody
  BY NothingBreaks DEF Plain
<1>2. /\ o.rewritten = TRUE /\ o.trailers = {}
      /\ o.headers = [name \in DOMAIN headers |->
                         IF name = "content-length" THEN length
                         ELSE IF name \in RewrittenFramingHeaders \cup BodyDigestHeaders THEN <<>>
                         ELSE headers[name]]
  BY DEF Rewritten
<1>3. headers = [x \in DOMAIN r.headers |-> headers[x]] /\ KnownHeaders \subseteq DOMAIN r.headers
  BY HeadersStay DEF Plain
<1>4. DOMAIN headers = DOMAIN r.headers
  BY <1>3
<1> HIDE DEF o, length
<1>5. o.headers["transfer-encoding"] = <<>>
  BY <1>2, <1>3, <1>4 DEF KnownHeaders, RewrittenFramingHeaders
<1>6. ~ BothFramings(o.headers)
  BY <1>5 DEF BothFramings, Present
<1>7. ASSUME NEW name \in r.covers
      PROVE  o.headers[name] = r.headers[name]
  <2>1. headers = r.headers /\ name \in DOMAIN headers /\ HeaderIsSigned(r, name)
    BY <1>4, <1>7, HeadersStay DEF Plain
  <2>2. HeaderIsSigned([r EXCEPT !.headers = headers], name)
    BY <2>1, HeadersStay
  <2>3. name \notin Rewrites(headers, Len(text))
    BY <2>2, NothingBreaks DEF SignedHeadersAmong
  <2>4. CASE name = "content-length"
    <3>1. headers[name] = length
      BY <2>3, <2>4 DEF Rewrites, RewrittenFramingHeaders, length
    <3> QED
      BY <1>2, <2>1, <2>4, <3>1
  <2>5. CASE name # "content-length" /\ name \in RewrittenFramingHeaders \cup BodyDigestHeaders
    <3>1. headers[name] = <<>>
      BY <2>3, <2>5 DEF Rewrites, Present
    <3> QED
      BY <1>2, <2>1, <2>5, <3>1
  <2>6. CASE name # "content-length" /\ name \notin RewrittenFramingHeaders \cup BodyDigestHeaders
    BY <1>2, <2>1, <2>6
  <2> QED
    BY <2>4, <2>5, <2>6
<1>8. Taken(r, o)
  BY <1>1, <1>2, <1>6, <1>7 DEF Taken
<1> QED
  BY <1>8 DEF o

(* The ways on for a request that was allowed: mitm.rs, redacted_request.     *)
Way(is, o, mapping, why) == [is |-> is, out |-> o, mapping |-> mapping, rule |-> why]

LEMMA ForwardedIs ==
    ASSUME NEW r
    PROVE  LET headers == WithIdentity(r)
               redacted == RedactText(r)
               why == Breaks(r, headers, redacted.text)
               alone == ~ Readable(r) \/ ~ redacted.redacted
           IN  \/ /\ ~ config.redaction
                  /\ Forwarded(r) = Way("sent", PassedOn(r, r.headers), <<>>, why)
               \/ /\ config.redaction /\ alone
                  /\ Forwarded(r) = Way("sent", PassedOn(r, headers), <<>>, why)
               \/ /\ config.redaction /\ ~ alone /\ why = ""
                  /\ Forwarded(r) = Way("sent", Rewritten(r, headers, redacted.text), redacted.mapping, why)
               \/ /\ config.redaction /\ ~ alone /\ why # "" /\ config.signedBody = "forward"
                  /\ Forwarded(r) = Way("sent", PassedOn(r, headers), <<>>, why)
               \/ /\ config.redaction /\ ~ alone /\ why # "" /\ config.signedBody # "forward"
                  /\ Forwarded(r) = Way("blocked", Nothing, <<>>, why)
<1> DEFINE headers == WithIdentity(r)
           redacted == RedactText(r)
           why == Breaks(r, headers, redacted.text)
           alone == ~ Readable(r) \/ ~ redacted.redacted
<1>1. Forwarded(r) = RedactedRequest(r, headers, redacted, why)
  BY DEF Forwarded
<1> HIDE DEF headers, redacted, why
<1>2. ~ config.redaction => Forwarded(r) = Way("sent", PassedOn(r, r.headers), <<>>, why)
  BY <1>1, Zenon DEF RedactedRequest, Way
<1>3. config.redaction /\ alone => Forwarded(r) = Way("sent", PassedOn(r, headers), <<>>, why)
  BY <1>1, Zenon DEF RedactedRequest, Way
<1>4. config.redaction /\ ~ alone /\ why = "" =>
         Forwarded(r) = Way("sent", Rewritten(r, headers, redacted.text), redacted.mapping, why)
  BY <1>1, Zenon DEF RedactedRequest, Way
<1>5. config.redaction /\ ~ alone /\ why # "" /\ config.signedBody = "forward" =>
         Forwarded(r) = Way("sent", PassedOn(r, headers), <<>>, why)
  BY <1>1, Zenon DEF RedactedRequest, Way
<1>6. config.redaction /\ ~ alone /\ why # "" /\ config.signedBody # "forward" =>
         Forwarded(r) = Way("blocked", Nothing, <<>>, why)
  BY <1>1, Zenon DEF RedactedRequest, Way
<1> QED
  BY <1>2, <1>3, <1>4, <1>5, <1>6, Zenon DEF headers, redacted, why

(* What becomes of a request that was let on.                                *)
LEMMA ForwardedIsTaken ==
    ASSUME NEW r, Plain(r)
    PROVE  /\ Forwarded(r).is = "sent" => Taken(r, Forwarded(r).out)
           /\ Forwarded(r).is = "blocked" => r.signsBody \/ r.covers # {}
           /\ Forwarded(r).is \in {"sent", "blocked"}
<1> DEFINE headers == WithIdentity(r)
           redacted == RedactText(r)
           why == Breaks(r, headers, redacted.text)
           Result(is, o, mapping) == Way(is, o, mapping, why)
<1>2. Leaves(r, headers) /\ Leaves(r, r.headers)
  BY DEF Leaves
<1>3. \/ Forwarded(r) = Result("sent", PassedOn(r, r.headers), <<>>)
      \/ Forwarded(r) = Result("sent", PassedOn(r, headers), <<>>)
      \/ /\ Forwarded(r) = Result("sent", Rewritten(r, headers, redacted.text), redacted.mapping)
         /\ why = ""
      \/ Forwarded(r) = Result("blocked", Nothing, <<>>) /\ why # ""
  BY ForwardedIs, Zenon
<1>4. why = "" => Taken(r, Rewritten(r, headers, redacted.text))
  BY <1>2, RewrittenIsTaken
<1>5. why # "" => r.signsBody \/ r.covers # {}
  BY <1>2, SomethingBreaks
<1>6. Taken(r, PassedOn(r, headers)) /\ Taken(r, PassedOn(r, r.headers))
  BY <1>2, PassedOnIsTaken
<1> DEFINE signs == r.signsBody \/ r.covers # {}
           rewritten == Rewritten(r, headers, redacted.text)
<1>7. \/ Forwarded(r) = Result("sent", PassedOn(r, r.headers), <<>>)
      \/ Forwarded(r) = Result("sent", PassedOn(r, headers), <<>>)
      \/ Forwarded(r) = Result("sent", rewritten, redacted.mapping) /\ Taken(r, rewritten)
      \/ Forwarded(r) = Result("blocked", Nothing, <<>>) /\ signs
  <2> HIDE DEF headers, redacted, why, signs, Result
  <2> QED
    BY <1>3, <1>4, <1>5, Zenon DEF signs
<1> HIDE DEF headers, redacted, why, rewritten, signs
<1>8. /\ Forwarded(r).is = "sent" => Taken(r, Forwarded(r).out)
      /\ Forwarded(r).is = "blocked" => signs
      /\ Forwarded(r).is \in {"sent", "blocked"}
  BY <1>6, <1>7 DEF Way
<1> QED
  BY <1>8 DEF signs

(* Whatever a connection handles came from its client; what it sent can be   *)
(* taken, and what it blocked was signed.                                   *)
Handles == {"reading", "upstream"} \cup Holding
Served(c) ==
    /\ at[c] \in Handles => request[c] \in config.requests[c]
    /\ at[c] = "upstream" => Taken(request[c], out[c])
    /\ status[c] = "signed" => request[c].signsBody \/ request[c].covers # {}

ServiceInv == Kept /\ config \in Settings /\ \A c \in Conns : Served(c)

(* A connection that does not step has sent what it had.                     *)
LEMMA UntouchedServed ==
    ASSUME config' = config, NEW c \in Conns, Served(c), Untouched(c)
    PROVE  Served(c)'
<1>1. UNCHANGED <<at[c], request[c], status[c], out[c], config>>
  BY DEF Untouched
<1> QED
  BY <1>1 DEF Served

(* Sending on sends what a service can take, or blocks what is signed.       *)
LEMMA SentIsServed ==
    ASSUME Kept, NEW c \in Conns, Served(c), Plain(request[c]), request[c] \in config.requests[c],
           request' = request, config' = config,
           NEW before, SendOn(c, Forwarded(request[c]), before)
    PROVE  Served(c)'
<1> USE DEF SendOn, Forward, Goto, Refuse, Kept, PerConn
<1> DEFINE result == Forwarded(request[c])
<1>1. /\ result.is = "sent" => Taken(request[c], result.out)
      /\ result.is = "blocked" => request[c].signsBody \/ request[c].covers # {}
  BY ForwardedIsTaken
<1> HIDE DEF result
<1>2. CASE result.is = "sent"
  <2>1. at'[c] = "upstream" /\ out'[c] = result.out /\ status' = status
    BY <1>2 DEF result
  <2> QED
    BY <1>1, <1>2, <2>1 DEF Served
<1>3. CASE result.is = "blocked"
  <2>1. at'[c] = "closed" /\ status'[c] = "signed"
    BY <1>3 DEF result
  <2> QED
    BY <1>1, <1>3, <2>1 DEF Served, Handles, Holding
<1> QED
  BY <1>2, <1>3 DEF result

(* A connection's own step keeps it so.                                     *)
LEMMA StepIsServed ==
    ASSUME ServiceInv, NEW c \in Conns, Step(c)
    PROVE  Served(c)'
<1> USE DEF Goto, Refuse, Audit, Unanswered, Hold, Handles, Holding
<1>0. config' = config /\ Kept /\ Served(c)
  BY StepChangesOnly DEF ServiceInv
<1>k. /\ at = [d \in Conns |-> at[d]] /\ request = [d \in Conns |-> request[d]]
      /\ status = [d \in Conns |-> status[d]] /\ out = [d \in Conns |-> out[d]]
  BY <1>0 DEF Kept, PerConn
<1>p. \A r \in config.requests[c] : Plain(r)
  BY ClientAssumption DEF ServiceInv
<1>1. ASSUME NEW r \in config.requests[c], Connect(c, r)
      PROVE  Served(c)'
  <2>1. request'[c] = r
    BY <1>1, <1>k DEF Connect, Arrives
  <2>2. at'[c] \in {"closed", "heldConnect", "idle", "opaque"}
    BY <1>1, <1>k DEF Connect, OpenTunnel
  <2>3. status'[c] # "signed"
    BY <1>1, <1>k DEF Connect
  <2> QED
    BY <1>0, <2>1, <2>2, <2>3 DEF Served
<1>2. ASSUME NEW r \in config.requests[c], Submit(c, r)
      PROVE  Served(c)'
  <2>1. request'[c] = r
    BY <1>2, <1>k DEF Submit, Arrives
  <2>2. at'[c] \in {"closed", "heldHost", "reading"}
    BY <1>2, <1>k DEF Submit
  <2>3. status'[c] # "signed"
    BY <1>2, <1>k DEF Submit
  <2> QED
    BY <1>0, <2>1, <2>2, <2>3 DEF Served
<1>3. CASE Inspect(c)
  <2>1. request' = request /\ request[c] \in config.requests[c]
    BY <1>0, <1>3 DEF Inspect, Served
  <2>2. ASSUME NEW before, SendOn(c, Forwarded(request[c]), before)
        PROVE  Served(c)'
    BY <1>0, <1>p, <2>1, <2>2, SentIsServed
  <2>3. ASSUME at'[c] \in {"closed", "heldBody"}, status'[c] # "signed"
        PROVE  Served(c)'
    BY <1>0, <2>1, <2>3 DEF Served
  <2> QED
    BY <1>3, <1>k, <2>2, <2>3 DEF Inspect
<1>4. CASE BodyFails(c)
  BY <1>0, <1>k, <1>4 DEF BodyFails, rest, Served
<1>5. CASE Approved(c)
  <2>1. request' = request /\ request[c] \in config.requests[c]
    BY <1>0, <1>5 DEF Approved, Served
  <2>2. ASSUME NEW before, SendOn(c, Forwarded(request[c]), before)
        PROVE  Served(c)'
    BY <1>0, <1>p, <2>1, <2>2, SentIsServed
  <2>3. ASSUME at'[c] \in {"idle", "opaque", "reading"}, status' = status
        PROVE  Served(c)'
    BY <1>0, <2>1, <2>3 DEF Served
  <2> QED
    BY <1>5, <1>k, <2>2, <2>3 DEF Approved, OpenTunnel
<1>6. CASE Rejected(c)
  BY <1>0, <1>k, <1>6 DEF Rejected, rest, Served
<1>7. ASSUME NEW res \in Responses, Respond(c, res)
      PROVE  Served(c)'
  <2>1. at'[c] = "idle" /\ request' = request /\ status'[c] \in {res.code, "encoded"}
    BY <1>7, <1>k DEF Respond, rest
  <2>2. res.code # "signed"
    BY <1>7 DEF Responses
  <2> QED
    BY <1>0, <2>1, <2>2 DEF Served
<1> QED
  BY <1>1, <1>2, <1>3, <1>4, <1>5, <1>6, <1>7 DEF Step

(* A connection that has sent nothing was sent nothing.                      *)
LEMMA InitServes ==
    ASSUME Init
    PROVE  ServiceInv
BY DEF Init, ServiceInv, Served, Kept, PerConn, Handles, Holding

(* Every step, of this connection or another, keeps what each has sent.      *)
LEMMA ServiceKept ==
    ASSUME ServiceInv, [Next]_vars
    PROVE  ServiceInv'
<1> USE DEF ServiceInv
<1>1. Kept'
  BY KeptStays
<1>2. CASE UNCHANGED perConn
  BY <1>1, <1>2, UntouchedServed DEF Untouched, perConn
<1>3. ASSUME NEW c \in Conns, Step(c), NEW d \in Conns
      PROVE  Served(d)' /\ config' = config
  <2>1. CASE d = c
    BY <1>3, <2>1, StepIsServed, StepChangesOnly
  <2>2. CASE d # c
    BY <1>3, <2>2, StepChangesOnly, Elsewhere, UntouchedServed
  <2> QED
    BY <2>1, <2>2
<1>4. config' = config
  BY WhoSteps, StepChangesOnly DEF perConn
<1> QED
  BY <1>1, <1>2, <1>3, <1>4, WhoSteps

(* What was sent for a request can be taken, for every request a client may  *)
(* make, whatever the policy and whoever else steps.                        *)
THEOREM ServiceInductive == Spec => []ServiceInv
<1>1. Init => ServiceInv
  BY InitServes
<1>2. ServiceInv /\ [Next]_vars => ServiceInv'
  BY ServiceKept
<1> QED
  BY <1>1, <1>2, PTL DEF Spec

(* A request survives its rewriting: what its client signed verifies, its    *)
(* wire is framed once, and the trailers it may keep arrive: mitm.rs,        *)
(* forwarded_request, redacted_request and framed_for_trailers.             *)
THEOREM RewritesAreTaken == Spec => []ServiceCanTakeIt
<1>1. ServiceInv => ServiceCanTakeIt
  BY DEF ServiceInv, Served, Taken, ServiceCanTakeIt, SignaturesHold, FramingSound
<1> QED
  BY <1>1, ServiceInductive, PTL

-----------------------------------------------------------------------------
(* Some numbers, and what is defined by them.                               *)

(* Some natural numbers have a least one.                                    *)
LEMMA LeastExists ==
    ASSUME NEW T \in SUBSET Nat, T # {}
    PROVE  \E x \in T : \A y \in T : x <= y
<1> DEFINE F == {0 .. n : n \in T}
<1>1. F \subseteq FiniteSubsetsOf(Nat) /\ F # {}
  <2>1. \A n \in T : 0 .. n \in FiniteSubsetsOf(Nat)
    BY FS_Interval DEF FiniteSubsetsOf
  <2> QED
    BY <2>1
<1>2. IsWellFoundedOn(StrictSubsetOrdering(Nat), FiniteSubsetsOf(Nat))
  BY FS_StrictSubsetOrderingWellFounded
<1>3. PICK A \in F : \A B \in F : <<B, A>> \notin StrictSubsetOrdering(Nat)
  <2> HIDE DEF F
  <2> QED
    BY <1>1, <1>2, WFMin
<1>4. PICK x \in T : A = 0 .. x
  OBVIOUS
<1>5. ASSUME NEW y \in T, ~ (x <= y)
      PROVE  FALSE
  <2>1. 0 .. y \subseteq 0 .. x /\ x \in 0 .. x /\ x \notin 0 .. y
    BY <1>5
  <2>2. <<0 .. y, 0 .. x>> \in StrictSubsetOrdering(Nat)
    BY <2>1 DEF StrictSubsetOrdering
  <2> QED
    BY <1>3, <1>4, <2>2
<1> QED
  BY <1>5

(* Induction, over a set of numbers.                                         *)
LEMMA Induction ==
    ASSUME NEW T \in SUBSET Nat, 0 \in T, \A n \in T : n + 1 \in T
    PROVE  T = Nat
<1>1. SUFFICES ASSUME Nat \ T # {} PROVE FALSE
  OBVIOUS
<1>2. PICK x \in Nat \ T : \A y \in Nat \ T : x <= y
  BY <1>1, LeastExists
<1>3. x # 0 /\ x - 1 \in Nat /\ x - 1 \notin Nat \ T /\ (x - 1) + 1 = x
  BY <1>2
<1> QED
  BY <1>2, <1>3

(* A recursive definition in which every value is made of values of lower    *)
(* rank defines a function.                                                  *)
LooksDown(G, D, V, rank) ==
    \A f, g \in [D -> V] : \A i \in D :
        (\A j \in D : rank[j] < rank[i] => f[j] = g[j]) => G[<<f, i>>] = G[<<g, i>>]
Unrolls(f, G, D) == \A i \in D : f[i] = G[<<f, i>>]

LEMMA Recursion ==
    ASSUME NEW D, NEW V, V # {}, NEW rank \in [D -> Nat],
           NEW most \in Nat, \A i \in D : rank[i] < most,
           NEW G \in [[D -> V] \X D -> V],
           LooksDown(G, D, V, rank)
    PROVE  \E f \in [D -> V] : Unrolls(f, G, D)
<1> DEFINE HoldsTo(f, n) == \A i \in D : rank[i] < n => f[i] = G[<<f, i>>]
           T == {n \in Nat : \E f \in [D -> V] : HoldsTo(f, n)}
<1>1. 0 \in T
  <2>1. PICK v \in V : TRUE
    OBVIOUS
  <2>2. [i \in D |-> v] \in [D -> V] /\ HoldsTo([i \in D |-> v], 0)
    BY <2>1
  <2> QED
    BY <2>2
<1>2. ASSUME NEW n \in T
      PROVE  n + 1 \in T
  <2>1. PICK f \in [D -> V] : HoldsTo(f, n)
    BY <1>2
  <2> DEFINE g == [i \in D |-> G[<<f, i>>]]
  <2>2. g \in [D -> V] /\ \A i \in D : g[i] = G[<<f, i>>]
    OBVIOUS
  <2> HIDE DEF g
  <2>3. ASSUME NEW i \in D, rank[i] < n + 1
        PROVE  g[i] = G[<<g, i>>]
    <3>1. ASSUME NEW j \in D, rank[j] < rank[i]
          PROVE  f[j] = g[j]
      <4>1. n \in Nat /\ rank[j] \in Nat /\ rank[i] \in Nat
        BY <1>2
      <4>2. rank[j] < n
        BY <2>3, <3>1, <4>1
      <4> QED
        BY <2>1, <2>2, <4>2 DEF LooksDown
    <3> QED
      BY <2>2, <3>1, <2>1 DEF LooksDown
  <2>4. HoldsTo(g, n + 1)
    BY <2>3
  <2> QED
    BY <1>2, <2>2, <2>4
<1>3. most \in T
  <2>1. T \in SUBSET Nat
    OBVIOUS
  <2> HIDE DEF T
  <2>2. T = Nat
    BY <1>1, <1>2, <2>1, Induction
  <2> QED
    BY <2>2
<1>4. PICK f \in [D -> V] : HoldsTo(f, most)
  BY <1>3
<1>5. Unrolls(f, G, D)
  BY <1>4 DEF Unrolls
<1> QED
  BY <1>5

(* What holds of a position whenever it holds of all behind it holds of all. *)
LEMMA Backwards ==
    ASSUME NEW n \in Nat, NEW T,
           \A i \in 1 .. n + 1 : (\A j \in i + 1 .. n + 1 : j \in T) => i \in T
    PROVE  1 .. n + 1 \subseteq T
<1> DEFINE M == {m \in Nat : \A i \in 1 .. n + 1 : n + 1 - i < m => i \in T}
<1>1. M \in SUBSET Nat /\ 0 \in M
  OBVIOUS
<1>2. ASSUME NEW m \in M
      PROVE  m + 1 \in M
  <2>1. ASSUME NEW i \in 1 .. n + 1, n + 1 - i < m + 1
        PROVE  i \in T
    <3>1. \A j \in i + 1 .. n + 1 : j \in T
      BY <1>2, <2>1
    <3> QED
      BY <3>1
  <2> QED
    BY <1>2, <2>1
<1>3. M = Nat
  <2> HIDE DEF M
  <2> QED
    BY <1>1, <1>2, Induction
<1>4. n + 1 \in M
  <2> HIDE DEF M
  <2> QED
    BY <1>3
<1> QED
  BY <1>4

-----------------------------------------------------------------------------
(* Substitution.                                                            *)

Words == Seq(STRING)
Surfaces == DOMAIN Placeholder
Pieces == [text : Words, used : SUBSET Surfaces]

(* What is to be replaced is there.                                         *)
Sought(text, candidates) ==
    candidates \subseteq {o \in (1 .. Len(text)) \X Surfaces : OccursAt(o[2], text, o[1])}

Here(candidates, i) == {o[2] : o \in {c \in candidates : c[1] = i}}

Ended == [text |-> <<>>, used |-> {}]

LEMMA EndedIs == Ended.text = <<>> /\ Ended.used = {} /\ Ended \in Pieces
<1>1. <<>> \in Words /\ {} \in SUBSET Surfaces
  BY DEF Words
<1> QED
  BY <1>1 DEF Ended, Pieces

LEMMA PutIs ==
    ASSUME NEW part, NEW surfaces, NEW behind, NEW x, x = Put(part, surfaces, behind)
    PROVE  x.text = part \o behind.text /\ x.used = surfaces \cup behind.used
BY DEF Put

LEMMA PutIsAPiece ==
    ASSUME NEW part \in Words, NEW surfaces \in SUBSET Surfaces, NEW behind \in Pieces
    PROVE  Put(part, surfaces, behind) \in Pieces
<1>1. behind.text \in Words /\ behind.used \in SUBSET Surfaces
  BY DEF Pieces
<1>2. part \o behind.text \in Words /\ surfaces \cup behind.used \in SUBSET Surfaces
  BY <1>1 DEF Words
<1> QED
  BY <1>2 DEF Put, Pieces

Split(text, candidates, f, i) ==
    LET here == Here(candidates, i)
        s == Longest(here)
    IN  IF i > Len(text) THEN Ended
        ELSE IF here = {} THEN Put(<<text[i]>>, {}, f[i + 1])
        ELSE Put(Placeholder[s], {s}, f[i + Len(s)])

(* The words a detector matches and those that stand for them.               *)
LEMMA SurfacesAreWords ==
    ASSUME NEW s \in Surfaces
    PROVE  /\ s \in Words /\ Len(s) \in Nat \ {0} /\ Len(Placeholder[s]) \in Nat \ {0}
           /\ Placeholder[s] \in Words
           /\ \A i \in DOMAIN s : s[i] \notin {"quote", "backslash"}
           /\ \A i \in DOMAIN Placeholder[s] : Placeholder[s][i] \notin {"quote", "backslash"}
<1> DEFINE C == STRING \ {"quote", "backslash"}
<1>1. s \in Seq(C) \ {<<>>} /\ Placeholder[s] \in Seq(C) \ {<<>>}
  BY PlaceholdersStandOut DEF Surfaces
<1>2. C \subseteq STRING /\ "quote" \notin C /\ "backslash" \notin C
  OBVIOUS
<1> HIDE DEF C
<1>3. ASSUME NEW w \in Seq(C) \ {<<>>}
      PROVE  /\ w \in Words /\ Len(w) \in Nat \ {0}
             /\ \A i \in DOMAIN w : w[i] \notin {"quote", "backslash"}
  <2>1. Len(w) \in Nat /\ w = [i \in 1 .. Len(w) |-> w[i]] /\ \A i \in 1 .. Len(w) : w[i] \in C
    OBVIOUS
  <2>2. w \in Words
    BY <1>2, <2>1 DEF Words
  <2>3. Len(w) # 0
    BY <1>3
  <2> QED
    BY <1>2, <2>1, <2>2, <2>3
<1> QED
  BY <1>1, <1>3

(* The longest of the words found at a place is one of them, and the text    *)
(* goes on behind it.                                                       *)
LEMMA LongestIsFound ==
    ASSUME NEW text \in Words, NEW candidates, Sought(text, candidates),
           NEW i \in 1 .. Len(text), Here(candidates, i) # {}
    PROVE  LET s == Longest(Here(candidates, i))
           IN  /\ s \in Here(candidates, i) /\ s \in Surfaces
               /\ i + Len(s) \in i + 1 .. Len(text) + 1
               /\ OccursAt(s, text, i)
<1> DEFINE here == Here(candidates, i)
           lacks == {Len(text) - Len(t) : t \in here}
<1>1. ASSUME NEW t \in here
      PROVE  t \in Surfaces /\ OccursAt(t, text, i) /\ i + Len(t) \in i + 1 .. Len(text) + 1
  <2>1. t \in Surfaces /\ OccursAt(t, text, i)
    BY DEF Here, Sought
  <2>2. Len(t) \in Nat \ {0} /\ i + Len(t) - 1 <= Len(text) /\ Len(text) \in Nat
    BY <2>1, SurfacesAreWords DEF OccursAt, Words
  <2> QED
    BY <2>1, <2>2
<1>2. Len(text) \in Nat /\ \A t \in here : Len(t) \in 1 .. Len(text)
  BY <1>1, SurfacesAreWords DEF Words
<1> HIDE DEF here
<1>3. lacks \in SUBSET Nat /\ lacks # {}
  BY <1>2 DEF here
<1>4. PICK x \in lacks : \A y \in lacks : x <= y
  <2> HIDE DEF lacks
  <2> QED
    BY <1>3, LeastExists
<1>5. PICK s \in here : \A t \in here : Len(t) <= Len(s)
  <2>1. PICK s \in here : x = Len(text) - Len(s)
    BY DEF lacks
  <2>2. \A t \in here : x <= Len(text) - Len(t)
    BY <1>4 DEF lacks
  <2>3. \A t \in here : Len(t) <= Len(s)
    BY <1>2, <2>1, <2>2
  <2> QED
    BY <2>3
<1>6. Longest(here) \in here
  BY <1>5 DEF Longest
<1> QED
  BY <1>1, <1>6 DEF here

(* The recursion of Substitute, position by position.                       *)
Rest(f, i) == f[i].text
Used(f, i) == f[i].used

Parts(text, candidates, f) ==
    /\ f \in [1 .. Len(text) + 1 -> Pieces]
    /\ Rest(f, Len(text) + 1) = <<>> /\ Used(f, Len(text) + 1) = {}
    /\ \A i \in 1 .. Len(text) :
          Here(candidates, i) = {} => /\ Rest(f, i) = <<text[i]>> \o Rest(f, i + 1)
                                      /\ Used(f, i) = Used(f, i + 1)
    /\ \A i \in 1 .. Len(text) : Here(candidates, i) # {} =>
          LET s == Longest(Here(candidates, i))
          IN  /\ Rest(f, i) = Placeholder[s] \o Rest(f, i + Len(s))
              /\ Used(f, i) = {s} \cup Used(f, i + Len(s))

LEMMA SplitIsAPiece ==
    ASSUME NEW text \in Words, NEW candidates, Sought(text, candidates),
           NEW f \in [1 .. Len(text) + 1 -> Pieces], NEW i \in 1 .. Len(text) + 1
    PROVE  Split(text, candidates, f, i) \in Pieces
<1> DEFINE s == Longest(Here(candidates, i))
<1>0. Len(text) \in Nat
  BY DEF Words
<1>1. CASE i > Len(text)
  BY <1>1, EndedIs DEF Split
<1>2. CASE ~ (i > Len(text)) /\ Here(candidates, i) = {}
  <2>1. f[i + 1] \in Pieces /\ <<text[i]>> \in Words /\ {} \in SUBSET Surfaces
    BY <1>0, <1>2 DEF Words
  <2> QED
    BY <1>2, <2>1, PutIsAPiece DEF Split
<1>3. CASE ~ (i > Len(text)) /\ Here(candidates, i) # {}
  <2>1. s \in Surfaces /\ i + Len(s) \in 1 .. Len(text) + 1
    BY <1>0, <1>3, LongestIsFound
  <2>2. f[i + Len(s)] \in Pieces /\ Placeholder[s] \in Words /\ {s} \in SUBSET Surfaces
    BY <2>1, SurfacesAreWords
  <2>3. Split(text, candidates, f, i) = Put(Placeholder[s], {s}, f[i + Len(s)])
    BY <1>3 DEF Split
  <2> HIDE DEF s
  <2> QED
    BY <2>2, <2>3, PutIsAPiece
<1> QED
  BY <1>1, <1>2, <1>3


LEMMA SplitLooksAhead ==
    ASSUME NEW text \in Words, NEW candidates, Sought(text, candidates), NEW f, NEW g,
           NEW i \in 1 .. Len(text) + 1, \A j \in i + 1 .. Len(text) + 1 : f[j] = g[j]
    PROVE  Split(text, candidates, f, i) = Split(text, candidates, g, i)
<1>0. Len(text) \in Nat
  BY DEF Words
<1>1. CASE i > Len(text)
  BY <1>1 DEF Split
<1>2. CASE ~ (i > Len(text))
  <2>1. i \in 1 .. Len(text) /\ f[i + 1] = g[i + 1]
    BY <1>0, <1>2
  <2>2. Here(candidates, i) # {} =>
           f[i + Len(Longest(Here(candidates, i)))] = g[i + Len(Longest(Here(candidates, i)))]
    BY <1>0, <2>1, LongestIsFound
  <2> QED
    BY <1>2, <2>1, <2>2 DEF Split
<1> QED
  BY <1>1, <1>2

LEMMA SplitsExist ==
    ASSUME NEW text \in Words, NEW candidates, Sought(text, candidates)
    PROVE  \E f \in [1 .. Len(text) + 1 -> Pieces] :
              f = [i \in 1 .. Len(text) + 1 |-> Split(text, candidates, f, i)]
<1> DEFINE n == Len(text)
           D == 1 .. n + 1
           rank == [i \in D |-> n + 1 - i]
           G == [x \in [D -> Pieces] \X D |-> Split(text, candidates, x[1], x[2])]
<1>0. n \in Nat
  BY DEF Words
<1>1. Pieces # {}
  BY EndedIs
<1>2. rank \in [D -> Nat] /\ n + 1 \in Nat /\ \A i \in D : rank[i] < n + 1
  BY <1>0
<1>3. G \in [[D -> Pieces] \X D -> Pieces]
  <2>1. \A x \in [D -> Pieces] \X D : Split(text, candidates, x[1], x[2]) \in Pieces
    BY SplitIsAPiece
  <2> QED
    BY <2>1
<1>4. ASSUME NEW f \in [D -> Pieces], NEW g \in [D -> Pieces], NEW i \in D,
             \A j \in D : rank[j] < rank[i] => f[j] = g[j]
      PROVE  Split(text, candidates, f, i) = Split(text, candidates, g, i)
  <2>1. \A j \in i + 1 .. n + 1 : f[j] = g[j]
    BY <1>0, <1>4
  <2> QED
    BY <2>1, SplitLooksAhead
<1>5. \A f \in [D -> Pieces], i \in D : G[<<f, i>>] = Split(text, candidates, f, i)
  OBVIOUS
<1>6. LooksDown(G, D, Pieces, rank)
  <2> HIDE DEF G, rank, D
  <2> QED
    BY <1>4, <1>5 DEF LooksDown
<1>7. PICK f \in [D -> Pieces] : Unrolls(f, G, D)
  <2> HIDE DEF G, rank, D, n
  <2> QED
    BY <1>0, <1>1, <1>2, <1>3, <1>6, Recursion
<1>8. f = [i \in D |-> Split(text, candidates, f, i)]
  BY <1>5, <1>7 DEF Unrolls
<1> QED
  BY <1>8

(* Substitute follows some parts of the text to its end.                     *)
LEMMA SubstituteHasParts ==
    ASSUME NEW text \in Words, NEW candidates, Sought(text, candidates)
    PROVE  \E f : Parts(text, candidates, f) /\ Substitute(text, candidates) = f[1]
<1> DEFINE Is(f) == f = [i \in 1 .. Len(text) + 1 |-> Split(text, candidates, f, i)]
<1>0. Len(text) \in Nat
  BY DEF Words
<1>1. \E f : Is(f)
  BY SplitsExist
<1>2. PICK f : Is(f) /\ Substitute(text, candidates) = f[1]
  <2>1. Substitute(text, candidates) = (CHOOSE f : Is(f))[1]
    BY DEF Substitute, Split, Ended, Here
  <2> HIDE DEF Is
  <2> QED
    BY <1>1, <2>1
<1>3. ASSUME NEW i \in 1 .. Len(text) + 1
      PROVE  f[i] = Split(text, candidates, f, i)
  BY <1>2
<1>4. PICK h \in [1 .. Len(text) + 1 -> Pieces] : TRUE
  BY SplitsExist
<1> DEFINE T == {i \in 1 .. Len(text) + 1 : f[i] \in Pieces}
<1>5. ASSUME NEW i \in 1 .. Len(text) + 1, \A j \in i + 1 .. Len(text) + 1 : j \in T
      PROVE  i \in T
  <2> DEFINE g == [j \in 1 .. Len(text) + 1 |-> IF j > i THEN f[j] ELSE h[j]]
  <2>1. g \in [1 .. Len(text) + 1 -> Pieces] /\ \A j \in i + 1 .. Len(text) + 1 : g[j] = f[j]
    BY <1>0, <1>5
  <2> HIDE DEF g
  <2>2. f[i] = Split(text, candidates, g, i)
    BY <1>3, <2>1, SplitLooksAhead
  <2> QED
    BY <2>1, <2>2, SplitIsAPiece
<1>6. 1 .. Len(text) + 1 \subseteq T
  <2> HIDE DEF T
  <2> QED
    BY <1>0, <1>5, Backwards
<1>7. f \in [1 .. Len(text) + 1 -> Pieces]
  <2>1. f = [i \in 1 .. Len(text) + 1 |-> f[i]]
    BY <1>2
  <2>2. \A i \in 1 .. Len(text) + 1 : f[i] \in Pieces
    BY <1>6
  <2> QED
    BY <2>1, <2>2, Zenon
<1>8. f[Len(text) + 1].text = <<>> /\ f[Len(text) + 1].used = {}
  <2>1. Len(text) + 1 > Len(text) /\ Len(text) + 1 \in 1 .. Len(text) + 1
    BY <1>0
  <2> QED
    BY <1>3, <2>1, EndedIs DEF Split
<1>9. ASSUME NEW i \in 1 .. Len(text), Here(candidates, i) = {}
      PROVE  f[i].text = <<text[i]>> \o f[i + 1].text /\ f[i].used = f[i + 1].used
  <2>1. f[i] = Split(text, candidates, f, i) /\ ~ (i > Len(text))
    BY <1>0, <1>3
  <2> DEFINE part == <<text[i]>>
             behind == f[i + 1]
  <2>2. f[i] = Put(part, {}, behind)
    BY <1>9, <2>1 DEF Split
  <2>3. f[i].text = part \o behind.text /\ f[i].used = {} \cup behind.used
    <3> HIDE DEF part, behind
    <3> QED
      BY <2>2 DEF Put
  <2> QED
    BY <2>3
<1>10. ASSUME NEW i \in 1 .. Len(text), Here(candidates, i) # {}
       PROVE  LET s == Longest(Here(candidates, i))
              IN  /\ f[i].text = Placeholder[s] \o f[i + Len(s)].text
                  /\ f[i].used = {s} \cup f[i + Len(s)].used
  <2>1. f[i] = Split(text, candidates, f, i) /\ ~ (i > Len(text))
    BY <1>0, <1>3
  <2> DEFINE s == Longest(Here(candidates, i))
             part == Placeholder[s]
             put == {s}
             behind == f[i + Len(s)]
  <2>2. f[i] = Put(part, put, behind)
    BY <1>10, <2>1 DEF Split
  <2>3. f[i].text = part \o behind.text /\ f[i].used = put \cup behind.used
    <3> HIDE DEF part, put, behind
    <3> QED
      BY <2>2 DEF Put
  <2> QED
    BY <2>3
<1>11. Parts(text, candidates, f)
  BY <1>7, <1>8, <1>9, <1>10 DEF Parts, Rest, Used
<1> QED
  BY <1>2, <1>11

-----------------------------------------------------------------------------
(* Words and where they occur.                                              *)

LEMMA WordsJoin ==
    ASSUME NEW a \in Words, NEW b \in Words
    PROVE  /\ a \o b \in Words /\ Len(a) \in Nat /\ Len(b) \in Nat
           /\ Len(a \o b) = Len(a) + Len(b)
           /\ \A k \in 1 .. Len(a) : (a \o b)[k] = a[k]
           /\ \A k \in 1 .. Len(b) : (a \o b)[Len(a) + k] = b[k]
BY DEF Words

LEMMA WordsJoinInTurn ==
    ASSUME NEW a \in Words, NEW b \in Words, NEW c \in Words
    PROVE  (a \o b) \o c = a \o (b \o c)
BY DEF Words

LEMMA SameWord ==
    ASSUME NEW a \in Words, NEW b \in Words, Len(a) = Len(b), \A k \in 1 .. Len(a) : a[k] = b[k]
    PROVE  a = b
BY DEF Words

LEMMA PartOfWord ==
    ASSUME NEW w \in Words, NEW i \in 1 .. Len(w) + 1, NEW j \in i - 1 .. Len(w)
    PROVE  /\ SubSeq(w, i, j) \in Words /\ Len(SubSeq(w, i, j)) = j - i + 1
           /\ \A k \in 1 .. j - i + 1 : SubSeq(w, i, j)[k] = w[i + k - 1]
BY DEF Words

(* A word occurs where its characters are.                                  *)
LEMMA OccursThere ==
    ASSUME NEW w \in Words, NEW text \in Words, NEW i \in Nat \ {0}
    PROVE  OccursAt(w, text, i) <=> /\ i + Len(w) - 1 <= Len(text)
                                    /\ \A k \in 1 .. Len(w) : text[i + k - 1] = w[k]
<1>0. Len(w) \in Nat /\ Len(text) \in Nat
  BY DEF Words
<1>1. CASE i + Len(w) - 1 <= Len(text)
  <2> DEFINE part == SubSeq(text, i, i + Len(w) - 1)
  <2>1. i \in 1 .. Len(text) + 1 /\ i + Len(w) - 1 \in i - 1 .. Len(text)
    BY <1>0, <1>1
  <2>2. part \in Words /\ Len(part) = Len(w) /\ \A k \in 1 .. Len(w) : part[k] = text[i + k - 1]
    BY <1>0, <2>1, PartOfWord
  <2>3. OccursAt(w, text, i) <=> part = w
    BY <1>1 DEF OccursAt
  <2> HIDE DEF part
  <2> QED
    BY <1>1, <2>2, <2>3, SameWord
<1>2. CASE ~ (i + Len(w) - 1 <= Len(text))
  BY <1>2 DEF OccursAt
<1> QED
  BY <1>1, <1>2

(* Two words found with a character in common agree on it.                   *)
LEMMA Collide ==
    ASSUME NEW a \in Words, NEW b \in Words, NEW text \in Words,
           NEW i \in Nat \ {0}, NEW j \in Nat \ {0}, OccursAt(a, text, i), OccursAt(b, text, j),
           i <= j + Len(b) - 1, j <= i + Len(a) - 1
    PROVE  i - j \in Overlaps(a, b)
<1>0. Len(a) \in Nat /\ Len(b) \in Nat /\ DOMAIN a = 1 .. Len(a) /\ DOMAIN b = 1 .. Len(b)
  BY DEF Words
<1>1. /\ \A k \in 1 .. Len(a) : text[i + k - 1] = a[k]
      /\ \A k \in 1 .. Len(b) : text[j + k - 1] = b[k]
  BY OccursThere
<1>2. i - j \in 1 - Len(a) .. Len(b) - 1
  BY <1>0
<1>3. ASSUME NEW k \in 1 .. Len(a), k + (i - j) \in 1 .. Len(b)
      PROVE  a[k] = b[k + (i - j)]
  <2>1. j + (k + (i - j)) - 1 = i + k - 1
    BY <1>0
  <2> QED
    BY <1>1, <1>3, <2>1
<1> QED
  BY <1>0, <1>2, <1>3 DEF Overlaps

(* From a position on, the text is copied up to the next placeholder or to    *)
(* the end.                                                                 *)
RunsTo(text, candidates, f, i, m) ==
    /\ m \in i .. Len(text) + 1 /\ m - i <= Len(Rest(f, i))
    /\ \A j \in i .. m - 1 : Here(candidates, j) = {} /\ Rest(f, i)[j - i + 1] = text[j]
    /\ \/ m = Len(text) + 1 /\ Len(Rest(f, i)) = m - i
       \/ /\ m <= Len(text) /\ Here(candidates, m) # {}
          /\ \E s \in Surfaces : OccursAt(Placeholder[s], Rest(f, i), m - i + 1)

LEMMA Runs ==
    ASSUME NEW text \in Words, NEW candidates, Sought(text, candidates), NEW f,
           Parts(text, candidates, f), NEW i \in 1 .. Len(text) + 1
    PROVE  \E m : RunsTo(text, candidates, f, i, m)
<1> DEFINE n == Len(text)
           T == {j \in 1 .. n + 1 : \E m : RunsTo(text, candidates, f, j, m)}
<1>0. n \in Nat /\ \A j \in 1 .. n + 1 : f[j] \in Pieces /\ Rest(f, j) \in Words
  BY DEF Words, Parts, Pieces, Rest
<1>1. ASSUME NEW j \in 1 .. n + 1, \A k \in j + 1 .. n + 1 : k \in T
      PROVE  j \in T
  <2>1. CASE j = n + 1
    <3>1. Rest(f, j) = <<>> /\ Len(<<>>) = 0
      BY <2>1 DEF Parts
    <3>2. RunsTo(text, candidates, f, j, j)
      BY <1>0, <2>1, <3>1 DEF RunsTo
    <3> QED
      BY <3>2
  <2>2. CASE j <= n /\ Here(candidates, j) = {}
    <3>1. j + 1 \in 1 .. n + 1 /\ j \in 1 .. n /\ j + 1 \in j + 1 .. n + 1
      BY <1>0, <2>2
    <3>2. PICK m : RunsTo(text, candidates, f, j + 1, m)
      BY <1>1, <3>1
    <3> DEFINE a == <<text[j]>>
               b == Rest(f, j + 1)
               c == Rest(f, j)
    <3>3. a \in Words /\ Len(a) = 1 /\ a[1] = text[j]
      BY <3>1 DEF Words
    <3>4. b \in Words /\ c \in Words /\ c = a \o b
      BY <1>0, <2>2, <3>1 DEF Parts
    <3>5. Len(c) = 1 + Len(b) /\ c[1] = text[j] /\ \A k \in 1 .. Len(b) : c[k + 1] = b[k]
      <4> HIDE DEF a, b, c
      <4>1. /\ Len(c) = Len(a) + Len(b) /\ Len(b) \in Nat
            /\ \A k \in 1 .. Len(a) : c[k] = a[k]
            /\ \A k \in 1 .. Len(b) : c[Len(a) + k] = b[k]
        BY <3>3, <3>4, WordsJoin
      <4> QED
        BY <3>3, <4>1
    <3>6. m \in j + 1 .. n + 1 /\ m - (j + 1) <= Len(b)
          /\ \A k \in j + 1 .. m - 1 : Here(candidates, k) = {} /\ b[k - (j + 1) + 1] = text[k]
      BY <3>2 DEF RunsTo
    <3>7. \A k \in j .. m - 1 : Here(candidates, k) = {} /\ c[k - j + 1] = text[k]
      <4> HIDE DEF a, b, c
      <4>1. ASSUME NEW k \in j + 1 .. m - 1
            PROVE  Here(candidates, k) = {} /\ c[k - j + 1] = text[k]
        <5>0. Len(b) \in Nat
          BY <3>4, WordsJoin
        <5>1. k - (j + 1) + 1 = k - j /\ k - j \in 1 .. Len(b)
          BY <1>0, <3>6, <4>1, <5>0
        <5>2. b[k - j] = text[k]
          BY <3>6, <4>1, <5>1
        <5>3. c[(k - j) + 1] = b[k - j]
          BY <3>5, <5>1
        <5>4. Here(candidates, k) = {}
          BY <3>6, <4>1
        <5> QED
          BY <5>2, <5>3, <5>4, Zenon
      <4>2. Here(candidates, j) = {} /\ c[j - j + 1] = text[j]
        <5>1. j - j + 1 = 1
          BY <1>0
        <5> QED
          BY <2>2, <3>5, <5>1
      <4>3. j .. m - 1 \subseteq {j} \cup (j + 1 .. m - 1)
        BY <1>0, <3>6
      <4> QED
        BY <4>1, <4>2, <4>3
    <3>8. ASSUME NEW s \in Surfaces, OccursAt(Placeholder[s], b, m - (j + 1) + 1)
          PROVE  OccursAt(Placeholder[s], c, m - j + 1)
      <4> HIDE DEF a, b, c
      <4> DEFINE p == Placeholder[s]
      <4>1. p \in Words /\ Len(p) \in Nat \ {0}
        BY SurfacesAreWords
      <4> HIDE DEF p
      <4>2. m - j \in Nat \ {0} /\ m - (j + 1) + 1 = m - j /\ OccursAt(p, b, m - j)
        BY <1>0, <3>6, <3>8 DEF p
      <4>3. m - j + Len(p) - 1 <= Len(b) /\ \A k \in 1 .. Len(p) : b[m - j + k - 1] = p[k]
        BY <3>4, <4>1, <4>2, OccursThere
      <4>4. Len(b) \in Nat
        BY <3>4, WordsJoin
      <4>5. m - j + 1 + Len(p) - 1 <= Len(c)
        BY <3>5, <4>1, <4>2, <4>3, <4>4
      <4>6. ASSUME NEW k \in 1 .. Len(p)
            PROVE  c[m - j + 1 + k - 1] = p[k]
        <5>1. m - j + k - 1 \in 1 .. Len(b) /\ m - j + 1 + k - 1 = (m - j + k - 1) + 1
          BY <4>1, <4>2, <4>3, <4>4
        <5> QED
          BY <3>5, <4>3, <5>1
      <4>7. m - j + 1 \in Nat \ {0}
        BY <4>2
      <4>8. OccursAt(p, c, m - j + 1)
        BY <3>4, <4>1, <4>5, <4>6, <4>7, OccursThere
      <4> QED
        BY <4>8 DEF p
    <3>9. \/ m = n + 1 /\ Len(b) = m - (j + 1)
          \/ /\ m <= n /\ Here(candidates, m) # {}
             /\ \E s \in Surfaces : OccursAt(Placeholder[s], b, m - (j + 1) + 1)
      BY <3>2 DEF RunsTo
    <3>10. Len(b) \in Nat /\ m - j <= Len(c) /\ (Len(b) = m - (j + 1) => Len(c) = m - j)
      <4>1. Len(b) \in Nat
        BY <3>4, WordsJoin
      <4> HIDE DEF a, b, c
      <4> QED
        BY <1>0, <3>5, <3>6, <4>1
    <3>11. RunsTo(text, candidates, f, j, m)
      BY <3>6, <3>7, <3>8, <3>9, <3>10 DEF RunsTo
    <3> QED
      BY <3>11
  <2>3. CASE j <= n /\ Here(candidates, j) # {}
    <3> DEFINE s == Longest(Here(candidates, j))
    <3>1. j \in 1 .. n /\ j \in j .. n + 1 /\ j - j = 0 /\ j - j + 1 = 1 /\ j .. j - 1 = {}
      BY <1>0, <2>3
    <3>2. s \in Surfaces /\ j + Len(s) \in 1 .. n + 1
      BY <1>0, <2>3, <3>1, LongestIsFound
    <3> DEFINE a == Placeholder[s]
               b == Rest(f, j + Len(s))
               c == Rest(f, j)
    <3>3. a \in Words /\ b \in Words /\ c \in Words /\ c = a \o b
      BY <1>0, <2>3, <3>1, <3>2, SurfacesAreWords DEF Parts
    <3>4. OccursAt(a, c, 1) /\ 0 <= Len(c)
      <4> HIDE DEF a, b, c
      <4>1. /\ Len(c) = Len(a) + Len(b) /\ Len(b) \in Nat /\ Len(a) \in Nat
            /\ \A k \in 1 .. Len(a) : c[k] = a[k]
        BY <3>3, WordsJoin
      <4>2. 1 + Len(a) - 1 <= Len(c) /\ \A k \in 1 .. Len(a) : c[1 + k - 1] = a[k]
        BY <4>1
      <4>3. 1 \in Nat \ {0} /\ 0 <= Len(c)
        BY <4>1
      <4> QED
        BY <3>3, <4>2, <4>3, OccursThere, Zenon
    <3> HIDE DEF s
    <3>5. RunsTo(text, candidates, f, j, j)
      BY <2>3, <3>1, <3>2, <3>4 DEF RunsTo
    <3> QED
      BY <3>5
  <2> QED
    BY <1>0, <2>1, <2>2, <2>3
<1>2. 1 .. n + 1 \subseteq T
  <2> HIDE DEF T
  <2> QED
    BY <1>0, <1>1, Backwards
<1> QED
  BY <1>2

-----------------------------------------------------------------------------
(* The JSON lexer.                                                          *)

LexerStates == {"outside", "inside", "escaped"}

LEMMA TrackedIsAState ==
    \A state, char : Tracked(state, char) \in LexerStates
BY DEF Tracked, LexerStates

(* JsonState is its recursion.                                              *)
LEMMA JsonStates ==
    ASSUME NEW text \in Words
    PROVE  /\ JsonState(text)[0] = "outside"
           /\ \A i \in 1 .. Len(text) : JsonState(text)[i] = Tracked(JsonState(text)[i - 1], text[i])
<1> DEFINE n == Len(text)
           D == 0 .. n
           rank == [i \in D |-> i]
           At(f, i) == IF i = 0 THEN "outside" ELSE Tracked(f[i - 1], text[i])
           G == [x \in [D -> LexerStates] \X D |-> At(x[1], x[2])]
           Is(f) == f = [i \in D |-> At(f, i)]
<1>0. n \in Nat
  BY DEF Words
<1>1. LexerStates # {} /\ "outside" \in LexerStates
  BY DEF LexerStates
<1>2. rank \in [D -> Nat] /\ n + 1 \in Nat /\ \A i \in D : rank[i] < n + 1
  BY <1>0
<1>3. G \in [[D -> LexerStates] \X D -> LexerStates]
  BY <1>1, TrackedIsAState
<1>4. \A f \in [D -> LexerStates], i \in D : G[<<f, i>>] = At(f, i)
  OBVIOUS
<1>5. LooksDown(G, D, LexerStates, rank)
  <2>1. ASSUME NEW f \in [D -> LexerStates], NEW g \in [D -> LexerStates], NEW i \in D,
               \A j \in D : rank[j] < rank[i] => f[j] = g[j]
        PROVE  At(f, i) = At(g, i)
    <3>1. i # 0 => f[i - 1] = g[i - 1]
      BY <1>0, <2>1
    <3> QED
      BY <3>1
  <2> HIDE DEF G, rank, D, At
  <2> QED
    BY <1>4, <2>1 DEF LooksDown
<1>6. PICK f \in [D -> LexerStates] : Unrolls(f, G, D)
  <2> HIDE DEF G, rank, D, n
  <2> QED
    BY <1>0, <1>1, <1>2, <1>3, <1>5, Recursion
<1>7. Is(f)
  BY <1>4, <1>6 DEF Unrolls
<1>8. JsonState(text) = (CHOOSE h : Is(h))
  BY DEF JsonState
<1>9. Is(JsonState(text))
  <2> HIDE DEF Is
  <2> QED
    BY <1>7, <1>8
<1> DEFINE g == JsonState(text)
<1>10. \A i \in D : g[i] = At(g, i)
  <2> HIDE DEF g
  <2>1. Is(g)
    BY <1>9 DEF g
  <2> QED
    BY <2>1
<1> QED
  BY <1>0, <1>10

(* Behind a word without quotes and backslashes the lexer is in the string   *)
(* it was in.                                                               *)
Passed(state) == IF state = "escaped" THEN "inside" ELSE state

LEMMA TrackedWord ==
    ASSUME NEW w \in Words, Len(w) > 0, NEW text \in Words, NEW i \in Nat \ {0},
           \A k \in 1 .. Len(w) : w[k] \notin {"quote", "backslash"}, OccursAt(w, text, i)
    PROVE  JsonState(text)[i + Len(w) - 1] = Passed(JsonState(text)[i - 1])
<1> DEFINE J == JsonState(text)
           T == {k \in Nat : k + 1 <= Len(w) => J[i + k] = Passed(J[i - 1])}
<1>0. Len(w) \in Nat /\ Len(text) \in Nat
  BY DEF Words
<1>1. /\ i + Len(w) - 1 <= Len(text)
      /\ \A k \in 1 .. Len(w) : text[i + k - 1] = w[k]
  BY OccursThere
<1>2. \A k \in 1 .. Len(text) : J[k] = Tracked(J[k - 1], text[k]) /\ J[k] \in LexerStates
  BY JsonStates, TrackedIsAState
<1>3. J[0] = "outside"
  BY JsonStates
<1> HIDE DEF J
<1>4. ASSUME NEW state \in LexerStates, NEW c, c \notin {"quote", "backslash"}
      PROVE  Tracked(state, c) = Passed(state) /\ Passed(Passed(state)) = Passed(state)
  BY <1>4 DEF Tracked, Passed, LexerStates
<1>5. 0 \in T
  <2>1. i \in 1 .. Len(text) /\ 1 \in 1 .. Len(w) /\ i + 1 - 1 = i
    BY <1>0, <1>1
  <2>2. text[i] = w[1]
    BY <1>1, <2>1
  <2>3. i - 1 = 0 \/ i - 1 \in 1 .. Len(text)
    BY <1>0, <2>1
  <2>4. J[i - 1] \in LexerStates
    BY <1>2, <1>3, <2>3 DEF LexerStates
  <2>5. J[i] = Passed(J[i - 1])
    BY <1>2, <1>4, <2>1, <2>2, <2>4
  <2> QED
    BY <2>5
<1>6. ASSUME NEW k \in T
      PROVE  k + 1 \in T
  <2>1. SUFFICES ASSUME k + 1 + 1 <= Len(w) PROVE J[i + (k + 1)] = Passed(J[i - 1])
    OBVIOUS
  <2>2. k \in Nat /\ J[i + k] = Passed(J[i - 1])
    BY <1>0, <2>1
  <2>3. i + (k + 1) \in 1 .. Len(text) /\ i + (k + 1) - 1 = i + k /\ i + k \in 1 .. Len(text)
    BY <1>0, <1>1, <2>1, <2>2
  <2>4. k + 2 \in 1 .. Len(w) /\ i + (k + 2) - 1 = i + (k + 1)
    BY <1>0, <2>1, <2>2
  <2>5. text[i + (k + 1)] = w[k + 2]
    BY <1>1, <2>4
  <2>6. J[i + (k + 1)] = Tracked(J[i + k], w[k + 2]) /\ J[i + k] \in LexerStates
    BY <1>2, <2>3, <2>5
  <2>7. J[i + (k + 1)] = Passed(J[i + k])
    BY <1>4, <2>4, <2>6
  <2>8. J[i - 1] \in LexerStates \/ i - 1 = 0
    BY <1>0, <1>1, <1>2
  <2> QED
    BY <1>3, <2>2, <2>7, <2>8 DEF Passed, LexerStates
<1>7. T = Nat
  <2>1. T \in SUBSET Nat
    OBVIOUS
  <2> HIDE DEF T
  <2> QED
    BY <1>5, <1>6, <2>1, Induction
<1>8. Len(w) - 1 \in T
  <2>1. Len(w) - 1 \in Nat
    BY <1>0
  <2> HIDE DEF T
  <2> QED
    BY <1>7, <2>1
<1>9. i + (Len(w) - 1) = i + Len(w) - 1 /\ Len(w) - 1 + 1 <= Len(w)
  BY <1>0
<1> QED
  BY <1>8, <1>9 DEF J

-----------------------------------------------------------------------------
(* What is left of a text that was substituted.                             *)

(* A prefix of the outcome that stands for the text before a position, with  *)
(* the lexer in the same state behind both.                                 *)
StandsFor(text, f, pre, i) ==
    /\ pre \in Words /\ Rest(f, 1) = pre \o Rest(f, i)
    /\ JsonState(Rest(f, 1))[Len(pre)] = JsonState(text)[i - 1]

LEMMA StandsAfterACopy ==
    ASSUME NEW text \in Words, NEW candidates, Sought(text, candidates), NEW f,
           Parts(text, candidates, f), NEW i \in 1 .. Len(text), Here(candidates, i) = {},
           NEW pre, StandsFor(text, f, pre, i)
    PROVE  /\ StandsFor(text, f, pre \o <<text[i]>>, i + 1)
           /\ Len(pre \o <<text[i]>>) = Len(pre) + 1
           /\ Rest(f, 1)[Len(pre) + 1] = text[i] /\ Len(pre) + 1 \in 1 .. Len(Rest(f, 1))
<1> DEFINE given == Rest(f, 1)
           a == <<text[i]>>
           b == Rest(f, i + 1)
           c == Rest(f, i)
<1>0. Len(text) \in Nat /\ i + 1 \in 1 .. Len(text) + 1
  BY DEF Words
<1>1. /\ given \in Words /\ b \in Words /\ c = a \o b
      /\ given = pre \o c /\ pre \in Words
  <2>1. f[1] \in Pieces /\ f[i + 1] \in Pieces
    BY <1>0 DEF Parts
  <2> QED
    BY <2>1 DEF Pieces, Rest, Parts, StandsFor
<1>2. a \in Words /\ Len(a) = 1 /\ a[1] = text[i]
  BY DEF Words
<1>3. JsonState(given)[Len(pre)] = JsonState(text)[i - 1]
  BY DEF StandsFor
<1> HIDE DEF given, a, b, c
<1>4. given = (pre \o a) \o b /\ pre \o a \in Words
  <2>1. (pre \o a) \o b = pre \o (a \o b)
    <3>1. pre \in Words /\ a \in Words /\ b \in Words
      BY <1>1, <1>2
    <3> QED
      BY <3>1, WordsJoinInTurn
  <2>2. pre \o a \in Words
    BY <1>1, <1>2, WordsJoin, Zenon
  <2> QED
    BY <1>1, <2>1, <2>2, Zenon
<1>5. /\ Len(pre \o a) = Len(pre) + 1 /\ Len(pre) \in Nat /\ Len(b) \in Nat
      /\ (pre \o a)[Len(pre) + 1] = text[i]
  <2>1. 1 \in 1 .. Len(a)
    BY <1>2
  <2>2. /\ Len(pre \o a) = Len(pre) + Len(a) /\ Len(pre) \in Nat /\ Len(b) \in Nat
        /\ \A k \in 1 .. Len(a) : (pre \o a)[Len(pre) + k] = a[k]
    BY <1>1, <1>2, WordsJoin, Zenon
  <2> QED
    BY <1>2, <2>1, <2>2
<1>6. Len(given) = Len(pre \o a) + Len(b) /\ \A k \in 1 .. Len(pre \o a) : given[k] = (pre \o a)[k]
  BY <1>1, <1>4, WordsJoin
<1>7. Len(pre) + 1 \in 1 .. Len(given) /\ given[Len(pre) + 1] = text[i]
  BY <1>5, <1>6
<1>8. JsonState(given)[Len(pre) + 1] = Tracked(JsonState(given)[Len(pre)], text[i])
  <2>1. Len(pre) + 1 - 1 = Len(pre)
    BY <1>5
  <2>2. JsonState(given)[Len(pre) + 1] = Tracked(JsonState(given)[Len(pre) + 1 - 1], given[Len(pre) + 1])
    <3>1. \A k \in 1 .. Len(given) : JsonState(given)[k] = Tracked(JsonState(given)[k - 1], given[k])
      BY <1>1, JsonStates
    <3> QED
      BY <1>7, <3>1
  <2> QED
    BY <1>7, <2>1, <2>2
<1>9. JsonState(text)[i] = Tracked(JsonState(text)[i - 1], text[i]) /\ i + 1 - 1 = i
  BY <1>0, JsonStates
<1>10. JsonState(given)[Len(pre \o a)] = JsonState(text)[i + 1 - 1]
  BY <1>3, <1>5, <1>8, <1>9
<1>11. StandsFor(text, f, pre \o <<text[i]>>, i + 1)
  BY <1>4, <1>10 DEF StandsFor, given, a, b
<1> QED
  BY <1>5, <1>7, <1>11 DEF given, a

LEMMA StandsAfterAPlaceholder ==
    ASSUME NEW text \in Words, NEW candidates, Sought(text, candidates), NEW f,
           Parts(text, candidates, f), NEW i \in 1 .. Len(text), Here(candidates, i) # {},
           NEW pre, StandsFor(text, f, pre, i),
           NEW s, s = Longest(Here(candidates, i))
    PROVE  /\ StandsFor(text, f, pre \o Placeholder[s], i + Len(s))
           /\ Len(pre \o Placeholder[s]) = Len(pre) + Len(Placeholder[s])
           /\ OccursAt(Placeholder[s], Rest(f, 1), Len(pre) + 1)
<1> DEFINE given == Rest(f, 1)
           p == Placeholder[s]
           b == Rest(f, i + Len(s))
           c == Rest(f, i)
<1>0. /\ Len(text) \in Nat /\ s \in Surfaces /\ i + Len(s) \in i + 1 .. Len(text) + 1
      /\ i + Len(s) \in 1 .. Len(text) + 1 /\ OccursAt(s, text, i)
  BY LongestIsFound DEF Words
<1>1. /\ given \in Words /\ b \in Words /\ c = p \o b
      /\ given = pre \o c /\ pre \in Words
  <2>1. f[1] \in Pieces /\ f[i + Len(s)] \in Pieces
    BY <1>0 DEF Parts
  <2> QED
    BY <2>1 DEF Pieces, Rest, Parts, StandsFor
<1>2. /\ p \in Words /\ Len(p) \in Nat \ {0} /\ s \in Words /\ Len(s) \in Nat \ {0}
      /\ \A k \in 1 .. Len(s) : s[k] \notin {"quote", "backslash"}
      /\ \A k \in 1 .. Len(p) : p[k] \notin {"quote", "backslash"}
  <2>1. DOMAIN s = 1 .. Len(s) /\ DOMAIN p = 1 .. Len(p)
    BY <1>0, SurfacesAreWords DEF Words
  <2> QED
    BY <1>0, <2>1, SurfacesAreWords
<1>3. JsonState(given)[Len(pre)] = JsonState(text)[i - 1]
  BY DEF StandsFor
<1> HIDE DEF given, p, b, c
<1>4. given = (pre \o p) \o b /\ pre \o p \in Words
  <2>1. (pre \o p) \o b = pre \o (p \o b)
    <3>1. pre \in Words /\ p \in Words /\ b \in Words
      BY <1>1, <1>2
    <3> QED
      BY <3>1, WordsJoinInTurn
  <2>2. pre \o p \in Words
    BY <1>1, <1>2, WordsJoin, Zenon
  <2> QED
    BY <1>1, <2>1, <2>2, Zenon
<1>5. /\ Len(pre \o p) = Len(pre) + Len(p) /\ Len(pre) \in Nat /\ Len(b) \in Nat
      /\ \A k \in 1 .. Len(p) : (pre \o p)[Len(pre) + k] = p[k]
  BY <1>1, <1>2, WordsJoin
<1>6. Len(given) = Len(pre \o p) + Len(b) /\ \A k \in 1 .. Len(pre \o p) : given[k] = (pre \o p)[k]
  BY <1>1, <1>4, WordsJoin
<1>7. OccursAt(p, given, Len(pre) + 1)
  <2>1. Len(pre) + 1 \in Nat \ {0} /\ Len(pre) + 1 + Len(p) - 1 <= Len(given)
    BY <1>2, <1>5, <1>6
  <2>2. ASSUME NEW k \in 1 .. Len(p)
        PROVE  given[Len(pre) + 1 + k - 1] = p[k]
    <3>1. Len(pre) + 1 + k - 1 = Len(pre) + k /\ Len(pre) + k \in 1 .. Len(pre \o p)
      BY <1>2, <1>5
    <3> QED
      BY <1>5, <1>6, <3>1
  <2> QED
    BY <1>1, <1>2, <2>1, <2>2, OccursThere
<1>8. JsonState(given)[Len(pre) + Len(p)] = Passed(JsonState(given)[Len(pre)])
  <2>1. /\ Len(pre) + 1 \in Nat \ {0} /\ Len(pre) + 1 + Len(p) - 1 = Len(pre) + Len(p)
        /\ Len(pre) + 1 - 1 = Len(pre) /\ Len(p) > 0
    BY <1>2, <1>5
  <2>2. JsonState(given)[Len(pre) + 1 + Len(p) - 1] = Passed(JsonState(given)[Len(pre) + 1 - 1])
    BY <1>1, <1>2, <1>7, <2>1, TrackedWord
  <2> QED
    BY <2>1, <2>2
<1>9. JsonState(text)[i + Len(s) - 1] = Passed(JsonState(text)[i - 1])
  <2>1. i \in Nat \ {0} /\ Len(s) > 0
    BY <1>2
  <2> QED
    BY <1>0, <1>2, <2>1, TrackedWord
<1>10. JsonState(given)[Len(pre \o p)] = JsonState(text)[i + Len(s) - 1]
  BY <1>3, <1>5, <1>8, <1>9
<1>11. StandsFor(text, f, pre \o Placeholder[s], i + Len(s))
  <2> DEFINE longer == pre \o Placeholder[s]
             j == i + Len(s)
  <2>1. /\ longer \in Words /\ Rest(f, 1) = longer \o Rest(f, j)
        /\ JsonState(Rest(f, 1))[Len(longer)] = JsonState(text)[j - 1]
    <3>1. longer \in Words
      BY <1>4 DEF p
    <3>2. Rest(f, 1) = longer \o Rest(f, j)
      BY <1>4, Zenon DEF given, p, b
    <3>3. JsonState(Rest(f, 1))[Len(longer)] = JsonState(text)[j - 1]
      <4>1. j - 1 = i + Len(s) - 1
        BY <1>2
      <4> HIDE DEF j
      <4> QED
        BY <1>10, <4>1 DEF given, p
    <3> QED
      BY <3>1, <3>2, <3>3
  <2> HIDE DEF longer, j
  <2>2. StandsFor(text, f, longer, j)
    BY <2>1 DEF StandsFor
  <2> QED
    BY <2>2 DEF longer, j
<1> QED
  BY <1>5, <1>7, <1>11 DEF given, p

(* No surface that may be sought shares a character with a placeholder.      *)
LEMMA NoneIntoAPlaceholder ==
    ASSUME NEW s \in Surfaces, NEW t \in Surfaces, NEW text \in Words,
           NEW i \in Nat \ {0}, NEW j \in Nat \ {0},
           OccursAt(s, text, i), OccursAt(Placeholder[t], text, j)
    PROVE  i > j + Len(Placeholder[t]) - 1 \/ j > i + Len(s) - 1
<1>1. s \in Words /\ Placeholder[t] \in Words /\ Len(s) \in Nat /\ Len(Placeholder[t]) \in Nat
  BY SurfacesAreWords
<1>2. Overlaps(s, Placeholder[t]) = {}
  BY PlaceholdersStandOut DEF Surfaces
<1>3. ~ (i <= j + Len(Placeholder[t]) - 1 /\ j <= i + Len(s) - 1)
  BY <1>1, <1>2, Collide
<1> QED
  BY <1>1, <1>3

(* A word found behind a prefix is found in what follows it.                 *)
LEMMA OccursBehind ==
    ASSUME NEW pre \in Words, NEW c \in Words, NEW given, given = pre \o c, NEW w \in Words,
           NEW k, k = Len(pre) + 1, OccursAt(w, given, k), Len(w) > 0
    PROVE  OccursAt(w, c, 1)
<1>1. /\ Len(given) = Len(pre) + Len(c) /\ Len(pre) \in Nat /\ Len(c) \in Nat /\ given \in Words
      /\ \A l \in 1 .. Len(c) : given[Len(pre) + l] = c[l]
  BY WordsJoin
<1>2. k \in Nat \ {0} /\ Len(w) \in Nat
  BY <1>1 DEF Words
<1>3. k + Len(w) - 1 <= Len(given) /\ \A l \in 1 .. Len(w) : given[k + l - 1] = w[l]
  BY <1>1, <1>2, OccursThere
<1>4. ASSUME NEW l \in 1 .. Len(w)
      PROVE  l \in 1 .. Len(c) /\ c[l] = w[l]
  <2>1. l \in 1 .. Len(c) /\ k + l - 1 = Len(pre) + l
    BY <1>1, <1>2, <1>3
  <2> QED
    BY <1>1, <1>3, <2>1
<1>5. Len(w) <= Len(c)
  BY <1>1, <1>2, <1>3
<1>6. \A j \in Nat \ {0} : j + Len(w) - 1 <= Len(c)
        /\ (\A l \in 1 .. Len(w) : c[j + l - 1] = w[l]) => OccursAt(w, c, j)
  BY OccursThere
<1>7. 1 + Len(w) - 1 <= Len(c) /\ \A l \in 1 .. Len(w) : c[1 + l - 1] = w[l]
  BY <1>1, <1>2, <1>4, <1>5
<1>8. OccursAt(w, c, 1) \/ ~ (1 \in Nat \ {0})
  BY <1>6, <1>7, Zenon
<1> QED
  BY <1>8

(* A surface found where the text was copied is there in the text.           *)
LEMMA CopiedIsThere ==
    ASSUME NEW text \in Words, NEW candidates, Sought(text, candidates), NEW f,
           Parts(text, candidates, f), NEW i \in 1 .. Len(text), Here(candidates, i) = {},
           NEW w \in Words, Len(w) > 0, OccursAt(w, Rest(f, i), 1),
           \A t \in Surfaces : \A j \in 2 .. Len(w) : ~ OccursAt(Placeholder[t], Rest(f, i), j)
    PROVE  OccursAt(w, text, i)
<1> DEFINE c == Rest(f, i)
<1>0. Len(text) \in Nat /\ i \in 1 .. Len(text) + 1 /\ Len(w) \in Nat /\ i \in Nat \ {0}
  BY DEF Words
<1>1. c \in Words /\ Len(c) \in Nat
  <2>1. f[i] \in Pieces
    BY <1>0 DEF Parts
  <2> QED
    BY <2>1 DEF Pieces, Rest, Words
<1>2. PICK m : RunsTo(text, candidates, f, i, m)
  BY <1>0, Runs
<1>3. /\ m \in i .. Len(text) + 1
      /\ \A j \in i .. m - 1 : c[j - i + 1] = text[j]
      /\ \/ m = Len(text) + 1 /\ Len(c) = m - i
         \/ /\ Here(candidates, m) # {}
            /\ \E s \in Surfaces : OccursAt(Placeholder[s], c, m - i + 1)
  BY <1>2 DEF RunsTo
<1>4. OccursAt(w, c, 1) /\ \A t \in Surfaces : \A j \in 2 .. Len(w) : ~ OccursAt(Placeholder[t], c, j)
  OBVIOUS
<1> HIDE DEF c
<1>5. 1 + Len(w) - 1 <= Len(c) /\ \A k \in 1 .. Len(w) : c[1 + k - 1] = w[k]
  <2>1. \A j \in Nat \ {0} : OccursAt(w, c, j) =>
           j + Len(w) - 1 <= Len(c) /\ \A k \in 1 .. Len(w) : c[j + k - 1] = w[k]
    BY <1>1, OccursThere
  <2> QED
    BY <1>4, <2>1
<1>6. Len(w) <= m - i
  <2>1. CASE Len(c) = m - i
    BY <1>0, <1>1, <1>3, <1>5, <2>1
  <2>2. ASSUME NEW s \in Surfaces, OccursAt(Placeholder[s], c, m - i + 1), Here(candidates, m) # {}
        PROVE  Len(w) <= m - i
    <3>1. m # i
      BY <2>2
    <3>2. m - i + 1 \notin 2 .. Len(w)
      BY <1>4, <2>2
    <3> QED
      BY <1>0, <1>3, <3>1, <3>2
  <2> QED
    BY <1>3, <2>1, <2>2
<1>7. i + Len(w) - 1 <= Len(text)
  BY <1>0, <1>3, <1>6
<1>8. ASSUME NEW k \in 1 .. Len(w)
      PROVE  text[i + k - 1] = w[k]
  <2>1. i + k - 1 \in i .. m - 1 /\ i + k - 1 - i + 1 = k /\ 1 + k - 1 = k
    BY <1>0, <1>3, <1>6
  <2> QED
    BY <1>3, <1>5, <2>1
<1> QED
  BY <1>0, <1>7, <1>8, OccursThere

(* What is left of a text after its substitution is as it was: whatever      *)
(* surface is still there is one that was not to be replaced.               *)
LeftAt(text, candidates, given, s, k) ==
    \E i \in 1 .. Len(text) : /\ OccursAt(s, text, i) /\ Here(candidates, i) = {}
                              /\ JsonState(text)[i - 1] = JsonState(given)[k - 1]

LEMMA LeftIsCopied ==
    ASSUME NEW text \in Words, NEW candidates, Sought(text, candidates), NEW f,
           Parts(text, candidates, f), NEW s \in Surfaces,
           NEW k \in 1 .. Len(Rest(f, 1)), OccursAt(s, Rest(f, 1), k)
    PROVE  LeftAt(text, candidates, Rest(f, 1), s, k)
<1> DEFINE n == Len(text)
           given == Rest(f, 1)
           T == {i \in 1 .. n + 1 : \A pre : StandsFor(text, f, pre, i) /\ k > Len(pre)
                                        => LeftAt(text, candidates, given, s, k)}
<1>0. /\ n \in Nat /\ 1 \in 1 .. n + 1 /\ s \in Words /\ Len(s) \in Nat \ {0}
      /\ \A i \in 1 .. n + 1 : f[i] \in Pieces /\ Rest(f, i) \in Words
  <2>1. n \in Nat
    BY DEF Words
  <2> QED
    BY <2>1, SurfacesAreWords DEF Parts, Pieces, Rest
<1>1. ASSUME NEW i \in 1 .. n + 1, \A j \in i + 1 .. n + 1 : j \in T
      PROVE  i \in T
  <2>1. SUFFICES ASSUME NEW pre, StandsFor(text, f, pre, i), k > Len(pre)
                 PROVE  LeftAt(text, candidates, given, s, k)
    OBVIOUS
  <2>2. pre \in Words /\ Len(pre) \in Nat /\ given = pre \o Rest(f, i) /\ k \in 1 .. Len(given)
    BY <2>1 DEF StandsFor, Words
  <2>3. CASE i = n + 1
    <3>1. Rest(f, i) = <<>>
      BY <2>3 DEF Parts
    <3>2. Len(given) = Len(pre)
      BY <2>2, <3>1 DEF Words
    <3> QED
      BY <2>1, <2>2, <3>2
  <2>4. CASE i \in 1 .. n /\ Here(candidates, i) = {}
    <3> DEFINE longer == pre \o <<text[i]>>
    <3>1. StandsFor(text, f, longer, i + 1) /\ Len(longer) = Len(pre) + 1
      BY <2>1, <2>4, StandsAfterACopy
    <3>2. i + 1 \in i + 1 .. n + 1 /\ i + 1 \in T
      BY <1>0, <1>1, <2>4
    <3>3. CASE k > Len(pre) + 1
      BY <3>1, <3>2, <3>3
    <3>4. CASE k = Len(pre) + 1
      <4>1. OccursAt(s, Rest(f, i), 1)
        <5>1. Rest(f, i) \in Words
          BY <1>0
        <5>2. /\ pre \in Words /\ given = pre \o Rest(f, i) /\ s \in Words
              /\ OccursAt(s, given, k) /\ Len(s) > 0
          BY <1>0, <2>2
        <5> HIDE DEF given
        <5> QED
          BY <3>4, <5>1, <5>2, OccursBehind
      <4>2. \A t \in Surfaces : \A j \in 2 .. Len(s) : ~ OccursAt(Placeholder[t], Rest(f, i), j)
        <5>1. SUFFICES ASSUME NEW t \in Surfaces, NEW j \in 2 .. Len(s), OccursAt(Placeholder[t], Rest(f, i), j)
                       PROVE FALSE
          OBVIOUS
        <5>2. j > 1 + Len(s) - 1 \/ 1 > j + Len(Placeholder[t]) - 1
          <6>1. 1 \in Nat \ {0} /\ j \in Nat \ {0} /\ Rest(f, i) \in Words
            BY <1>0
          <6> QED
            BY <4>1, <5>1, <6>1, NoneIntoAPlaceholder, Zenon
        <5> QED
          BY <1>0, <5>2, SurfacesAreWords
      <4>3. OccursAt(s, text, i)
        BY <1>0, <2>4, <4>1, <4>2, CopiedIsThere
      <4>4. JsonState(text)[i - 1] = JsonState(given)[k - 1]
        <5>1. k - 1 = Len(pre)
          BY <2>2, <3>4
        <5> QED
          BY <2>1, <5>1 DEF StandsFor
      <4> QED
        BY <2>4, <4>3, <4>4 DEF LeftAt
    <3> QED
      BY <2>1, <2>2, <3>3, <3>4
  <2>5. CASE i \in 1 .. n /\ Here(candidates, i) # {}
    <3> DEFINE u == Longest(Here(candidates, i))
               p == Placeholder[u]
               longer == pre \o p
    <3>1. /\ StandsFor(text, f, longer, i + Len(u)) /\ Len(longer) = Len(pre) + Len(p)
          /\ OccursAt(p, given, Len(pre) + 1)
      BY <2>1, <2>5, StandsAfterAPlaceholder
    <3>2. i + Len(u) \in i + 1 .. n + 1 /\ u \in Surfaces
      BY <2>5, LongestIsFound
    <3>3. i + Len(u) \in T
      BY <1>1, <3>2
    <3>4. CASE k > Len(pre) + Len(p)
      BY <3>1, <3>3, <3>4
    <3>5. CASE ~ (k > Len(pre) + Len(p))
      <4>1. p \in Words /\ Len(p) \in Nat /\ given \in Words
        BY <1>0, <3>2, SurfacesAreWords
      <4>2. k > Len(pre) + 1 + Len(p) - 1 \/ Len(pre) + 1 > k + Len(s) - 1
        <5>1. k \in Nat \ {0} /\ Len(pre) + 1 \in Nat \ {0} /\ OccursAt(s, given, k)
          BY <2>2
        <5> HIDE DEF given, u
        <5> QED
          BY <3>1, <3>2, <4>1, <5>1, NoneIntoAPlaceholder
      <4> HIDE DEF p
      <4> QED
        BY <1>0, <2>1, <2>2, <3>5, <4>1, <4>2
    <3> QED
      BY <3>4, <3>5
  <2> QED
    BY <1>0, <2>3, <2>4, <2>5
<1>2. 1 .. n + 1 \subseteq T
  <2> HIDE DEF T
  <2> QED
    BY <1>0, <1>1, Backwards
<1>3. StandsFor(text, f, <<>>, 1) /\ k > Len(<<>>)
  <2>1. given \in Words /\ given = <<>> \o given /\ <<>> \in Words /\ Len(<<>>) = 0 /\ k > 0 /\ 1 - 1 = 0
    BY <1>0 DEF Words
  <2>2. JsonState(given)[0] = JsonState(text)[0]
    BY <2>1, JsonStates
  <2> QED
    BY <2>1, <2>2 DEF StandsFor
<1>4. 1 \in T
  <2> HIDE DEF T
  <2> QED
    BY <1>0, <1>2
<1> QED
  BY <1>3, <1>4

-----------------------------------------------------------------------------
(* Restoration.                                                             *)

(* What a mapping gives back for a word is a word.                          *)
IsMapping(mapping) ==
    \A p \in DOMAIN mapping : p \in Words /\ Len(p) \in Nat \ {0} /\ mapping[p] \in Words

Found(text, mapping, i) == {p \in DOMAIN mapping : OccursAt(p, text, i)}

Back(text, mapping, f, i) ==
    LET p == CHOOSE p \in Found(text, mapping, i) : TRUE
    IN  IF i > Len(text) THEN <<>>
        ELSE IF Found(text, mapping, i) = {} THEN <<text[i]>> \o f[i + 1]
        ELSE mapping[p] \o f[i + Len(p)]

LEMMA FoundFits ==
    ASSUME NEW text \in Words, NEW mapping, IsMapping(mapping), NEW i \in 1 .. Len(text),
           NEW p \in Found(text, mapping, i)
    PROVE  p \in DOMAIN mapping /\ mapping[p] \in Words /\ i + Len(p) \in i + 1 .. Len(text) + 1
<1>1. p \in DOMAIN mapping /\ OccursAt(p, text, i)
  BY DEF Found
<1>2. p \in Words /\ Len(p) \in Nat \ {0} /\ mapping[p] \in Words
  BY <1>1 DEF IsMapping
<1>3. i + Len(p) - 1 <= Len(text) /\ Len(text) \in Nat
  BY <1>1 DEF OccursAt, Words
<1> QED
  BY <1>1, <1>2, <1>3

LEMMA BackIsAWord ==
    ASSUME NEW text \in Words, NEW mapping, IsMapping(mapping),
           NEW f \in [1 .. Len(text) + 1 -> Words], NEW i \in 1 .. Len(text) + 1
    PROVE  Back(text, mapping, f, i) \in Words
<1> DEFINE p == CHOOSE p \in Found(text, mapping, i) : TRUE
<1>0. Len(text) \in Nat
  BY DEF Words
<1>1. CASE i > Len(text)
  <2>1. <<>> \in Words
    BY DEF Words
  <2> QED
    BY <1>1, <2>1 DEF Back
<1>2. CASE ~ (i > Len(text)) /\ Found(text, mapping, i) = {}
  <2>1. f[i + 1] \in Words /\ <<text[i]>> \in Words
    BY <1>0, <1>2 DEF Words
  <2>2. <<text[i]>> \o f[i + 1] \in Words
    BY <2>1, WordsJoin
  <2> QED
    BY <1>2, <2>2 DEF Back
<1>3. CASE ~ (i > Len(text)) /\ Found(text, mapping, i) # {}
  <2>1. p \in Found(text, mapping, i)
    BY <1>3
  <2> HIDE DEF p
  <2>2. mapping[p] \in Words /\ i + Len(p) \in 1 .. Len(text) + 1
    BY <1>0, <1>3, <2>1, FoundFits
  <2>3. mapping[p] \o f[i + Len(p)] \in Words
    BY <2>2, WordsJoin
  <2> QED
    BY <1>3, <2>3 DEF Back, p
<1> QED
  BY <1>1, <1>2, <1>3

LEMMA BackLooksAhead ==
    ASSUME NEW text \in Words, NEW mapping, IsMapping(mapping), NEW f, NEW g,
           NEW i \in 1 .. Len(text) + 1, \A j \in i + 1 .. Len(text) + 1 : f[j] = g[j]
    PROVE  Back(text, mapping, f, i) = Back(text, mapping, g, i)
<1> DEFINE p == CHOOSE p \in Found(text, mapping, i) : TRUE
<1>0. Len(text) \in Nat
  BY DEF Words
<1>1. CASE i > Len(text)
  BY <1>1 DEF Back
<1>2. CASE ~ (i > Len(text)) /\ Found(text, mapping, i) = {}
  <2>1. f[i + 1] = g[i + 1]
    BY <1>0, <1>2
  <2> QED
    BY <1>2, <2>1 DEF Back
<1>3. CASE ~ (i > Len(text)) /\ Found(text, mapping, i) # {}
  <2>1. p \in Found(text, mapping, i)
    BY <1>3
  <2> HIDE DEF p
  <2>2. f[i + Len(p)] = g[i + Len(p)]
    BY <1>0, <1>3, <2>1, FoundFits
  <2> QED
    BY <1>3, <2>2 DEF Back, p
<1> QED
  BY <1>1, <1>2, <1>3

(* Detokenize follows its recursion to the end of the text.                  *)
Restores(text, mapping, f) ==
    /\ f \in [1 .. Len(text) + 1 -> Words]
    /\ \A i \in 1 .. Len(text) + 1 : f[i] = Back(text, mapping, f, i)

LEMMA DetokenizeRestores ==
    ASSUME NEW text \in Words, NEW mapping, IsMapping(mapping)
    PROVE  \E f : Restores(text, mapping, f) /\ Detokenize(text, mapping) = f[1]
<1> DEFINE n == Len(text)
           D == 1 .. n + 1
           rank == [i \in D |-> n + 1 - i]
           G == [x \in [D -> Words] \X D |-> Back(text, mapping, x[1], x[2])]
           Is(f) == f = [i \in D |-> Back(text, mapping, f, i)]
<1>0. n \in Nat
  BY DEF Words
<1>1. Words # {}
  <2>1. <<>> \in Words
    BY DEF Words
  <2> QED
    BY <2>1
<1>2. rank \in [D -> Nat] /\ n + 1 \in Nat /\ \A i \in D : rank[i] < n + 1
  BY <1>0
<1>3. G \in [[D -> Words] \X D -> Words]
  <2>1. \A x \in [D -> Words] \X D : Back(text, mapping, x[1], x[2]) \in Words
    BY BackIsAWord
  <2> QED
    BY <2>1
<1>4. ASSUME NEW f \in [D -> Words], NEW g \in [D -> Words], NEW i \in D,
             \A j \in D : rank[j] < rank[i] => f[j] = g[j]
      PROVE  Back(text, mapping, f, i) = Back(text, mapping, g, i)
  <2>1. \A j \in i + 1 .. n + 1 : f[j] = g[j]
    BY <1>0, <1>4
  <2> QED
    BY <2>1, BackLooksAhead
<1>5. \A f \in [D -> Words], i \in D : G[<<f, i>>] = Back(text, mapping, f, i)
  OBVIOUS
<1>6. LooksDown(G, D, Words, rank)
  <2> HIDE DEF G, rank, D
  <2> QED
    BY <1>4, <1>5 DEF LooksDown
<1>7. PICK h \in [D -> Words] : Unrolls(h, G, D)
  <2> HIDE DEF G, rank, D, n
  <2> QED
    BY <1>0, <1>1, <1>2, <1>3, <1>6, Recursion
<1>8. Is(h)
  BY <1>5, <1>7 DEF Unrolls
<1>9. PICK f : Is(f) /\ Detokenize(text, mapping) = f[1]
  <2>1. Detokenize(text, mapping) = (CHOOSE f : Is(f))[1]
    BY DEF Detokenize, Back, Found
  <2> HIDE DEF Is
  <2> QED
    BY <1>8, <2>1
<1>10. ASSUME NEW i \in D
       PROVE  f[i] = Back(text, mapping, f, i)
  BY <1>9
<1> DEFINE T == {i \in 1 .. n + 1 : f[i] = h[i]}
<1>11. ASSUME NEW i \in 1 .. n + 1, \A j \in i + 1 .. n + 1 : j \in T
       PROVE  i \in T
  <2>1. f[i] = Back(text, mapping, f, i) /\ h[i] = Back(text, mapping, h, i)
    BY <1>8, <1>10
  <2>2. Back(text, mapping, f, i) = Back(text, mapping, h, i)
    BY <1>11, BackLooksAhead
  <2> QED
    BY <2>1, <2>2
<1>12. D \subseteq T
  <2> HIDE DEF T
  <2> QED
    BY <1>0, <1>11, Backwards
<1>13. f = h
  <2>1. f = [i \in D |-> f[i]] /\ h = [i \in D |-> h[i]]
    BY <1>7, <1>9
  <2>2. \A i \in D : f[i] = h[i]
    BY <1>12
  <2> HIDE DEF D
  <2> QED
    BY <2>1, <2>2
<1> QED
  BY <1>7, <1>9, <1>10, <1>13 DEF Restores

(* Placeholders share no character with one another.                        *)
LEMMA PlaceholdersApart ==
    ASSUME NEW s \in Surfaces, NEW t \in Surfaces, NEW text \in Words,
           NEW i \in Nat \ {0}, NEW j \in Nat \ {0},
           OccursAt(Placeholder[s], text, i), OccursAt(Placeholder[t], text, j)
    PROVE  /\ Len(Placeholder[s]) = Len(Placeholder[t])
           /\ i = j \/ i > j + Len(Placeholder[t]) - 1 \/ j > i + Len(Placeholder[s]) - 1
           /\ i = j => s = t
<1> DEFINE a == Placeholder[s]
           b == Placeholder[t]
<1>1. /\ a \in Words /\ b \in Words /\ Len(a) \in Nat /\ Len(b) \in Nat
      /\ OccursAt(a, text, i) /\ OccursAt(b, text, j)
  BY SurfacesAreWords
<1>2. Overlaps(a, b) \subseteq {0} /\ Len(a) = Len(b)
  BY PlaceholdersStandOut DEF Surfaces
<1>3. a = b => s = t
  BY PlaceholdersDiffer DEF Surfaces
<1> HIDE DEF a, b
<1>4. ASSUME i <= j + Len(b) - 1, j <= i + Len(a) - 1
      PROVE  i = j
  <2>1. i - j \in Overlaps(a, b)
    BY <1>1, <1>4, Collide
  <2> QED
    BY <1>2, <2>1
<1>5. ASSUME i = j
      PROVE  a = b
  <2>1. /\ \A k \in 1 .. Len(a) : text[i + k - 1] = a[k]
        /\ \A k \in 1 .. Len(b) : text[i + k - 1] = b[k]
    BY <1>1, <1>5, OccursThere
  <2> QED
    BY <1>1, <1>2, <2>1, SameWord
<1>6. i = j \/ i > j + Len(b) - 1 \/ j > i + Len(a) - 1
  BY <1>1, <1>4
<1> QED
  BY <1>2, <1>3, <1>5, <1>6 DEF a, b

(* A mapping that gives back the surfaces of some placeholders.              *)
GivesBack(mapping, surfaces) ==
    /\ surfaces \subseteq Surfaces
    /\ DOMAIN mapping = {Placeholder[s] : s \in surfaces}
    /\ \A s \in surfaces : mapping[Placeholder[s]] = s

LEMMA GivesBackWords ==
    ASSUME NEW mapping, NEW surfaces, GivesBack(mapping, surfaces)
    PROVE  IsMapping(mapping)
<1>1. ASSUME NEW p \in DOMAIN mapping
      PROVE  p \in Words /\ Len(p) \in Nat \ {0} /\ mapping[p] \in Words
  <2>1. PICK s \in surfaces : p = Placeholder[s]
    BY DEF GivesBack
  <2>2. s \in Surfaces /\ mapping[p] = s
    BY <2>1 DEF GivesBack
  <2> QED
    BY <2>1, <2>2, SurfacesAreWords
<1> QED
  BY <1>1 DEF IsMapping

(* A text without placeholders of its own has none where it was copied.      *)
LEMMA NothingFoundInACopy ==
    ASSUME NEW text \in Words, NEW candidates, Sought(text, candidates), NEW f,
           Parts(text, candidates, f), NEW i \in 1 .. Len(text), Here(candidates, i) = {},
           NEW pre, StandsFor(text, f, pre, i),
           NEW mapping, NEW surfaces, GivesBack(mapping, surfaces),
           \A s \in Surfaces : ~ OccursAt(Placeholder[s], text, i)
    PROVE  Found(Rest(f, 1), mapping, Len(pre) + 1) = {}
<1> SUFFICES ASSUME NEW p \in Found(Rest(f, 1), mapping, Len(pre) + 1)
             PROVE  FALSE
  OBVIOUS
<1>1. PICK s \in Surfaces : p = Placeholder[s]
  BY DEF Found, GivesBack
<1>2. p \in Words /\ Len(p) \in Nat \ {0}
  BY <1>1, SurfacesAreWords
<1>3. Rest(f, i) \in Words
  <2>1. f[i] \in Pieces
    BY DEF Parts, Words
  <2> QED
    BY <2>1 DEF Pieces, Rest
<1>4. OccursAt(p, Rest(f, i), 1)
  <2>1. pre \in Words /\ Rest(f, 1) = pre \o Rest(f, i)
    BY DEF StandsFor
  <2>2. OccursAt(p, Rest(f, 1), Len(pre) + 1) /\ Len(p) > 0
    BY <1>2 DEF Found
  <2> QED
    BY <1>2, <1>3, <2>1, <2>2, OccursBehind
<1>5. ASSUME NEW t \in Surfaces, NEW j \in 2 .. Len(p), OccursAt(Placeholder[t], Rest(f, i), j)
      PROVE  FALSE
  <2>1. 1 \in Nat \ {0} /\ j \in Nat \ {0} /\ OccursAt(Placeholder[s], Rest(f, i), 1)
    BY <1>1, <1>4
  <2>2. \/ 1 = j \/ 1 > j + Len(Placeholder[t]) - 1
        \/ j > 1 + Len(Placeholder[s]) - 1
    BY <1>3, <1>5, <2>1, PlaceholdersApart, Zenon
  <2>3. Len(Placeholder[t]) \in Nat \ {0}
    BY SurfacesAreWords
  <2> QED
    BY <1>1, <1>2, <2>2, <2>3
<1>6. OccursAt(p, text, i)
  BY <1>2, <1>4, <1>5, CopiedIsThere
<1> QED
  BY <1>1, <1>6

(* What was put in place of a surface is found there, and nothing else.      *)
LEMMA PlaceholderIsFound ==
    ASSUME NEW given \in Words, NEW k \in Nat \ {0}, NEW mapping, NEW surfaces,
           GivesBack(mapping, surfaces), NEW s \in surfaces, OccursAt(Placeholder[s], given, k)
    PROVE  Found(given, mapping, k) = {Placeholder[s]}
<1>1. Placeholder[s] \in Found(given, mapping, k) /\ s \in Surfaces
  BY DEF Found, GivesBack
<1>2. ASSUME NEW p \in Found(given, mapping, k)
      PROVE  p = Placeholder[s]
  <2>1. PICK t \in surfaces : p = Placeholder[t]
    BY DEF Found, GivesBack
  <2>2. t \in Surfaces /\ OccursAt(Placeholder[t], given, k)
    BY <2>1 DEF Found, GivesBack
  <2>3. s = t
    BY <1>1, <2>2, PlaceholdersApart
  <2> QED
    BY <2>1, <2>3
<1> QED
  BY <1>1, <1>2

(* What was taken out of a text comes home, if the mapping knows every       *)
(* placeholder that was put into it and the text had none of its own.        *)
LEMMA HomeAgain ==
    ASSUME NEW text \in Words, NEW candidates, Sought(text, candidates), NEW f,
           Parts(text, candidates, f), NEW mapping, NEW surfaces, GivesBack(mapping, surfaces),
           Used(f, 1) \subseteq surfaces,
           \A s \in Surfaces : \A i \in 1 .. Len(text) : ~ OccursAt(Placeholder[s], text, i)
    PROVE  Detokenize(Rest(f, 1), mapping) = text
<1> DEFINE n == Len(text)
           given == Rest(f, 1)
<1>0. /\ n \in Nat /\ 1 \in 1 .. n + 1 /\ given \in Words /\ Len(given) \in Nat
      /\ \A i \in 1 .. n + 1 : Rest(f, i) \in Words
  <2>1. n \in Nat
    BY DEF Words
  <2>2. ASSUME NEW i \in 1 .. n + 1
        PROVE  Rest(f, i) \in Words
    <3>1. f[i] \in Pieces
      BY DEF Parts
    <3> QED
      BY <3>1 DEF Pieces, Rest
  <2> QED
    BY <2>1, <2>2, WordsJoin
<1>1. PICK d : Restores(given, mapping, d) /\ Detokenize(given, mapping) = d[1]
  BY <1>0, GivesBackWords, DetokenizeRestores
<1> DEFINE T == {i \in 1 .. n + 1 : \A pre : StandsFor(text, f, pre, i) /\ Used(f, i) \subseteq surfaces
                                        => d[Len(pre) + 1] = SubSeq(text, i, n)}
<1>2. ASSUME NEW i \in 1 .. n + 1, \A j \in i + 1 .. n + 1 : j \in T
      PROVE  i \in T
  <2>1. SUFFICES ASSUME NEW pre, StandsFor(text, f, pre, i), Used(f, i) \subseteq surfaces
                 PROVE  d[Len(pre) + 1] = SubSeq(text, i, n)
    OBVIOUS
  <2>2. pre \in Words /\ Len(pre) \in Nat /\ given = pre \o Rest(f, i)
    BY <2>1 DEF StandsFor, Words
  <2>3. Len(given) = Len(pre) + Len(Rest(f, i)) /\ Len(Rest(f, i)) \in Nat
    BY <1>0, <2>2, WordsJoin
  <2> DEFINE k == Len(pre) + 1
  <2>4. k \in 1 .. Len(given) + 1 /\ d[k] = Back(given, mapping, d, k)
    BY <1>0, <1>1, <2>2, <2>3 DEF Restores
  <2>5. CASE i = n + 1
    <3>1. Rest(f, i) = <<>>
      BY <2>5 DEF Parts
    <3>2. k > Len(given)
      BY <2>2, <2>3, <3>1
    <3>3. d[k] = <<>>
      BY <2>4, <3>2 DEF Back
    <3>4. SubSeq(text, n + 1, n) = <<>>
      BY <1>0 DEF Words
    <3> QED
      BY <2>5, <3>3, <3>4
  <2>6. CASE i \in 1 .. n /\ Here(candidates, i) = {}
    <3> DEFINE longer == pre \o <<text[i]>>
    <3>1. /\ StandsFor(text, f, longer, i + 1) /\ Len(longer) = Len(pre) + 1
          /\ given[k] = text[i] /\ k \in 1 .. Len(given)
      BY <2>1, <2>6, StandsAfterACopy
    <3>2. Used(f, i + 1) \subseteq surfaces
      BY <2>1, <2>6 DEF Parts
    <3>3. i + 1 \in T
      BY <1>0, <1>2, <2>6
    <3>4. d[k + 1] = SubSeq(text, i + 1, n)
      <4>1. d[Len(longer) + 1] = SubSeq(text, i + 1, n)
        BY <3>1, <3>2, <3>3
      <4> HIDE DEF longer
      <4> QED
        BY <3>1, <4>1
    <3>5. Found(given, mapping, k) = {}
      BY <2>1, <2>6, NothingFoundInACopy
    <3>6. d[k] = <<given[k]>> \o d[k + 1]
      <4>1. ~ (k > Len(given))
        BY <1>0, <3>1
      <4> HIDE DEF given, k
      <4> QED
        BY <2>4, <3>5, <4>1 DEF Back
    <3>7. SubSeq(text, i, n) = <<text[i]>> \o SubSeq(text, i + 1, n)
      BY <1>0, <2>6 DEF Words
    <3> QED
      BY <3>1, <3>4, <3>6, <3>7
  <2>7. CASE i \in 1 .. n /\ Here(candidates, i) # {}
    <3> DEFINE s == Longest(Here(candidates, i))
               p == Placeholder[s]
               longer == pre \o p
    <3>1. /\ StandsFor(text, f, longer, i + Len(s)) /\ Len(longer) = Len(pre) + Len(p)
          /\ OccursAt(p, given, k)
      BY <2>1, <2>7, StandsAfterAPlaceholder
    <3>2. /\ i + Len(s) \in i + 1 .. n + 1 /\ s \in Surfaces /\ OccursAt(s, text, i)
      BY <2>7, LongestIsFound
    <3>3. s \in surfaces /\ Used(f, i + Len(s)) \subseteq surfaces
      BY <2>1, <2>7 DEF Parts
    <3>4. s \in Words /\ Len(s) \in Nat \ {0} /\ Len(p) \in Nat \ {0} /\ p \in Words
      BY <3>2, SurfacesAreWords
    <3>5. d[k + Len(p)] = SubSeq(text, i + Len(s), n)
      <4>1. i + Len(s) \in T
        BY <1>2, <3>2
      <4>2. d[Len(longer) + 1] = SubSeq(text, i + Len(s), n)
        BY <3>1, <3>3, <4>1
      <4>3. Len(longer) + 1 = k + Len(p)
        <5> HIDE DEF longer, p
        <5> QED
          BY <2>2, <3>1, <3>4
      <4> QED
        BY <4>2, <4>3
    <3> HIDE DEF s
    <3>6. Found(given, mapping, k) = {p} /\ mapping[p] = s
      <4>1. k \in Nat \ {0}
        BY <2>2
      <4> HIDE DEF given, k
      <4> QED
        BY <1>0, <3>1, <3>3, <4>1, PlaceholderIsFound DEF GivesBack
    <3>7. d[k] = s \o d[k + Len(p)]
      <4>1. ~ (k > Len(given))
        <5>1. k \in Nat
          BY <2>2
        <5> HIDE DEF p, given, k
        <5>2. k + Len(p) - 1 <= Len(given)
          BY <3>1 DEF OccursAt
        <5> QED
          BY <1>0, <3>4, <5>1, <5>2
      <4>2. (CHOOSE q \in {p} : TRUE) = p
        OBVIOUS
      <4> HIDE DEF given, k, p
      <4> QED
        BY <2>4, <3>6, <4>1, <4>2 DEF Back
    <3>8. SubSeq(text, i, n) = s \o SubSeq(text, i + Len(s), n)
      <4>1. /\ i + Len(s) - 1 <= n
            /\ \A l \in 1 .. Len(s) : text[i + l - 1] = s[l]
        BY <2>7, <3>2, <3>4, OccursThere
      <4> DEFINE j == i + Len(s)
                 tail == SubSeq(text, j, n)
                 whole == SubSeq(text, i, n)
      <4>2. j \in i + 1 .. n + 1 /\ j \in Nat /\ j - i = Len(s) /\ i \in Nat \ {0}
        BY <1>0, <2>7, <3>2, <3>4
      <4> HIDE DEF j
      <4>3. /\ tail \in Words /\ Len(tail) = n - j + 1
            /\ \A l \in 1 .. n - j + 1 : tail[l] = text[j + l - 1]
        BY <1>0, <4>2, PartOfWord
      <4>4. /\ whole \in Words /\ Len(whole) = n - i + 1
            /\ \A l \in 1 .. n - i + 1 : whole[l] = text[i + l - 1]
        BY <1>0, <4>2, PartOfWord
      <4> HIDE DEF tail, whole
      <4>5. /\ s \o tail \in Words /\ Len(s \o tail) = Len(s) + Len(tail)
            /\ \A l \in 1 .. Len(s) : (s \o tail)[l] = s[l]
            /\ \A l \in 1 .. Len(tail) : (s \o tail)[Len(s) + l] = tail[l]
        BY <3>4, <4>3, WordsJoin
      <4> DEFINE both == s \o tail
      <4>6. /\ both \in Words /\ Len(both) = Len(s) + Len(tail)
            /\ \A l \in 1 .. Len(s) : both[l] = s[l]
            /\ \A l \in 1 .. Len(tail) : both[Len(s) + l] = tail[l]
        BY <4>5
      <4> HIDE DEF both
      <4>7. Len(whole) = Len(both)
        BY <1>0, <3>4, <4>2, <4>3, <4>4, <4>6
      <4>8. ASSUME NEW l \in 1 .. Len(whole)
            PROVE  whole[l] = both[l]
        <5>1. CASE l <= Len(s)
          <6>1. l \in 1 .. Len(s)
            BY <1>0, <3>4, <4>2, <4>4, <5>1
          <6> QED
            BY <4>1, <4>4, <4>6, <4>8, <6>1
        <5>2. CASE ~ (l <= Len(s))
          <6>1. /\ l - Len(s) \in 1 .. Len(tail) /\ Len(s) + (l - Len(s)) = l
                /\ j + (l - Len(s)) - 1 = i + l - 1
            BY <1>0, <3>4, <4>2, <4>3, <4>4, <5>2
          <6>2. both[Len(s) + (l - Len(s))] = tail[l - Len(s)]
            BY <4>6, <6>1
          <6>3. tail[l - Len(s)] = text[j + (l - Len(s)) - 1]
            BY <4>3, <6>1
          <6> QED
            BY <4>4, <4>8, <6>1, <6>2, <6>3
        <5> QED
          BY <5>1, <5>2
      <4>9. whole = both
        BY <4>4, <4>6, <4>7, <4>8, SameWord
      <4> QED
        BY <4>9 DEF whole, both, tail, j
    <3> QED
      BY <3>5, <3>7, <3>8
  <2> QED
    BY <1>0, <2>5, <2>6, <2>7
<1>3. 1 .. n + 1 \subseteq T
  <2> HIDE DEF T
  <2> QED
    BY <1>0, <1>2, Backwards
<1>4. StandsFor(text, f, <<>>, 1)
  <2>1. given = <<>> \o given /\ <<>> \in Words /\ Len(<<>>) = 0 /\ 1 - 1 = 0
    BY <1>0 DEF Words
  <2>2. JsonState(given)[0] = JsonState(text)[0]
    BY <1>0, JsonStates
  <2> QED
    BY <2>1, <2>2 DEF StandsFor
<1>5. d[Len(<<>>) + 1] = SubSeq(text, 1, n)
  <2>1. 1 \in T
    <3> HIDE DEF T
    <3> QED
      BY <1>0, <1>3
  <2> QED
    BY <1>4, <2>1
<1>6. Len(<<>>) + 1 = 1 /\ SubSeq(text, 1, n) = text
  BY DEF Words
<1> QED
  BY <1>1, <1>5, <1>6

(* A substitution that used nothing changed nothing.                        *)
LEMMA NothingReplaced ==
    ASSUME NEW text \in Words, NEW candidates, Sought(text, candidates), NEW f,
           Parts(text, candidates, f), Used(f, 1) = {}
    PROVE  Rest(f, 1) = text
<1> DEFINE n == Len(text)
           T == {i \in 1 .. n + 1 : Used(f, i) = {} => Rest(f, i) = SubSeq(text, i, n)}
<1>0. n \in Nat /\ 1 \in 1 .. n + 1
  BY DEF Words
<1>1. ASSUME NEW i \in 1 .. n + 1, \A j \in i + 1 .. n + 1 : j \in T
      PROVE  i \in T
  <2>1. CASE i = n + 1
    <3>1. Rest(f, i) = <<>> /\ SubSeq(text, n + 1, n) = <<>>
      BY <1>0, <2>1 DEF Parts, Words
    <3> QED
      BY <2>1, <3>1
  <2>2. CASE i \in 1 .. n /\ Here(candidates, i) = {}
    <3>1. Rest(f, i) = <<text[i]>> \o Rest(f, i + 1) /\ Used(f, i) = Used(f, i + 1)
      BY <2>2 DEF Parts
    <3>2. i + 1 \in T
      BY <1>0, <1>1, <2>2
    <3>3. SubSeq(text, i, n) = <<text[i]>> \o SubSeq(text, i + 1, n)
      BY <1>0, <2>2 DEF Words
    <3> QED
      BY <3>1, <3>2, <3>3
  <2>3. CASE i \in 1 .. n /\ Here(candidates, i) # {}
    <3>1. Used(f, i) # {}
      BY <2>3 DEF Parts
    <3> QED
      BY <3>1
  <2> QED
    BY <1>0, <2>1, <2>2, <2>3
<1>2. 1 .. n + 1 \subseteq T
  <2> HIDE DEF T
  <2> QED
    BY <1>0, <1>1, Backwards
<1>3. Rest(f, 1) = SubSeq(text, 1, n)
  <2>1. 1 \in T
    <3> HIDE DEF T
    <3> QED
      BY <1>0, <1>2
  <2> QED
    BY <2>1
<1>4. SubSeq(text, 1, n) = text
  BY DEF Words
<1> QED
  BY <1>3, <1>4

LEMMA MappingGivesBack ==
    ASSUME NEW surfaces \in SUBSET Surfaces
    PROVE  GivesBack(MappingOf(surfaces), surfaces)
<1>1. \A s, t \in surfaces : Placeholder[s] = Placeholder[t] => s = t
  BY PlaceholdersDiffer DEF Surfaces
<1> QED
  BY <1>1 DEF GivesBack, MappingOf

(* What becomes of a text.                                                  *)
Becomes(text, candidates, f, result) ==
    /\ Parts(text, candidates, f) /\ Used(f, 1) \subseteq Surfaces
    /\ result.text = Rest(f, 1) /\ result.text \in Words
    /\ result.redacted <=> Used(f, 1) # {}
    /\ result.mapping = MappingOf(Used(f, 1))

LEMMA OutcomeBecomes ==
    ASSUME NEW text \in Words, NEW candidates, Sought(text, candidates)
    PROVE  \E f : Becomes(text, candidates, f, Outcome(text, candidates))
<1>1. PICK f : Parts(text, candidates, f) /\ Substitute(text, candidates) = f[1]
  BY SubstituteHasParts
<1>2. Used(f, 1) \subseteq Surfaces /\ Rest(f, 1) \in Words
  <2>1. f[1] \in Pieces
    BY <1>1 DEF Parts, Words
  <2> QED
    BY <2>1 DEF Pieces, Rest, Used
<1> DEFINE result == Outcome(text, candidates)
<1>3. /\ result.text = Rest(f, 1)
      /\ result.redacted = (Used(f, 1) # {})
      /\ result.mapping = MappingOf(Used(f, 1))
  BY <1>1 DEF Outcome, Rest, Used
<1> HIDE DEF result
<1>4. Becomes(text, candidates, f, result)
  BY <1>1, <1>2, <1>3 DEF Becomes
<1> QED
  BY <1>4 DEF result

(* What is sought in a text: every credential, and every other surface where *)
(* it may be replaced.                                                      *)
Covers(text, candidates, severe, inStrings) ==
    /\ Occurrences(Credentials, text) \subseteq candidates
    /\ \A o \in Occurrences(severe, text) : ~ inStrings \/ InString(text, o[1]) => o \in candidates

LEMMA NothingLeaks ==
    ASSUME NEW text \in Words, NEW candidates, Sought(text, candidates), NEW f,
           Parts(text, candidates, f), NEW severe \in SUBSET Surfaces, NEW inStrings,
           Covers(text, candidates, severe, inStrings)
    PROVE  /\ Occurrences(Credentials, Rest(f, 1)) = {}
           /\ \A o \in Occurrences(severe, Rest(f, 1)) :
                 ~ (~ inStrings \/ InString(Rest(f, 1), o[1]))
<1> DEFINE given == Rest(f, 1)
<1>1. ASSUME NEW s \in Surfaces, NEW k \in 1 .. Len(given), OccursAt(s, given, k)
      PROVE  \E i \in 1 .. Len(text) :
                /\ <<i, s>> \in (1 .. Len(text)) \X {s} /\ OccursAt(s, text, i)
                /\ <<i, s>> \notin candidates
                /\ InString(text, i) <=> InString(given, k)
  <2>1. LeftAt(text, candidates, given, s, k)
    BY <1>1, LeftIsCopied
  <2>2. PICK i \in 1 .. Len(text) : /\ OccursAt(s, text, i) /\ Here(candidates, i) = {}
                                    /\ JsonState(text)[i - 1] = JsonState(given)[k - 1]
    BY <2>1 DEF LeftAt
  <2>3. <<i, s>> \notin candidates
    <3>1. \A c \in candidates : ~ (c[1] = i /\ c[2] = s)
      BY <2>2 DEF Here
    <3> QED
      BY <3>1
  <2>4. InString(text, i) <=> InString(given, k)
    BY <2>2, Zenon DEF InString
  <2> QED
    BY <2>2, <2>3, <2>4
<1> HIDE DEF given
<1>2. ASSUME NEW o \in Occurrences(Credentials, given)
      PROVE  FALSE
  <2>1. o = <<o[1], o[2]>> /\ o[1] \in 1 .. Len(given) /\ o[2] \in Credentials /\ OccursAt(o[2], given, o[1])
    BY DEF Occurrences
  <2>2. o[2] \in Surfaces
    BY <2>1, PlaceholdersStandOut DEF Surfaces
  <2>3. PICK i \in 1 .. Len(text) : OccursAt(o[2], text, i) /\ <<i, o[2]>> \notin candidates
    BY <1>1, <2>1, <2>2
  <2>4. <<i, o[2]>> \in Occurrences(Credentials, text)
    BY <2>1, <2>3 DEF Occurrences
  <2> QED
    BY <2>3, <2>4 DEF Covers
<1>3. ASSUME NEW o \in Occurrences(severe, given), ~ inStrings \/ InString(given, o[1])
      PROVE  FALSE
  <2>1. o = <<o[1], o[2]>> /\ o[1] \in 1 .. Len(given) /\ o[2] \in severe /\ OccursAt(o[2], given, o[1])
    BY DEF Occurrences
  <2>2. PICK i \in 1 .. Len(text) : /\ OccursAt(o[2], text, i) /\ <<i, o[2]>> \notin candidates
                                    /\ InString(text, i) <=> InString(given, o[1])
    BY <1>1, <2>1
  <2>3. <<i, o[2]>> \in Occurrences(severe, text) /\ <<i, o[2]>>[1] = i
    BY <2>1, <2>2 DEF Occurrences
  <2>4. ~ inStrings \/ InString(text, <<i, o[2]>>[1])
    BY <1>3, <2>2, <2>3
  <2> QED
    BY <2>2, <2>3, <2>4 DEF Covers
<1> QED
  BY <1>2, <1>3 DEF given

-----------------------------------------------------------------------------
(* The store.                                                               *)

EntryOf(s) == [placeholder |-> Placeholder[s], secret |-> s, bytes |-> Len(s)]
AllEntries == {EntryOf(s) : s \in Surfaces}

(* A store holds pairs of surfaces, each once.                              *)
IsStore(e) ==
    /\ e \in Seq(AllEntries)
    /\ \A i, j \in DOMAIN e : e[i] = e[j] => i = j
Known(e) == {s \in Surfaces : \E i \in DOMAIN e : e[i] = EntryOf(s)}

LEMMA EntryIs ==
    ASSUME NEW s \in Surfaces
    PROVE  /\ EntryOf(s) \in AllEntries /\ EntryOf(s).placeholder = Placeholder[s]
           /\ EntryOf(s).secret = s
           /\ \A t \in Surfaces : EntryOf(s).placeholder = EntryOf(t).placeholder => s = t
           /\ \A t \in Surfaces : EntryOf(s) = EntryOf(t) => s = t
<1>1. /\ EntryOf(s).placeholder = Placeholder[s] /\ EntryOf(s).secret = s
      /\ EntryOf(s) \in AllEntries
  BY DEF EntryOf, AllEntries
<1>2. \A t \in Surfaces : EntryOf(t).placeholder = Placeholder[t] /\ EntryOf(t).secret = t
  BY DEF EntryOf
<1>3. \A t \in Surfaces : Placeholder[s] = Placeholder[t] => s = t
  BY PlaceholdersDiffer DEF Surfaces
<1> QED
  BY <1>1, <1>2, <1>3

LEMMA StoreHas ==
    ASSUME NEW e, IsStore(e), NEW i \in DOMAIN e
    PROVE  /\ \E s \in Known(e) : e[i] = EntryOf(s)
           /\ DOMAIN e = 1 .. Len(e) /\ Len(e) \in Nat
<1>1. e[i] \in AllEntries /\ DOMAIN e = 1 .. Len(e) /\ Len(e) \in Nat
  BY DEF IsStore
<1>2. PICK s \in Surfaces : e[i] = EntryOf(s)
  BY <1>1 DEF AllEntries
<1>3. s \in Known(e)
  BY <1>2 DEF Known
<1> QED
  BY <1>1, <1>2, <1>3

(* It holds as many pairs as surfaces it knows.                             *)
LEMMA StoreCounts ==
    ASSUME NEW e, IsStore(e)
    PROVE  IsFiniteSet(Known(e)) /\ Cardinality(Known(e)) = Len(e) /\ Len(e) \in Nat
<1>1. Len(e) \in Nat /\ DOMAIN e = 1 .. Len(e)
  BY DEF IsStore
<1> DEFINE D == 1 .. Len(e)
           f == [i \in D |-> CHOOSE s \in Known(e) : e[i] = EntryOf(s)]
<1>2. ASSUME NEW i \in D
      PROVE  f[i] \in Known(e) /\ e[i] = EntryOf(f[i])
  BY <1>1, StoreHas
<1>3. \A s \in Known(e) : \E i \in D : e[i] = EntryOf(s)
  BY <1>1 DEF Known
<1>4. f \in [D -> Known(e)]
  BY <1>2
<1>5. \A i, j \in D : f[i] = f[j] => i = j
  <2> HIDE DEF f
  <2>1. ASSUME NEW i \in D, NEW j \in D, f[i] = f[j]
        PROVE  i = j
    <3>1. e[i] = e[j]
      BY <1>2, <2>1
    <3> QED
      BY <1>1, <3>1 DEF IsStore
  <2> QED
    BY <2>1
<1>6. \A s \in Known(e) : \E i \in D : f[i] = s
  <2> HIDE DEF f
  <2>1. ASSUME NEW s \in Known(e)
        PROVE  \E i \in D : f[i] = s
    <3>1. PICK i \in D : e[i] = EntryOf(s)
      BY <1>3
    <3>2. EntryOf(f[i]) = EntryOf(s) /\ f[i] \in Surfaces /\ s \in Surfaces
      BY <1>2, <3>1 DEF Known
    <3> QED
      BY <3>2, EntryIs
  <2> QED
    BY <2>1
<1>7. f \in Bijection(D, Known(e))
  <2> HIDE DEF f, D
  <2> QED
    BY <1>4, <1>5, <1>6 DEF Bijection, Injection, Surjection, IsInjective
<1>8. ExistsBijection(D, Known(e)) /\ IsFiniteSet(D) /\ Cardinality(D) = Len(e)
  <2>1. IsFiniteSet(D) /\ Cardinality(D) = Len(e)
    <3> DEFINE n == Len(e)
    <3>1. 1 \in Int /\ n \in Int /\ n \in Nat
      BY <1>1
    <3> HIDE DEF n
    <3>2. IsFiniteSet(1 .. n) /\ Cardinality(1 .. n) = IF 1 > n THEN 0 ELSE n - 1 + 1
      BY <3>1, FS_Interval
    <3>3. Cardinality(1 .. n) = n
      BY <3>1, <3>2
    <3> QED
      BY <3>2, <3>3 DEF n
  <2> HIDE DEF f, D
  <2> QED
    BY <1>7, <2>1 DEF ExistsBijection
<1> HIDE DEF D, f
<1> QED
  BY <1>1, <1>8, FS_Bijection

(* What a snapshot gives back.                                              *)
LEMMA SnapshotGivesBack ==
    ASSUME NEW e, IsStore(e)
    PROVE  GivesBack(Snapshot(e), Known(e))
<1>0. Len(e) \in Nat /\ DOMAIN e = 1 .. Len(e)
  BY DEF IsStore
<1> DEFINE D == 1 .. Len(e)
           P == {e[i].placeholder : i \in D}
           m == Snapshot(e)
<1>1. P = {Placeholder[s] : s \in Known(e)}
  <2>1. ASSUME NEW i \in D
        PROVE  \E s \in Known(e) : e[i].placeholder = Placeholder[s]
    <3>1. PICK s \in Known(e) : e[i] = EntryOf(s)
      BY <1>0, StoreHas
    <3>2. EntryOf(s).placeholder = Placeholder[s]
      BY EntryIs DEF Known
    <3> QED
      BY <3>1, <3>2
  <2>2. ASSUME NEW s \in Known(e)
        PROVE  \E i \in D : e[i].placeholder = Placeholder[s]
    <3>1. PICK i \in D : e[i] = EntryOf(s)
      BY <1>0 DEF Known
    <3>2. EntryOf(s).placeholder = Placeholder[s]
      BY EntryIs DEF Known
    <3> QED
      BY <3>1, <3>2
  <2> QED
    BY <2>1, <2>2
<1>2. m = [p \in P |-> LET i == CHOOSE i \in D : e[i].placeholder = p IN e[i].secret]
  BY DEF Snapshot
<1>3. ASSUME NEW s \in Known(e)
      PROVE  m[Placeholder[s]] = s
  <2>1. Placeholder[s] \in P
    <3> HIDE DEF P
    <3> QED
      BY <1>1
  <2> DEFINE i == CHOOSE i \in D : e[i].placeholder = Placeholder[s]
  <2>2. m[Placeholder[s]] = e[i].secret
    <3> HIDE DEF P, m
    <3> QED
      BY <1>2, <2>1
  <2>3. i \in D /\ e[i].placeholder = Placeholder[s]
    BY <2>1
  <2> HIDE DEF i
  <2>4. PICK t \in Known(e) : e[i] = EntryOf(t)
    BY <1>0, <2>3, StoreHas
  <2>5. s \in Surfaces /\ t \in Surfaces
    BY DEF Known
  <2>6. EntryOf(t).placeholder = EntryOf(s).placeholder /\ EntryOf(t).secret = t
    BY <2>3, <2>4, <2>5, EntryIs
  <2>7. t = s
    BY <2>5, <2>6, EntryIs
  <2> QED
    BY <2>2, <2>4, <2>6, <2>7
<1>4. DOMAIN m = P
  <2> HIDE DEF P, D
  <2> QED
    BY <1>2
<1> HIDE DEF m, P
<1>5. Known(e) \subseteq Surfaces
  BY DEF Known
<1>6. GivesBack(m, Known(e))
  BY <1>1, <1>3, <1>4, <1>5 DEF GivesBack
<1> QED
  BY <1>6 DEF m

(* Recording a pair once more leaves it in the store once.                   *)
LEMMA InsertIsKnown ==
    ASSUME NEW e, IsStore(e), NEW s \in Surfaces
    PROVE  IsStore(Insert(e, EntryOf(s))) /\ Known(Insert(e, EntryOf(s))) = Known(e) \cup {s}
<1> DEFINE x == EntryOf(s)
           same == {i \in DOMAIN e : e[i].placeholder = x.placeholder}
           place == CHOOSE i \in same : TRUE
           n == Len(e)
<1>0. /\ n \in Nat /\ DOMAIN e = 1 .. n /\ e \in Seq(AllEntries) /\ x \in AllEntries
      /\ \A i, j \in 1 .. n : e[i] = e[j] => i = j
  BY EntryIs DEF IsStore
<1>1. \A i \in DOMAIN e : i \in same <=> e[i] = x
  <2>1. ASSUME NEW i \in DOMAIN e
        PROVE  i \in same <=> e[i] = x
    <3>1. PICK t \in Known(e) : e[i] = EntryOf(t)
      BY StoreHas
    <3>2. t \in Surfaces
      BY DEF Known
    <3>3. EntryOf(t).placeholder = x.placeholder <=> EntryOf(t) = x
      BY <3>2, EntryIs
    <3> QED
      BY <3>1, <3>3
  <2> QED
    BY <2>1
<1>2. Insert(e, x) = IF same = {} THEN Append(e, x)
                     ELSE SubSeq(e, 1, place - 1) \o Append(SubSeq(e, place + 1, n), x)
  BY DEF Insert
<1> HIDE DEF x, same, place
<1>3. ASSUME NEW g, g \in Seq(AllEntries),
             \A i, j \in DOMAIN g : g[i] = g[j] => i = j,
             \A y : (\E i \in DOMAIN g : g[i] = y) <=> (y = x \/ \E i \in DOMAIN e : e[i] = y)
      PROVE  IsStore(g) /\ Known(g) = Known(e) \cup {s}
  <2>1. \A t \in Surfaces : EntryOf(t) = x <=> t = s
    BY EntryIs DEF x
  <2>2. Known(g) = Known(e) \cup {s}
    BY <1>3, <2>1 DEF Known
  <2> QED
    BY <1>3, <2>2 DEF IsStore
<1>4. CASE same = {}
  <2> DEFINE g == Append(e, x)
  <2>1. g \in Seq(AllEntries) /\ Len(g) = n + 1 /\ DOMAIN g = 1 .. n + 1
        /\ g[n + 1] = x /\ \A i \in 1 .. n : g[i] = e[i]
    BY <1>0
  <2> HIDE DEF g
  <2>2. \A i \in 1 .. n : e[i] # x
    BY <1>0, <1>1, <1>4
  <2>3. \A i, j \in DOMAIN g : g[i] = g[j] => i = j
    BY <1>0, <2>1, <2>2
  <2>4. \A y : (\E i \in DOMAIN g : g[i] = y) <=> (y = x \/ \E i \in DOMAIN e : e[i] = y)
    BY <1>0, <2>1
  <2> QED
    BY <1>2, <1>3, <1>4, <2>1, <2>3, <2>4 DEF g, x
<1>5. CASE same # {}
  <2>1. place \in 1 .. n /\ e[place] = x
    BY <1>0, <1>1, <1>5 DEF place, same
  <2> DEFINE a == SubSeq(e, 1, place - 1)
             b == SubSeq(e, place + 1, n)
             g == a \o Append(b, x)
  <2>2. /\ a \in Seq(AllEntries) /\ Len(a) = place - 1
        /\ \A i \in 1 .. place - 1 : a[i] = e[i]
    BY <1>0, <2>1
  <2>3. /\ b \in Seq(AllEntries) /\ Len(b) = n - place
        /\ \A i \in 1 .. n - place : b[i] = e[i + place]
    <3>1. place + 1 \in 1 .. n + 1 /\ n \in place + 1 - 1 .. n
      BY <1>0, <2>1
    <3> DEFINE m == place + 1
    <3>2. m \in Int /\ n \in Int /\ \A i \in m .. n : e[i] \in AllEntries
      BY <1>0, <2>1
    <3> HIDE DEF m, n
    <3>3. /\ SubSeq(e, m, n) \in Seq(AllEntries)
          /\ Len(SubSeq(e, m, n)) = IF m <= n THEN n - m + 1 ELSE 0
          /\ \A i \in 1 .. n - m + 1 : SubSeq(e, m, n)[i] = e[m + i - 1]
      BY <3>2, SubSeqProperties
    <3>4. /\ b \in Seq(AllEntries) /\ Len(b) = IF m <= n THEN n - m + 1 ELSE 0
          /\ \A i \in 1 .. n - m + 1 : b[i] = e[m + i - 1]
      BY <3>3 DEF b, m
    <3>5. /\ n - m + 1 = n - place /\ \A i \in 1 .. n - place : m + i - 1 = i + place
          /\ (IF m <= n THEN n - m + 1 ELSE 0) = n - place
      BY <1>0, <2>1 DEF m
    <3> HIDE DEF b
    <3> QED
      BY <3>4, <3>5
  <2> HIDE DEF a, b
  <2>4. /\ Append(b, x) \in Seq(AllEntries) /\ Len(Append(b, x)) = n - place + 1
        /\ \A i \in 1 .. n - place : Append(b, x)[i] = b[i]
        /\ Append(b, x)[n - place + 1] = x
    <3>1. b \in Seq(AllEntries) /\ x \in AllEntries
      BY <1>0, <2>3
    <3>2. /\ Append(b, x) \in Seq(AllEntries) /\ Len(Append(b, x)) = Len(b) + 1
          /\ \A i \in 1 .. Len(b) : Append(b, x)[i] = b[i]
          /\ Append(b, x)[Len(b) + 1] = x
      BY <3>1, AppendProperties
    <3> QED
      BY <2>3, <3>2
  <2>5. /\ g \in Seq(AllEntries) /\ Len(g) = n /\ DOMAIN g = 1 .. n
        /\ \A i \in 1 .. place - 1 : g[i] = a[i]
        /\ \A i \in place .. n : g[i] = Append(b, x)[i - place + 1]
    <3> DEFINE c == Append(b, x)
    <3>1. c \in Seq(AllEntries) /\ Len(c) = n - place + 1
      BY <2>4
    <3> HIDE DEF c
    <3>2. /\ a \o c \in Seq(AllEntries) /\ Len(a \o c) = Len(a) + Len(c)
          /\ \A i \in 1 .. Len(a) + Len(c) :
                (a \o c)[i] = IF i <= Len(a) THEN a[i] ELSE c[i - Len(a)]
      BY <2>2, <3>1, ConcatProperties
    <3>3. /\ Len(a) + Len(c) = n
          /\ \A i \in place .. n : i - Len(a) = i - place + 1 /\ ~ (i <= Len(a)) /\ i \in 1 .. n
          /\ \A i \in 1 .. place - 1 : i <= Len(a) /\ i \in 1 .. n
      BY <1>0, <2>1, <2>2, <3>1
    <3>4. g = a \o c
      BY DEF c
    <3> HIDE DEF g
    <3> QED
      BY <3>2, <3>3, <3>4 DEF c
  <2> HIDE DEF g
  <2>6. \A i \in 1 .. place - 1 : g[i] = e[i]
    BY <2>2, <2>5
  <2>7. ASSUME NEW i \in place .. n - 1
        PROVE  g[i] = e[i + 1]
    <3>1. i - place + 1 \in 1 .. n - place /\ i - place + 1 + place = i + 1
      BY <1>0, <2>1
    <3> QED
      BY <1>0, <2>1, <2>3, <2>4, <2>5, <3>1
  <2>8. g[n] = x
    BY <1>0, <2>1, <2>4, <2>5
  <2>9. \A i, j \in DOMAIN g : g[i] = g[j] => i = j
    <3> DEFINE was == [i \in 1 .. n |-> IF i < place THEN i ELSE IF i < n THEN i + 1 ELSE place]
    <3>1. \A i \in 1 .. n : was[i] \in 1 .. n /\ g[i] = e[was[i]]
      BY <1>0, <2>1, <2>6, <2>7, <2>8
    <3>2. \A i, j \in 1 .. n : was[i] = was[j] => i = j
      BY <1>0, <2>1
    <3> HIDE DEF was
    <3> QED
      BY <1>0, <2>5, <3>1, <3>2
  <2>10. \A y : (\E i \in DOMAIN g : g[i] = y) <=> (y = x \/ \E i \in DOMAIN e : e[i] = y)
    <3>1. ASSUME NEW i \in 1 .. n
          PROVE  (g[i] = x \/ \E j \in 1 .. n : e[j] = g[i]) /\ (\E j \in 1 .. n : g[j] = e[i])
      <4>1. CASE i < place
        BY <1>0, <2>1, <2>6, <4>1
      <4>2. CASE i = place
        BY <1>0, <2>1, <2>7, <2>8, <4>2
      <4>3. CASE i > place
        <5>1. i - 1 \in place .. n - 1 /\ i - 1 + 1 = i
          BY <1>0, <2>1, <4>3
        <5>2. g[i - 1] = e[i] /\ i - 1 \in 1 .. n
          <6>1. g[i - 1] = e[i - 1 + 1]
            BY <2>7, <5>1
          <6> QED
            BY <1>0, <2>1, <5>1, <6>1
        <5>3. i \in place .. n - 1 \/ i = n
          <6>1. CASE i # n
            <7>1. n \in Int /\ place \in Int /\ i \in Int /\ i <= n /\ i >= place
              BY <1>0, <2>1, <4>3
            <7> HIDE DEF n
            <7> QED
              BY <6>1, <7>1
          <6> QED
            BY <6>1
        <5>4. g[i] = x \/ \E j \in 1 .. n : e[j] = g[i]
          <6>1. CASE i \in place .. n - 1
            <7>1. g[i] = e[i + 1] /\ i + 1 \in 1 .. n
              BY <1>0, <2>1, <2>7, <6>1
            <7> QED
              BY <7>1
          <6>2. CASE i = n
            BY <2>8, <6>2
          <6> QED
            BY <5>3, <6>1, <6>2
        <5> QED
          BY <5>2, <5>4
      <4> QED
        BY <1>0, <2>1, <4>1, <4>2, <4>3
    <3>2. ASSUME NEW y, NEW i \in DOMAIN g, g[i] = y
          PROVE  y = x \/ \E j \in DOMAIN e : e[j] = y
      BY <1>0, <2>5, <3>1, <3>2
    <3>3. ASSUME NEW y, y = x \/ \E j \in DOMAIN e : e[j] = y
          PROVE  \E i \in DOMAIN g : g[i] = y
      <4>1. CASE y = x
        <5>1. n \in DOMAIN g
          BY <1>0, <2>1, <2>5
        <5> QED
          BY <2>8, <4>1, <5>1
      <4>2. CASE \E j \in DOMAIN e : e[j] = y
        <5>1. PICK j \in 1 .. n : e[j] = y
          BY <1>0, <4>2
        <5>2. PICK i \in 1 .. n : g[i] = e[j]
          BY <3>1
        <5> QED
          BY <2>5, <5>1, <5>2
      <4> QED
        BY <3>3, <4>1, <4>2
    <3> QED
      BY <3>2, <3>3
  <2> QED
    BY <1>2, <1>3, <1>5, <2>5, <2>9, <2>10 DEF g, a, b, x
<1> QED
  BY <1>4, <1>5

(* Recording some pairs, one after the other.                               *)
Stores == {e \in Seq(AllEntries) : IsStore(e)}
NextStore(e, order, f, i) == IF i = 0 THEN e ELSE Insert(f[i - 1], order[i])
Ordered(order) == order \in Seq(AllEntries)
Listed(order, i) == {s \in Surfaces : \E j \in 1 .. i : order[j] = EntryOf(s)}

OneMore(before, after, entry) ==
    \E s \in Surfaces : entry = EntryOf(s) /\ Known(after) = Known(before) \cup {s}

LEMMA NextIsAStore ==
    ASSUME NEW e \in Stores, NEW order, Ordered(order), NEW f, NEW i \in 0 .. Len(order),
           i # 0 => f[i - 1] \in Stores
    PROVE  /\ NextStore(e, order, f, i) \in Stores
           /\ i # 0 => OneMore(f[i - 1], NextStore(e, order, f, i), order[i])
<1>1. CASE i = 0
  BY <1>1 DEF NextStore
<1>2. CASE i # 0
  <2>1. i \in 1 .. Len(order) /\ order \in Seq(AllEntries)
    BY <1>2 DEF Ordered
  <2>2. order[i] \in AllEntries
    BY <2>1
  <2>3. PICK s \in Surfaces : order[i] = EntryOf(s)
    BY <2>2 DEF AllEntries
  <2> DEFINE before == f[i - 1]
             after == Insert(before, EntryOf(s))
  <2>4. IsStore(before)
    BY <1>2 DEF Stores
  <2>5. NextStore(e, order, f, i) = after
    BY <1>2, <2>3 DEF NextStore
  <2> HIDE DEF before
  <2>6. IsStore(after) /\ Known(after) = Known(before) \cup {s}
    BY <2>4, InsertIsKnown
  <2> HIDE DEF after
  <2>7. after \in Stores
    BY <2>6 DEF Stores, IsStore
  <2>8. OneMore(before, after, order[i])
    BY <2>3, <2>6 DEF OneMore
  <2> QED
    BY <2>5, <2>7, <2>8 DEF before
<1> QED
  BY <1>1, <1>2

LEMMA StoresFollow ==
    ASSUME NEW e \in Stores, NEW order, Ordered(order)
    PROVE  \E f \in [0 .. Len(order) -> Stores] :
              f = [i \in 0 .. Len(order) |-> NextStore(e, order, f, i)]
<1> DEFINE n == Len(order)
           D == 0 .. n
           rank == [i \in D |-> i]
           G == [x \in [D -> Stores] \X D |-> NextStore(e, order, x[1], x[2])]
<1>0. n \in Nat
  BY DEF Ordered
<1>1. Stores # {}
  OBVIOUS
<1>2. rank \in [D -> Nat] /\ n + 1 \in Nat /\ \A i \in D : rank[i] < n + 1
  BY <1>0
<1>3. G \in [[D -> Stores] \X D -> Stores]
  <2>1. ASSUME NEW f \in [D -> Stores], NEW i \in D
        PROVE  NextStore(e, order, f, i) \in Stores
    <3>1. i # 0 => f[i - 1] \in Stores
      BY <1>0
    <3> QED
      BY <3>1, NextIsAStore
  <2>2. \A x \in [D -> Stores] \X D : NextStore(e, order, x[1], x[2]) \in Stores
    BY <2>1
  <2> QED
    BY <2>2
<1>4. ASSUME NEW f \in [D -> Stores], NEW g \in [D -> Stores], NEW i \in D,
             \A j \in D : rank[j] < rank[i] => f[j] = g[j]
      PROVE  NextStore(e, order, f, i) = NextStore(e, order, g, i)
  <2>1. CASE i = 0
    BY <2>1 DEF NextStore
  <2>2. CASE i # 0
    <3>1. i - 1 \in D /\ rank[i - 1] < rank[i]
      BY <1>0, <2>2
    <3>2. f[i - 1] = g[i - 1]
      BY <1>4, <3>1
    <3> QED
      BY <2>2, <3>2 DEF NextStore
  <2> QED
    BY <2>1, <2>2
<1>5. \A f \in [D -> Stores], i \in D : G[<<f, i>>] = NextStore(e, order, f, i)
  OBVIOUS
<1>6. LooksDown(G, D, Stores, rank)
  <2> HIDE DEF G, rank, D
  <2> QED
    BY <1>4, <1>5 DEF LooksDown
<1>7. PICK f \in [D -> Stores] : Unrolls(f, G, D)
  <2> HIDE DEF G, rank, D, n
  <2> QED
    BY <1>0, <1>1, <1>2, <1>3, <1>6, Recursion
<1>8. f = [i \in D |-> NextStore(e, order, f, i)]
  BY <1>5, <1>7 DEF Unrolls
<1> QED
  BY <1>8

(* Nothing weighs nothing.                                                  *)
LEMMA NothingWeighs == Bytes(<<>>) = 0
<1> DEFINE Is(f) == f = [i \in 0 .. 0 |-> IF i = 0 THEN 0 ELSE f[i - 1] + <<>>[i].bytes]
           zero == [i \in 0 .. 0 |-> 0]
<1>1. Len(<<>>) = 0
  OBVIOUS
<1>2. Is(zero)
  <2>1. \A i \in 0 .. 0 : i = 0
    OBVIOUS
  <2> QED
    BY <2>1
<1>3. Bytes(<<>>) = (CHOOSE f : Is(f))[0]
  BY <1>1 DEF Bytes
<1>4. ASSUME NEW f, Is(f)
      PROVE  f[0] = 0
  <2>1. 0 \in 0 .. 0
    OBVIOUS
  <2> QED
    BY <1>4, <2>1
<1> HIDE DEF Is
<1> QED
  BY <1>2, <1>3, <1>4

(* What is evicted are the oldest.                                          *)
LEMMA EvictKeepsTheLatest ==
    ASSUME NEW e \in Stores, NEW most \in Nat, NEW bytes \in Nat
    PROVE  \E k \in 0 .. Len(e) : EvictTo(e, most, bytes) = SubSeq(e, k + 1, Len(e))
<1> DEFINE n == Len(e)
           Fits(k) == LET kept == SubSeq(e, k + 1, n)
                      IN  Len(kept) <= most /\ Bytes(kept) <= bytes
           T == {k \in 0 .. n : Fits(k)}
           Least(k) == Fits(k) /\ \A j \in 0 .. k - 1 : ~ Fits(j)
<1>0. n \in Nat
  BY DEF Stores
<1>1. EvictTo(e, most, bytes) = SubSeq(e, (CHOOSE k \in 0 .. n : Least(k)) + 1, n)
  BY DEF EvictTo
<1>2. n \in T
  <2>1. n + 1 \in Int /\ n \in Int /\ n < n + 1 /\ n \in 0 .. n
    BY <1>0
  <2>2. SubSeq(e, n + 1, n) = <<>>
    BY <2>1, SubSeqEmpty
  <2>3. Len(<<>>) = 0 /\ 0 <= most /\ 0 <= bytes
    OBVIOUS
  <2>4. Fits(n)
    BY <2>2, <2>3, NothingWeighs
  <2> HIDE DEF Fits
  <2> QED
    BY <2>1, <2>4
<1> HIDE DEF Fits
<1>3. PICK k \in T : \A j \in T : k <= j
  <2>1. T \in SUBSET Nat
    BY <1>0
  <2> HIDE DEF T
  <2> QED
    BY <1>2, <2>1, LeastExists
<1>4. k \in 0 .. n /\ Least(k)
  BY <1>0, <1>3
<1>5. (CHOOSE j \in 0 .. n : Least(j)) \in 0 .. n
  <2> HIDE DEF Least, n
  <2> QED
    BY <1>4
<1> QED
  BY <1>1, <1>5

(* A record call: everything listed is known, unless something was evicted.  *)
LEMMA RecordedKnows ==
    ASSUME NEW e \in Stores, NEW order, Ordered(order), NEW most \in Nat, NEW bytes \in Nat
    PROVE  \E all \in Stores :
              /\ Known(all) = Known(e) \cup Listed(order, Len(order))
              /\ \E k \in 0 .. Len(all) :
                    Recorded(e, order, most, bytes) = SubSeq(all, k + 1, Len(all))
<1> DEFINE n == Len(order)
           Is(f) == f = [i \in 0 .. n |-> NextStore(e, order, f, i)]
<1>0. n \in Nat
  BY DEF Ordered
<1>1. PICK f : Is(f) /\ Recorded(e, order, most, bytes) = EvictTo(f[n], most, bytes)
  <2>1. \E f : Is(f)
    BY StoresFollow
  <2>2. Recorded(e, order, most, bytes) = EvictTo((CHOOSE f : Is(f))[n], most, bytes)
    BY DEF Recorded, NextStore
  <2> HIDE DEF Is
  <2> QED
    BY <2>1, <2>2
<1>2. ASSUME NEW i \in 0 .. n
      PROVE  f[i] = NextStore(e, order, f, i)
  BY <1>1
<1> DEFINE T == {i \in Nat : i <= n => f[i] \in Stores /\ Known(f[i]) = Known(e) \cup Listed(order, i)}
<1>3. 0 \in T
  <2>1. f[0] = e
    BY <1>0, <1>2 DEF NextStore
  <2>2. Listed(order, 0) = {}
    BY DEF Listed
  <2> QED
    BY <2>1, <2>2
<1>4. ASSUME NEW i \in T
      PROVE  i + 1 \in T
  <2>1. SUFFICES ASSUME i + 1 <= n
                 PROVE  f[i + 1] \in Stores /\ Known(f[i + 1]) = Known(e) \cup Listed(order, i + 1)
    BY <1>4
  <2>2. i \in Nat /\ i + 1 \in 0 .. n /\ (i + 1) - 1 = i /\ i + 1 # 0 /\ i <= n
    BY <1>0, <1>4, <2>1
  <2>3. f[i] \in Stores /\ Known(f[i]) = Known(e) \cup Listed(order, i)
    BY <1>4, <2>2
  <2> DEFINE j == i + 1
  <2>4. j \in 0 .. n /\ j # 0 /\ j - 1 = i /\ f[j - 1] \in Stores
    BY <2>2, <2>3
  <2> HIDE DEF j
  <2>5. PICK s \in Surfaces : /\ order[j] = EntryOf(s)
                              /\ Known(NextStore(e, order, f, j)) = Known(f[j - 1]) \cup {s}
    <3>1. j \in 0 .. Len(order) /\ (j # 0 => f[j - 1] \in Stores)
      BY <2>4
    <3>2. j # 0 => OneMore(f[j - 1], NextStore(e, order, f, j), order[j])
      BY <3>1, NextIsAStore
    <3> QED
      BY <2>4, <3>2 DEF OneMore
  <2>6. NextStore(e, order, f, j) \in Stores
    BY <2>4, NextIsAStore
  <2>7. Listed(order, j) = Listed(order, i) \cup {s}
    <3>1. 1 .. j = 1 .. i \cup {j}
      BY <2>2 DEF j
    <3>2. \A t \in Surfaces : order[j] = EntryOf(t) <=> t = s
      BY <2>5, EntryIs
    <3> QED
      BY <3>1, <3>2 DEF Listed
  <2>8. f[j] \in Stores /\ Known(f[j]) = Known(e) \cup Listed(order, j)
    BY <1>2, <2>3, <2>4, <2>5, <2>6, <2>7
  <2> QED
    BY <2>8 DEF j
<1>5. T = Nat
  <2>1. T \in SUBSET Nat
    OBVIOUS
  <2> HIDE DEF T
  <2> QED
    BY <1>3, <1>4, <2>1, Induction
<1>6. f[n] \in Stores /\ Known(f[n]) = Known(e) \cup Listed(order, n)
  <2>1. n \in T /\ n <= n
    <3> HIDE DEF T
    <3> QED
      BY <1>0, <1>5
  <2> QED
    BY <2>1
<1> DEFINE all == f[n]
<1>7. all \in Stores /\ Recorded(e, order, most, bytes) = EvictTo(all, most, bytes)
  BY <1>1, <1>6
<1> HIDE DEF all
<1>8. \E k \in 0 .. Len(all) : EvictTo(all, most, bytes) = SubSeq(all, k + 1, Len(all))
  BY <1>7, EvictKeepsTheLatest
<1>9. Known(all) = Known(e) \cup Listed(order, n)
  BY <1>6 DEF all
<1> QED
  BY <1>7, <1>8, <1>9

(* The latest pairs of a store are a store.                                 *)
LEMMA LatestIsAStore ==
    ASSUME NEW e \in Stores, NEW k \in 0 .. Len(e)
    PROVE  /\ SubSeq(e, k + 1, Len(e)) \in Stores
           /\ Len(SubSeq(e, k + 1, Len(e))) = Len(e) - k
           /\ k = 0 => SubSeq(e, k + 1, Len(e)) = e
<1> DEFINE n == Len(e)
           m == k + 1
           g == SubSeq(e, m, n)
<1>0. /\ n \in Nat /\ n \in Int /\ m \in Int /\ e \in Seq(AllEntries)
      /\ \A i \in m .. n : e[i] \in AllEntries /\ i \in 1 .. n
      /\ \A i, j \in 1 .. n : e[i] = e[j] => i = j
  BY DEF Stores, IsStore
<1>1. /\ g \in Seq(AllEntries) /\ Len(g) = (IF m <= n THEN n - m + 1 ELSE 0)
      /\ \A i \in 1 .. n - m + 1 : g[i] = e[m + i - 1]
  <2> HIDE DEF n, m
  <2> QED
    BY <1>0, SubSeqProperties
<1>2. n - m + 1 = n - k /\ (IF m <= n THEN n - m + 1 ELSE 0) = n - k
      /\ \A i \in 1 .. n - k : m + i - 1 = i + k
  BY <1>0
<1> HIDE DEF g, m
<1>3. Len(g) = n - k /\ DOMAIN g = 1 .. n - k /\ \A i \in 1 .. n - k : g[i] = e[i + k] /\ i + k \in 1 .. n
  <2>1. Len(g) = n - k /\ \A i \in 1 .. n - k : g[i] = e[i + k]
    BY <1>1, <1>2
  <2>2. DOMAIN g = 1 .. Len(g)
    BY <1>1
  <2>3. \A i \in 1 .. n - k : i + k \in 1 .. n
    BY <1>0
  <2> QED
    BY <2>1, <2>2, <2>3
<1>4. \A i, j \in DOMAIN g : g[i] = g[j] => i = j
  <2>1. ASSUME NEW i \in 1 .. n - k, NEW j \in 1 .. n - k, g[i] = g[j]
        PROVE  i = j
    <3>1. e[i + k] = e[j + k] /\ i + k \in 1 .. n /\ j + k \in 1 .. n
      BY <1>3, <2>1
    <3>2. i + k = j + k
      BY <1>0, <3>1
    <3> QED
      BY <1>0, <3>2
  <2> QED
    BY <1>3, <2>1
<1>5. g \in Stores
  BY <1>1, <1>4 DEF Stores, IsStore
<1>6. ASSUME k = 0
      PROVE  g = e
  <2>1. Len(g) = Len(e) /\ \A i \in 1 .. Len(e) : g[i] = e[i]
    BY <1>0, <1>3, <1>6
  <2> QED
    BY <1>0, <1>1, <2>1
<1> QED
  BY <1>3, <1>5, <1>6 DEF g, m

(* There are as many placeholders, and as many pairs, as surfaces.           *)
LEMMA PlaceholdersCount ==
    ASSUME NEW S \in SUBSET Surfaces, IsFiniteSet(S)
    PROVE  /\ IsFiniteSet({Placeholder[s] : s \in S})
           /\ Cardinality({Placeholder[s] : s \in S}) = Cardinality(S)
<1> DEFINE T == {Placeholder[s] : s \in S}
           f == [s \in S |-> Placeholder[s]]
<1>1. \A s, t \in S : Placeholder[s] = Placeholder[t] => s = t
  BY PlaceholdersDiffer DEF Surfaces
<1>2. f \in Bijection(S, T)
  BY <1>1 DEF Bijection, Injection, Surjection, IsInjective
<1>3. ExistsBijection(S, T)
  BY <1>2 DEF ExistsBijection
<1> HIDE DEF T
<1>4. IsFiniteSet(T) /\ Cardinality(T) = Cardinality(S)
  BY <1>3, FS_Bijection
<1> QED
  BY <1>4 DEF T

LEMMA EntriesCount ==
    ASSUME NEW S \in SUBSET Surfaces, IsFiniteSet(S)
    PROVE  /\ IsFiniteSet({EntryOf(s) : s \in S})
           /\ Cardinality({EntryOf(s) : s \in S}) = Cardinality(S)
<1> DEFINE T == {EntryOf(s) : s \in S}
           f == [s \in S |-> EntryOf(s)]
<1>1. \A s, t \in S : EntryOf(s) = EntryOf(t) => s = t
  BY EntryIs
<1>2. f \in Bijection(S, T)
  BY <1>1 DEF Bijection, Injection, Surjection, IsInjective
<1>3. ExistsBijection(S, T)
  BY <1>2 DEF ExistsBijection
<1> HIDE DEF T
<1>4. IsFiniteSet(T) /\ Cardinality(T) = Cardinality(S)
  BY <1>3, FS_Bijection
<1> QED
  BY <1>4 DEF T

(* However a hash map gives its pairs, it gives them all.                    *)
LEMMA OrdersListAll ==
    ASSUME NEW S \in SUBSET Surfaces, IsFiniteSet(S), NEW order \in Orders(MappingOf(S))
    PROVE  Ordered(order) /\ Listed(order, Len(order)) = S
<1> DEFINE mapping == MappingOf(S)
           E == {Entry(mapping, p) : p \in DOMAIN mapping}
           n == Cardinality(DOMAIN mapping)
<1>1. GivesBack(mapping, S)
  BY MappingGivesBack
<1>2. order \in [1 .. n -> E] /\ \A i, j \in 1 .. n : order[i] = order[j] => i = j
  BY DEF Orders
<1> HIDE DEF mapping
<1>3. E = {EntryOf(s) : s \in S}
  BY <1>1 DEF GivesBack, Entry, EntryOf
<1>4. DOMAIN mapping = {Placeholder[s] : s \in S}
  BY <1>1 DEF GivesBack
<1>5. n = Cardinality(S) /\ IsFiniteSet(E) /\ Cardinality(E) = n /\ n \in Nat
  <2>1. n = Cardinality(S)
    BY <1>4, PlaceholdersCount
  <2>2. IsFiniteSet(E) /\ Cardinality(E) = Cardinality(S)
    BY <1>3, EntriesCount
  <2>3. Cardinality(S) \in Nat
    BY FS_CardinalityType
  <2> QED
    BY <2>1, <2>2, <2>3
<1> HIDE DEF E, n
<1>6. order \in Injection(1 .. n, E)
  BY <1>2 DEF Injection, IsInjective
<1>7. Cardinality(1 .. n) = n
  <2>1. 1 \in Int /\ n \in Int
    BY <1>5
  <2>2. Cardinality(1 .. n) = IF 1 > n THEN 0 ELSE n - 1 + 1
    BY <2>1, FS_Interval
  <2> QED
    BY <1>5, <2>2
<1>8. order \in Surjection(1 .. n, E)
  BY <1>5, <1>6, <1>7, FS_Injection
<1>9. \A s \in S : EntryOf(s) \in E /\ \E i \in 1 .. n : order[i] = EntryOf(s)
  BY <1>3, <1>8 DEF Surjection
<1>10. E \subseteq AllEntries
  BY <1>3 DEF AllEntries
<1>11. order \in Seq(AllEntries) /\ Len(order) = n
  BY <1>2, <1>5, <1>10
<1>12. \A s \in Surfaces : (\E i \in 1 .. n : order[i] = EntryOf(s)) => s \in S
  <2>1. ASSUME NEW s \in Surfaces, NEW i \in 1 .. n, order[i] = EntryOf(s)
        PROVE  s \in S
    <3>1. order[i] \in E
      BY <1>2
    <3>2. PICK t \in S : EntryOf(s) = EntryOf(t)
      BY <1>3, <2>1, <3>1
    <3> QED
      BY <3>2, EntryIs
  <2> QED
    BY <2>1
<1> QED
  BY <1>9, <1>11, <1>12 DEF Ordered, Listed

(* What a record call leaves in the store, and how many pairs it evicted.    *)
LEMMA RecordKeeps ==
    ASSUME NEW e \in Stores, NEW S \in SUBSET Surfaces, IsFiniteSet(S),
           NEW order \in Orders(MappingOf(S)), NEW most \in Nat, NEW bytes \in Nat,
           NEW fresh, fresh = {p \in DOMAIN MappingOf(S) : \A i \in DOMAIN e : e[i].placeholder # p},
           NEW g, g = Recorded(e, order, most, bytes)
    PROVE  /\ g \in Stores
           /\ Len(e) \in Nat /\ Len(g) \in Nat /\ Cardinality(fresh) \in Nat
           /\ Len(g) <= Len(e) + Cardinality(fresh)
           /\ Len(g) = Len(e) + Cardinality(fresh) => Known(e) \cup S \subseteq Known(g)
<1>1. Ordered(order) /\ Listed(order, Len(order)) = S
  BY OrdersListAll
<1>2. PICK all \in Stores : /\ Known(all) = Known(e) \cup S
                            /\ \E k \in 0 .. Len(all) : g = SubSeq(all, k + 1, Len(all))
  BY <1>1, RecordedKnows
<1>3. PICK k \in 0 .. Len(all) : g = SubSeq(all, k + 1, Len(all))
  BY <1>2
<1>4. g \in Stores /\ Len(g) = Len(all) - k /\ (k = 0 => g = all)
  BY <1>3, LatestIsAStore
<1>5. /\ Len(all) = Cardinality(Known(e) \cup S) /\ Len(all) \in Nat
      /\ IsFiniteSet(Known(e)) /\ Cardinality(Known(e)) = Len(e) /\ Len(e) \in Nat
  <2>1. IsStore(all) /\ IsStore(e)
    BY DEF Stores
  <2> QED
    BY <1>2, <2>1, StoreCounts
<1> DEFINE new == S \ Known(e)
<1>6. fresh = {Placeholder[s] : s \in new}
  <2>1. DOMAIN MappingOf(S) = {Placeholder[s] : s \in S}
    BY MappingGivesBack DEF GivesBack
  <2>2. ASSUME NEW s \in S
        PROVE  (\A i \in DOMAIN e : e[i].placeholder # Placeholder[s]) <=> s \notin Known(e)
    <3>1. ASSUME NEW i \in DOMAIN e
          PROVE  e[i].placeholder = Placeholder[s] <=> e[i] = EntryOf(s)
      <4>1. PICK t \in Known(e) : e[i] = EntryOf(t)
        BY StoreHas DEF Stores
      <4>2. t \in Surfaces
        BY DEF Known
      <4>3. EntryOf(t).placeholder = Placeholder[t] /\ EntryOf(s).placeholder = Placeholder[s]
        BY <4>2, EntryIs
      <4>4. Placeholder[t] = Placeholder[s] => t = s
        BY <4>2, PlaceholdersDiffer DEF Surfaces
      <4> QED
        BY <4>1, <4>3, <4>4
    <3> QED
      BY <3>1 DEF Known
  <2> QED
    BY <2>1, <2>2
<1>7. /\ IsFiniteSet(new) /\ Cardinality(new) = Cardinality(S) - Cardinality(S \cap Known(e))
      /\ Cardinality(Known(e) \cup S) = Cardinality(Known(e)) + Cardinality(S) - Cardinality(Known(e) \cap S)
      /\ Cardinality(S) \in Nat /\ Cardinality(S \cap Known(e)) \in Nat
      /\ Cardinality(new) \in Nat
  <2>1. IsFiniteSet(new) /\ Cardinality(new) = Cardinality(S) - Cardinality(S \cap Known(e))
    BY FS_Difference
  <2>2. Cardinality(Known(e) \cup S) = Cardinality(Known(e)) + Cardinality(S) - Cardinality(Known(e) \cap S)
    BY <1>5, FS_Union
  <2>3. IsFiniteSet(S \cap Known(e))
    BY FS_Subset
  <2> QED
    BY <2>1, <2>2, <2>3, FS_CardinalityType
<1>8. Cardinality(fresh) = Cardinality(new)
  BY <1>6, <1>7, PlaceholdersCount
<1>9. Len(all) = Len(e) + Cardinality(fresh)
  <2>1. S \cap Known(e) = Known(e) \cap S
    OBVIOUS
  <2> HIDE DEF new
  <2> QED
    BY <1>5, <1>7, <1>8, <2>1
<1>10. Len(g) = Len(e) + Cardinality(fresh) => k = 0
  BY <1>4, <1>5, <1>9
<1>11. k = 0 => Known(g) = Known(e) \cup S
  BY <1>2, <1>4
<1> HIDE DEF new
<1>12. Cardinality(fresh) \in Nat /\ Len(g) \in Nat /\ Len(g) <= Len(all)
  BY <1>4, <1>5, <1>7, <1>8
<1> QED
  BY <1>4, <1>5, <1>9, <1>10, <1>11, <1>12

(* What a substitution used is finitely much.                               *)
LEMMA UsedIsFinite ==
    ASSUME NEW text \in Words, NEW candidates, Sought(text, candidates), NEW f,
           Parts(text, candidates, f)
    PROVE  IsFiniteSet(Used(f, 1))
<1> DEFINE n == Len(text)
           T == {i \in 1 .. n + 1 : IsFiniteSet(Used(f, i))}
<1>0. n \in Nat /\ 1 \in 1 .. n + 1
  BY DEF Words
<1>1. ASSUME NEW i \in 1 .. n + 1, \A j \in i + 1 .. n + 1 : j \in T
      PROVE  i \in T
  <2>1. CASE i = n + 1
    <3>1. Used(f, i) = {}
      BY <2>1 DEF Parts
    <3> QED
      BY <3>1, FS_EmptySet
  <2>2. CASE i \in 1 .. n /\ Here(candidates, i) = {}
    <3>1. Used(f, i) = Used(f, i + 1)
      BY <2>2 DEF Parts
    <3>2. i + 1 \in i + 1 .. n + 1
      BY <1>0, <2>2
    <3> QED
      BY <1>1, <3>1, <3>2
  <2>3. CASE i \in 1 .. n /\ Here(candidates, i) # {}
    <3> DEFINE s == Longest(Here(candidates, i))
    <3>1. Used(f, i) = {s} \cup Used(f, i + Len(s))
      BY <2>3 DEF Parts
    <3>2. i + Len(s) \in i + 1 .. n + 1
      BY <2>3, LongestIsFound
    <3> HIDE DEF s
    <3>3. IsFiniteSet(Used(f, i + Len(s)))
      BY <1>1, <3>2
    <3> QED
      BY <3>1, <3>3, FS_AddElement
  <2> QED
    BY <1>0, <2>1, <2>2, <2>3
<1>2. 1 .. n + 1 \subseteq T
  <2> HIDE DEF T
  <2> QED
    BY <1>0, <1>1, Backwards
<1> QED
  BY <1>0, <1>2

-----------------------------------------------------------------------------
(* What redaction makes of a body.                                          *)

Severest == {s \in DOMAIN Severity : Severity[s] >= MinSeverity}
ComesHome(text, given, surfaces) ==
    \A mapping, known : GivesBack(mapping, known) /\ surfaces \subseteq known =>
        Detokenize(given, mapping) = text

(* A text with its candidates replaced: what it was made of, and that it is  *)
(* restored by whoever knows what it was made of.                           *)
Replaced(text, result, surfaces) ==
    /\ surfaces \subseteq Surfaces /\ IsFiniteSet(surfaces)
    /\ result.mapping = MappingOf(surfaces)
    /\ result.redacted <=> surfaces # {}
    /\ surfaces = {} => result.text = text

LEMMA OutcomeReplaces ==
    ASSUME NEW text \in Words, NEW candidates, Sought(text, candidates)
    PROVE  \E surfaces :
              /\ Replaced(text, Outcome(text, candidates), surfaces)
              /\ (\A s \in Surfaces : Occurrences({Placeholder[s]}, text) = {}) =>
                    ComesHome(text, Outcome(text, candidates).text, surfaces)
<1> DEFINE result == Outcome(text, candidates)
<1>1. PICK f : Becomes(text, candidates, f, result)
  BY OutcomeBecomes
<1> HIDE DEF result
<1>2. Parts(text, candidates, f) /\ result.text = Rest(f, 1)
  BY <1>1 DEF Becomes
<1>3. IsFiniteSet(Used(f, 1))
  BY <1>2, UsedIsFinite
<1>4. Used(f, 1) = {} => Rest(f, 1) = text
  BY <1>2, NothingReplaced
<1>5. Replaced(text, result, Used(f, 1))
  BY <1>1, <1>2, <1>3, <1>4 DEF Becomes, Replaced
<1>6. ASSUME \A s \in Surfaces : Occurrences({Placeholder[s]}, text) = {}
      PROVE  ComesHome(text, result.text, Used(f, 1))
  <2>1. ASSUME NEW s \in Surfaces, NEW i \in 1 .. Len(text), OccursAt(Placeholder[s], text, i)
        PROVE  FALSE
    <3>1. <<i, Placeholder[s]>> \in Occurrences({Placeholder[s]}, text)
      BY <2>1 DEF Occurrences
    <3> QED
      BY <1>6, <3>1
  <2>2. ASSUME NEW mapping, NEW known, GivesBack(mapping, known), Used(f, 1) \subseteq known
        PROVE  Detokenize(Rest(f, 1), mapping) = text
    BY <1>2, <2>1, <2>2, HomeAgain
  <2> QED
    BY <1>2, <2>2 DEF ComesHome
<1> QED
  BY <1>5, <1>6 DEF result

(* What both kinds of body have replaced: every credential, and what is      *)
(* severe, in JSON where it is in a string.                                 *)
LEMMA SurfacesSought ==
    ASSUME NEW text \in Words, NEW surfaces \in SUBSET Surfaces
    PROVE  Sought(text, Occurrences(surfaces, text))
BY DEF Sought, Occurrences

LEMMA SpansHave ==
    ASSUME NEW text \in Words, NEW o \in Occurrences(DOMAIN Severity, text)
    PROVE  LET p == [start |-> Utf16Len(Before(text, o[1])), text |-> o[2]]
           IN  p \in DetectSpans(text) /\ p.text = o[2]
BY DEF DetectSpans

LEMMA SpansAreSurfaces ==
    ASSUME NEW text \in Words, NEW p \in DetectSpans(text)
    PROVE  p.text \in Surfaces
<1>1. PICK o \in Occurrences(DOMAIN Severity, text) :
         p = [start |-> Utf16Len(Before(text, o[1])), text |-> o[2]]
  BY DEF DetectSpans
<1>2. o[2] \in DOMAIN Severity
  BY DEF Occurrences
<1> QED
  BY <1>1, <1>2, PlaceholdersStandOut DEF Surfaces

LEMMA SecretsAreSurfaces ==
    ASSUME NEW text
    PROVE  /\ DetectSecrets(text) \subseteq Surfaces
           /\ \A o \in Occurrences(Credentials, text) : o \in Occurrences(DetectSecrets(text), text)
<1>1. ASSUME NEW o \in Occurrences(Credentials, text)
      PROVE  o[2] \in Surfaces /\ o \in Occurrences(DetectSecrets(text), text)
  <2>1. o[2] \in Credentials /\ o[2] \in DetectSecrets(text)
    BY DEF Occurrences, DetectSecrets
  <2> QED
    BY <2>1, PlaceholdersStandOut DEF Surfaces, Occurrences
<1> QED
  BY <1>1 DEF DetectSecrets

LEMMA RedactSeeks ==
    ASSUME NEW text \in Words
    PROVE  \E candidates :
              /\ Redact(text, MinSeverity, DetectSpans(text)) = Outcome(text, candidates)
              /\ Sought(text, candidates) /\ Covers(text, candidates, Severest, FALSE)
<1> DEFINE severe == {p.text : p \in Severe(DetectSpans(text), MinSeverity)}
           surfaces == DetectSecrets(text) \cup severe
           candidates == Occurrences(surfaces, text)
<1>1. severe \subseteq Surfaces
  BY SpansAreSurfaces DEF Severe
<1>2. Sought(text, candidates)
  <2> HIDE DEF severe
  <2>1. surfaces \in SUBSET Surfaces
    BY <1>1, SecretsAreSurfaces
  <2> QED
    BY <2>1, SurfacesSought
<1>3. Occurrences(Credentials, text) \subseteq candidates
  <2> HIDE DEF severe
  <2>1. \A o : o \in Occurrences(DetectSecrets(text), text) => o \in candidates
    BY DEF Occurrences
  <2> QED
    BY <2>1, SecretsAreSurfaces
<1>4. ASSUME NEW o \in Occurrences(Severest, text)
      PROVE  o \in candidates
  <2>1. o \in Occurrences(DOMAIN Severity, text) /\ Severity[o[2]] >= MinSeverity
    BY DEF Occurrences, Severest
  <2>2. o[2] \in severe
    BY <2>1, SpansHave DEF Severe
  <2> HIDE DEF severe
  <2> QED
    BY <2>2 DEF Occurrences
<1>5. Covers(text, candidates, Severest, FALSE)
  BY <1>3, <1>4 DEF Covers
<1>6. Redact(text, MinSeverity, DetectSpans(text)) = Outcome(text, candidates)
  BY DEF Redact
<1> QED
  BY <1>2, <1>5, <1>6

LEMMA RedactJsonSeeks ==
    ASSUME NEW text \in Words
    PROVE  \E candidates :
              /\ RedactJson(text, MinSeverity, DetectSpans(text)) = Outcome(text, candidates)
              /\ Sought(text, candidates) /\ Covers(text, candidates, Severest, TRUE)
<1> DEFINE quoted == {o \in QuotedJsonSpans(text, DetectSpans(text)) : Severity[o[2]] >= MinSeverity}
           candidates == Occurrences(DetectSecrets(text), text) \cup quoted
<1>1. quoted \subseteq {o \in (1 .. Len(text)) \X Surfaces : OccursAt(o[2], text, o[1])}
  BY SpansAreSurfaces DEF QuotedJsonSpans
<1>2. Sought(text, candidates)
  <2> HIDE DEF quoted
  <2>1. Sought(text, Occurrences(DetectSecrets(text), text))
    BY SecretsAreSurfaces, SurfacesSought
  <2> QED
    BY <1>1, <2>1 DEF Sought
<1>3. Occurrences(Credentials, text) \subseteq candidates
  <2> HIDE DEF quoted
  <2> QED
    BY SecretsAreSurfaces
<1>4. ASSUME NEW o \in Occurrences(Severest, text), InString(text, o[1])
      PROVE  o \in candidates
  <2>1. /\ o \in Occurrences(DOMAIN Severity, text) /\ Severity[o[2]] >= MinSeverity
        /\ o[1] \in 1 .. Len(text) /\ o = <<o[1], o[2]>> /\ OccursAt(o[2], text, o[1])
    BY DEF Occurrences, Severest
  <2> DEFINE p == [start |-> Utf16Len(Before(text, o[1])), text |-> o[2]]
  <2>2. p \in DetectSpans(text) /\ p.text = o[2]
    BY <2>1, SpansHave
  <2>3. o[2] \in {q.text : q \in DetectSpans(text)}
    BY <2>2
  <2>4. o \in QuotedJsonSpans(text, DetectSpans(text))
    <3> HIDE DEF candidates
    <3> QED
      BY <1>4, <2>1, <2>2, <2>3 DEF QuotedJsonSpans
  <2> QED
    BY <2>1, <2>4
<1>5. Covers(text, candidates, Severest, TRUE)
  BY <1>3, <1>4 DEF Covers
<1>6. RedactJson(text, MinSeverity, DetectSpans(text)) = Outcome(text, candidates)
  BY DEF RedactJson
<1> QED
  BY <1>2, <1>5, <1>6

(* What is left of a body's text leaks nothing, and comes home.              *)
LEMMA RedactedTextIsSafe ==
    ASSUME NEW r, Plain(r), Spans(r) = DetectSpans(r.body.text)
    PROVE  /\ ~ Leaks(r, RedactText(r).text)
           /\ \E surfaces : /\ Replaced(r.body.text, RedactText(r), surfaces)
                            /\ ComesHome(r.body.text, RedactText(r).text, surfaces)
<1> DEFINE text == r.body.text
<1>0. text \in Words /\ \A s \in Surfaces : Occurrences({Placeholder[s]}, text) = {}
  BY DEF Plain, Words, Surfaces
<1>1. PICK candidates, inStrings :
         /\ RedactText(r) = Outcome(text, candidates) /\ Sought(text, candidates)
         /\ Covers(text, candidates, Severest, inStrings) /\ (r.json <=> inStrings)
  <2>1. CASE r.json
    <3>1. RedactText(r) = RedactJson(text, MinSeverity, DetectSpans(text))
      BY <2>1 DEF RedactText
    <3> HIDE DEF text
    <3> QED
      BY <1>0, <2>1, <3>1, RedactJsonSeeks
  <2>2. CASE ~ r.json
    <3>1. RedactText(r) = Redact(text, MinSeverity, DetectSpans(text))
      BY <2>2 DEF RedactText
    <3> HIDE DEF text
    <3> QED
      BY <1>0, <2>2, <3>1, RedactSeeks
  <2> QED
    BY <2>1, <2>2
<1> HIDE DEF text
<1>2. PICK surfaces : /\ Replaced(text, RedactText(r), surfaces)
                      /\ ComesHome(text, RedactText(r).text, surfaces)
  BY <1>0, <1>1, OutcomeReplaces
<1>3. PICK f : Becomes(text, candidates, f, RedactText(r))
  BY <1>0, <1>1, OutcomeBecomes
<1>4. Severest \in SUBSET Surfaces
  BY PlaceholdersStandOut DEF Severest, Surfaces
<1>5. /\ Occurrences(Credentials, Rest(f, 1)) = {}
      /\ \A o \in Occurrences(Severest, Rest(f, 1)) :
            ~ (~ inStrings \/ InString(Rest(f, 1), o[1]))
  <2>1. Parts(text, candidates, f)
    BY <1>3 DEF Becomes
  <2> QED
    BY <1>0, <1>1, <1>4, <2>1, NothingLeaks
<1>6. RedactText(r).text = Rest(f, 1)
  BY <1>3 DEF Becomes
<1>7. ~ Leaks(r, RedactText(r).text)
  BY <1>1, <1>5, <1>6 DEF Leaks, Severest
<1> QED
  BY <1>2, <1>7 DEF text

(* A body is left alone only if it is too long, not legible, or a part.      *)
Excused(r) ==
    \/ Len(r.body.text) > MaxInspectBody \/ ~ Legible(r)
    \/ Present(r.headers, "content-range")
    \/ config.signedBody = "forward" /\ (r.signsBody \/ r.covers # {})

LEMMA IdentityIsAWord ==
    /\ "identity" # Opaque /\ "identity" # Blank /\ "gzip" # Opaque /\ "gzip" # Blank
    /\ "identity" # "gzip" /\ "text" # "gzip" /\ "text" # "bomb"
BY Zenon DEF Opaque, Blank

LEMMA ScannedUnlessTooLong ==
    ASSUME NEW r, Plain(r), ~ (Len(r.body.text) > MaxInspectBody)
    PROVE  Scanned(r)
<1> DEFINE n == Len(r.body.text)
           length == ContentLength(r)
<1>1. n \in Nat /\ length \in {-1, n} /\ MaxInspectBody \in Nat
  <2>1. r.body.text \in Seq(STRING) /\ ContentLength(r) \in {-1, Len(r.body.text)}
    BY DEF Plain
  <2> QED
    BY <2>1, BoundsAssumption
<1>2. ~ (n > MaxInspectBody)
  OBVIOUS
<1>3. Scanned(r) <=> IF length >= 0 THEN length <= MaxInspectBody ELSE n <= MaxInspectBody
  BY DEF Scanned
<1> HIDE DEF n, length
<1> QED
  BY <1>1, <1>2, <1>3

LEMMA LegibleDecodes ==
    ASSUME NEW r, Legible(r)
    PROVE  /\ Present(r.headers, "content-encoding") => r.headers["content-encoding"][1] # NotText
           /\ DecodeStrict(r).is = "decoded" /\ DecodeStrict(r).bytes = "text"
<1> DEFINE encodings == r.headers["content-encoding"]
           Coded(w) == encodings = << <<w>> >>
<1>1. ASSUME NEW w, w # Opaque, w # Blank, Coded(w)
      PROVE  encodings[1] # NotText /\ Encoding(r) = <<w>>
  <2>1. encodings[1] = <<w>> /\ encodings # <<>>
    BY <1>1
  <2>2. <<w>> # NotText
    BY <1>1 DEF NotText
  <2>3. Trim(<<w>>) = <<w>>
    BY <1>1, TrimWord
  <2> QED
    BY <2>1, <2>2, <2>3, Zenon DEF Encoding, HeaderStr
<1>2. CASE r.body.raw = "text" /\ encodings = <<>>
  <2>1. Encoding(r) = <<>>
    BY <1>2, Zenon DEF Encoding, HeaderStr
  <2>2. AsBytes(r.body.raw) = "text"
    BY <1>2, IdentityIsAWord DEF AsBytes, Compressed
  <2>3. DecodeStrict(r) = [is |-> "decoded", bytes |-> "text"]
    BY <2>1, <2>2 DEF DecodeStrict
  <2> QED
    BY <1>2, <2>3 DEF Present
<1>3. CASE r.body.raw = "text" /\ Coded("identity")
  <2>1. encodings[1] # NotText /\ Encoding(r) = <<"identity">>
    BY <1>1, <1>3, IdentityIsAWord
  <2>2. AsBytes(r.body.raw) = "text"
    BY <1>3, IdentityIsAWord DEF AsBytes, Compressed
  <2>3. DecodeStrict(r) = [is |-> "decoded", bytes |-> "text"]
    BY <2>1, <2>2 DEF DecodeStrict
  <2> QED
    BY <2>1, <2>3
<1>4. CASE r.body.raw = "gzip" /\ Coded("gzip")
  <2>1. encodings[1] # NotText /\ Encoding(r) = <<"gzip">>
    BY <1>1, <1>4, IdentityIsAWord
  <2>2. <<"gzip">> # <<>> /\ <<"gzip">> # <<"identity">>
    BY IdentityIsAWord
  <2>3. DecodeStrict(r) = [is |-> "decoded", bytes |-> "text"]
    BY <1>4, <2>1, <2>2 DEF DecodeStrict
  <2> QED
    BY <2>1, <2>3
<1> QED
  BY <1>2, <1>3, <1>4 DEF Legible

LEMMA LeftAloneForAReason ==
    ASSUME NEW r, Plain(r), ~ Readable(r)
    PROVE  Excused(r)
BY ScannedUnlessTooLong, LegibleDecodes DEF Readable, Excused

(* What is sent on leaks nothing it could keep, and what was rewritten comes *)
(* home.                                                                    *)
Stays(r, text) == Leaks(r, text) => Excused(r)

GoesHome(r, o, mapping) ==
    \E surfaces \in SUBSET Surfaces :
        /\ IsFiniteSet(surfaces) /\ mapping = MappingOf(surfaces)
        /\ ComesHome(r.body.text, o.text, surfaces)

LEMMA ReadableIsDetected ==
    ASSUME NEW r, Readable(r)
    PROVE  Spans(r) = DetectSpans(r.body.text)
BY Zenon DEF Readable, Spans

LEMMA ForwardedGoesHome ==
    ASSUME NEW r, Plain(r), config.redaction, Forwarded(r).is = "sent"
    PROVE  /\ Stays(r, Forwarded(r).out.text)
           /\ Forwarded(r).out.rewritten => GoesHome(r, Forwarded(r).out, Forwarded(r).mapping)
<1> DEFINE headers == WithIdentity(r)
           redacted == RedactText(r)
           why == Breaks(r, headers, redacted.text)
           alone == ~ Readable(r) \/ ~ redacted.redacted
           passed == Way("sent", PassedOn(r, headers), <<>>, why)
           rewritten == Way("sent", Rewritten(r, headers, redacted.text), redacted.mapping, why)
<1>1. Readable(r) =>
         /\ ~ Leaks(r, redacted.text)
         /\ \E surfaces : /\ Replaced(r.body.text, redacted, surfaces)
                          /\ ComesHome(r.body.text, redacted.text, surfaces)
  BY ReadableIsDetected, RedactedTextIsSafe
<1>2. \/ alone /\ Forwarded(r) = passed
      \/ ~ alone /\ Forwarded(r) = rewritten
      \/ why # "" /\ config.signedBody = "forward" /\ Forwarded(r) = passed
  <2>1. CASE Forwarded(r) = Way("blocked", Nothing, <<>>, why)
    <3>1. Forwarded(r).is = "blocked"
      BY <2>1 DEF Way
    <3>2. "blocked" # "sent"
      OBVIOUS
    <3> QED
      BY <3>1, <3>2
  <2> QED
    BY <2>1, ForwardedIs, Zenon
<1>3. why # "" => r.signsBody \/ r.covers # {}
  BY SomethingBreaks DEF Leaves
<1>4. /\ passed.out.text = r.body.text /\ passed.out.rewritten = FALSE
      /\ rewritten.out.text = redacted.text /\ rewritten.mapping = redacted.mapping
  BY DEF Way, PassedOn, Rewritten
<1>5. Readable(r) /\ ~ redacted.redacted => redacted.text = r.body.text
  BY <1>1 DEF Replaced
<1>6. Readable(r) => GoesHome(r, rewritten.out, redacted.mapping)
  <2> HIDE DEF redacted, rewritten
  <2> QED
    BY <1>1, <1>4 DEF Replaced, GoesHome
<1> HIDE DEF headers, redacted, why, passed, rewritten
<1>7. CASE alone /\ Forwarded(r) = passed
  <2>1. Readable(r) => ~ Leaks(r, r.body.text)
    BY <1>1, <1>5, <1>7
  <2> QED
    BY <1>4, <1>7, <2>1, LeftAloneForAReason DEF Stays
<1>8. CASE ~ alone /\ Forwarded(r) = rewritten
  BY <1>1, <1>4, <1>6, <1>8 DEF Stays
<1>9. CASE why # "" /\ config.signedBody = "forward" /\ Forwarded(r) = passed
  BY <1>3, <1>4, <1>9 DEF Stays, Excused
<1> QED
  BY <1>2, <1>7, <1>8, <1>9

-----------------------------------------------------------------------------
(* The way home.                                                            *)

(* Pairs leave the store only by eviction, and that is counted.              *)
StoreOK == store \in Stores /\ evicted \in Nat
Grows ==
    /\ store' \in Stores /\ evicted' \in Nat /\ evicted <= evicted'
    /\ evicted' = evicted => Known(store) \subseteq Known(store')

LEMMA RecordGrows ==
    ASSUME StoreOK, NEW surfaces \in SUBSET Surfaces, IsFiniteSet(surfaces),
           Record(MappingOf(surfaces))
    PROVE  Grows /\ (evicted' = evicted => surfaces \subseteq Known(store'))
<1> DEFINE mapping == MappingOf(surfaces)
           fresh == {p \in DOMAIN mapping : \A i \in DOMAIN store : store[i].placeholder # p}
<1>1. PICK order \in Orders(mapping) :
         /\ store' = Recorded(store, order, MaxEntries, MaxBytes)
         /\ evicted' = evicted + Len(store) + Cardinality(fresh) - Len(store')
  BY DEF Record
<1>2. store \in Stores /\ MaxEntries \in Nat /\ MaxBytes \in Nat
  BY BoundsAssumption DEF StoreOK
<1>3. /\ store' \in Stores
      /\ Len(store) \in Nat /\ Len(store') \in Nat /\ Cardinality(fresh) \in Nat
      /\ Len(store') <= Len(store) + Cardinality(fresh)
      /\ Len(store') = Len(store) + Cardinality(fresh) =>
            Known(store) \cup surfaces \subseteq Known(store')
  <2> DEFINE g == store'
             most == MaxEntries
             bytes == MaxBytes
             e == store
  <2>1. fresh = {p \in DOMAIN MappingOf(surfaces) : \A i \in DOMAIN e : e[i].placeholder # p}
    OBVIOUS
  <2>2. e \in Stores /\ most \in Nat /\ bytes \in Nat /\ order \in Orders(MappingOf(surfaces))
        /\ g = Recorded(e, order, most, bytes)
    BY <1>1, <1>2
  <2> HIDE DEF g, e, most, bytes, fresh
  <2>3. /\ g \in Stores
        /\ Len(e) \in Nat /\ Len(g) \in Nat /\ Cardinality(fresh) \in Nat
        /\ Len(g) <= Len(e) + Cardinality(fresh)
        /\ Len(g) = Len(e) + Cardinality(fresh) => Known(e) \cup surfaces \subseteq Known(g)
    BY <2>1, <2>2, RecordKeeps
  <2> QED
    BY <2>3 DEF g, e
<1> DEFINE was == Len(store)
           new == Cardinality(fresh)
           left == Len(store')
<1>4. evicted \in Nat /\ evicted' = evicted + was + new - left
  BY <1>1 DEF StoreOK
<1>5. was \in Nat /\ new \in Nat /\ left \in Nat /\ left <= was + new
  BY <1>3
<1>6. evicted' \in Nat /\ evicted <= evicted' /\ (evicted' = evicted => left = was + new)
  <2> HIDE DEF was, new, left
  <2> QED
    BY <1>4, <1>5
<1> QED
  BY <1>3, <1>6 DEF Grows

(* A response on its way back can be restored, unless pairs were evicted.    *)
Awaited(c) ==
    \E surfaces \in SUBSET Surfaces :
        /\ ComesHome(request[c].body.text, out[c].text, surfaces)
        /\ evicted > evictedAtSend[c] \/ surfaces \subseteq Known(store)

Home(c) ==
    /\ at[c] \in Handles => request[c] \in config.requests[c]
    /\ at[c] \in {"reading"} \cup Holding => ~ out[c].rewritten
    /\ evictedAtSend[c] \in Nat /\ evictedAtSend[c] <= evicted
    /\ at[c] = "upstream" /\ config.redaction =>
          Stays(request[c], out[c].text) /\ (out[c].rewritten => Awaited(c))
    /\ at[c] = "idle" /\ status[c] = "200" /\ config.redaction /\ out[c].rewritten =>
          received[c] = request[c].body.text \/ evicted > evictedAtSend[c]

HomeInv == Kept /\ config \in Settings /\ StoreOK /\ \A c \in Conns : Home(c)

(* What others do to the store takes nothing from it but by eviction.        *)
LEMMA UntouchedHome ==
    ASSUME StoreOK, config' = config, Grows, NEW c \in Conns, Home(c), Untouched(c)
    PROVE  Home(c)'
<1>1. UNCHANGED <<at[c], request[c], status[c], out[c], received[c], evictedAtSend[c], config>>
  BY DEF Untouched
<1>2. evictedAtSend[c] \in Nat /\ evicted \in Nat /\ evicted' \in Nat /\ evicted <= evicted'
      /\ evictedAtSend[c] <= evicted
  BY DEF StoreOK, Grows, Home
<1>3. evicted > evictedAtSend[c] => evicted' > evictedAtSend[c]
  BY <1>2
<1>4. evicted' # evicted => evicted' > evictedAtSend[c]
  BY <1>2
<1>5. Awaited(c) => Awaited(c)'
  <2>1. ASSUME NEW surfaces, evicted > evictedAtSend[c] \/ surfaces \subseteq Known(store)
        PROVE  evicted' > evictedAtSend[c] \/ surfaces \subseteq Known(store')
    BY <1>3, <1>4, <2>1 DEF Grows
  <2> QED
    BY <1>1, <2>1 DEF Awaited
<1>6. evictedAtSend[c]' \in Nat /\ evictedAtSend[c]' <= evicted'
  BY <1>1, <1>2
<1>7. Stays(request[c], out[c].text) => Stays(request[c], out[c].text)'
  BY <1>1 DEF Stays, Excused
<1> QED
  BY <1>1, <1>3, <1>5, <1>6, <1>7 DEF Home

(* Sending on records what the response will need before the request leaves. *)
LEMMA SentGoesHome ==
    ASSUME Kept, StoreOK, NEW c \in Conns, Home(c), Plain(request[c]),
           request[c] \in config.requests[c], ~ out[c].rewritten, at[c] \in {"reading"} \cup Holding,
           request' = request, config' = config,
           Forward(c, Forwarded(request[c]))
    PROVE  Home(c)' /\ Grows
<1> DEFINE r == request[c]
           result == Forwarded(r)
<1> USE DEF Kept, PerConn, Goto, Refuse
<1>1. /\ config.redaction /\ result.is = "sent" =>
            /\ Stays(r, result.out.text)
            /\ result.out.rewritten => GoesHome(r, result.out, result.mapping)
      /\ ~ config.redaction /\ result.is = "sent" => ~ result.out.rewritten
  <2>1. ASSUME ~ config.redaction, result.is = "sent"
        PROVE  ~ result.out.rewritten
    <3>1. PICK why : result = Way("sent", PassedOn(r, r.headers), <<>>, why)
      BY <2>1, ForwardedIs, Zenon
    <3> QED
      BY <3>1 DEF Way, PassedOn
  <2> QED
    BY <2>1, ForwardedGoesHome
<1>2. evictedAtSend'[c] = evicted /\ evicted \in Nat
  BY DEF Forward, StoreOK
<1>3. result.is \in {"sent", "blocked"}
  BY DEF Forward
<1> HIDE DEF result
<1>4. CASE result.is = "sent"
  <2>1. /\ IF result.out.rewritten THEN Record(result.mapping) ELSE UNCHANGED <<store, evicted>>
        /\ out'[c] = result.out /\ at'[c] = "upstream" /\ "blocked" # "sent"
    BY <1>4 DEF Forward, result
  <2>2. CASE ~ result.out.rewritten
    <3>1. Grows
      BY <2>1, <2>2 DEF Grows, StoreOK
    <3> QED
      BY <1>1, <1>2, <1>4, <2>1, <2>2, <3>1 DEF Home, Grows, Stays, Excused, Holding
  <2>3. CASE result.out.rewritten
    <3>1. PICK surfaces \in SUBSET Surfaces :
             /\ IsFiniteSet(surfaces) /\ result.mapping = MappingOf(surfaces)
             /\ ComesHome(r.body.text, result.out.text, surfaces)
      BY <1>1, <1>4, <2>3 DEF GoesHome
    <3>2. Grows /\ (evicted' = evicted => surfaces \subseteq Known(store'))
      BY <2>1, <2>3, <3>1, RecordGrows
    <3>3. evicted' > evictedAtSend'[c] \/ evicted' = evicted
      BY <1>2, <3>2 DEF Grows
    <3>4. Awaited(c)'
      BY <2>1, <3>1, <3>2, <3>3 DEF Awaited
    <3> QED
      BY <1>1, <1>2, <1>4, <2>1, <3>2, <3>4 DEF Home, Grows, Stays, Excused, Holding
  <2> QED
    BY <2>2, <2>3
<1>5. CASE result.is = "blocked"
  <2>1. at'[c] = "closed" /\ UNCHANGED <<store, evicted>>
    BY <1>5 DEF Forward, result
  <2> QED
    BY <1>2, <2>1 DEF Home, Grows, StoreOK, Handles, Holding
<1> QED
  BY <1>3, <1>4, <1>5

(* A connection's own step: what it sends, and what it is answered.          *)
LEMMA StepGoesHome ==
    ASSUME HomeInv, NEW c \in Conns, Step(c)
    PROVE  Home(c)' /\ Grows
<1> USE DEF Goto, Refuse, Audit, Unanswered, Hold, Handles, Holding
<1>0. config' = config /\ Kept /\ Home(c) /\ StoreOK
  BY StepChangesOnly DEF HomeInv
<1>k. /\ at = [d \in Conns |-> at[d]] /\ request = [d \in Conns |-> request[d]]
      /\ status = [d \in Conns |-> status[d]] /\ out = [d \in Conns |-> out[d]]
      /\ received = [d \in Conns |-> received[d]]
  BY <1>0 DEF Kept, PerConn
<1>p. \A r \in config.requests[c] : Plain(r)
  BY ClientAssumption DEF HomeInv
<1>s. /\ UNCHANGED <<store, evicted>> => Grows
      /\ evictedAtSend[c] \in Nat /\ evictedAtSend[c] <= evicted
  BY <1>0 DEF Grows, StoreOK, Home
<1>a. ASSUME NEW r \in config.requests[c], Arrives(c, r),
             at'[c] \in {"closed", "idle", "opaque", "reading", "heldConnect", "heldHost"}
      PROVE  Home(c)' /\ Grows
  <2>1. request'[c] = r /\ ~ out'[c].rewritten /\ UNCHANGED <<store, evicted, evictedAtSend>>
    BY <1>a, <1>k DEF Arrives, Nothing
  <2> QED
    BY <1>0, <1>s, <1>a, <2>1 DEF Home
<1>1. ASSUME NEW r \in config.requests[c], Connect(c, r)
      PROVE  Home(c)' /\ Grows
  <2>1. at'[c] \in {"closed", "heldConnect", "idle", "opaque"}
    BY <1>1, <1>k DEF Connect, OpenTunnel
  <2>2. Arrives(c, r)
    BY <1>1 DEF Connect
  <2> QED
    BY <1>a, <2>1, <2>2
<1>2. ASSUME NEW r \in config.requests[c], Submit(c, r)
      PROVE  Home(c)' /\ Grows
  <2>1. at'[c] \in {"closed", "heldHost", "reading"}
    BY <1>2, <1>k DEF Submit
  <2>2. Arrives(c, r)
    BY <1>2 DEF Submit
  <2> QED
    BY <1>a, <2>1, <2>2
<1>f. ASSUME at[c] \in {"reading", "heldBody"}, request' = request,
             NEW before, SendOn(c, Forwarded(request[c]), before)
      PROVE  Home(c)' /\ Grows
  <2>1. request[c] \in config.requests[c] /\ ~ out[c].rewritten
    BY <1>0, <1>f DEF Home
  <2>2. Forward(c, Forwarded(request[c]))
    BY <1>f DEF SendOn
  <2>3. Plain(request[c]) /\ at[c] \in {"reading"} \cup Holding
    BY <1>p, <1>f, <2>1
  <2> QED
    BY <1>0, <1>f, <2>1, <2>2, <2>3, SentGoesHome
<1>g. ASSUME at'[c] \in {"closed", "idle", "opaque", "reading", "heldBody"},
             at[c] \in {"reading"} \cup Holding, UNCHANGED <<request, out, store, evicted, evictedAtSend>>
      PROVE  Home(c)' /\ Grows
  BY <1>0, <1>s, <1>g DEF Home
<1>3. CASE Inspect(c)
  <2>1. request' = request /\ at[c] = "reading"
    BY <1>3 DEF Inspect
  <2>2. \/ \E before : SendOn(c, Forwarded(request[c]), before)
        \/ at'[c] \in {"closed", "heldBody"} /\ UNCHANGED <<out, store, evicted, evictedAtSend>>
    BY <1>3, <1>k DEF Inspect
  <2> QED
    BY <1>f, <1>g, <2>1, <2>2
<1>4. CASE BodyFails(c)
  <2>1. /\ at'[c] = "closed" /\ at[c] = "reading"
        /\ UNCHANGED <<request, out, store, evicted, evictedAtSend>>
    BY <1>4, <1>k DEF BodyFails, rest
  <2> QED
    BY <1>g, <2>1
<1>5. CASE Approved(c)
  <2>1. request' = request /\ at[c] \in Holding
    BY <1>5 DEF Approved
  <2>2. \/ at[c] = "heldBody" /\ \E before : SendOn(c, Forwarded(request[c]), before)
        \/ at'[c] \in {"idle", "opaque", "reading"} /\ UNCHANGED <<out, store, evicted, evictedAtSend>>
    BY <1>5, <1>k DEF Approved, OpenTunnel
  <2> QED
    BY <1>f, <1>g, <2>1, <2>2
<1>6. CASE Rejected(c)
  <2>1. /\ at'[c] = "closed" /\ at[c] \in Holding
        /\ UNCHANGED <<request, out, store, evicted, evictedAtSend>>
    BY <1>6, <1>k DEF Rejected, rest
  <2> QED
    BY <1>g, <2>1
<1>7. ASSUME NEW res \in Responses, Respond(c, res)
      PROVE  Home(c)' /\ Grows
  <2>1. /\ at[c] = "upstream" /\ at'[c] = "idle"
        /\ UNCHANGED <<request, out, store, evicted, evictedAtSend>>
        /\ status'[c] = IF res.identity THEN res.code ELSE "encoded"
        /\ received'[c] = IF ~ config.redaction \/ res.code \in NoBody \/ ~ res.identity
                          THEN out[c].text ELSE Detokenize(out[c].text, Snapshot(store))
    BY <1>7, <1>k DEF Respond, rest
  <2>2. ASSUME status'[c] = "200", config.redaction, out[c].rewritten, ~ (evicted > evictedAtSend[c])
        PROVE  received'[c] = request[c].body.text
    <3>1. res.identity /\ res.code = "200" /\ "200" \notin NoBody
      BY <2>1, <2>2 DEF NoBody
    <3>2. received'[c] = Detokenize(out[c].text, Snapshot(store))
      BY <2>1, <2>2, <3>1
    <3>3. PICK surfaces : /\ ComesHome(request[c].body.text, out[c].text, surfaces)
                          /\ surfaces \subseteq Known(store)
      BY <1>0, <2>1, <2>2 DEF Home, Awaited
    <3>4. GivesBack(Snapshot(store), Known(store))
      BY <1>0, SnapshotGivesBack DEF StoreOK, Stores
    <3> QED
      BY <3>2, <3>3, <3>4 DEF ComesHome
  <2> QED
    BY <1>0, <1>s, <2>1, <2>2 DEF Home
<1> QED
  BY <1>1, <1>2, <1>3, <1>4, <1>5, <1>6, <1>7 DEF Step

(* The hook endpoint's texts are recorded like any other.                    *)
LEMMA HookGrows ==
    ASSUME StoreOK, NEW text \in HookTexts, HookRecords(text)
    PROVE  Grows
<1>1. text \in Words
  BY ClientAssumption DEF Words
<1> DEFINE result == Redact(text, MinSeverity, DetectSpans(text))
<1>2. PICK surfaces : Replaced(text, result, surfaces)
  BY <1>1, RedactSeeks, OutcomeReplaces
<1>3. Record(result.mapping)
  BY DEF HookRecords
<1> HIDE DEF result
<1>4. surfaces \in SUBSET Surfaces /\ IsFiniteSet(surfaces) /\ Record(MappingOf(surfaces))
  BY <1>2, <1>3 DEF Replaced
<1> QED
  BY <1>4, RecordGrows

LEMMA StoreGrows ==
    ASSUME HomeInv, [Next]_vars
    PROVE  Grows
<1>1. ASSUME NEW c \in Conns, Step(c)
      PROVE  Grows
  BY <1>1, StepGoesHome
<1>2. ASSUME NEW text \in HookTexts, HookRecords(text)
      PROVE  Grows
  BY <1>2, HookGrows DEF HomeInv
<1>3. CASE UNCHANGED vars
  BY <1>3 DEF vars, Grows, HomeInv, StoreOK
<1> QED
  BY <1>1, <1>2, <1>3 DEF Next, Step

LEMMA InitGoesHome ==
    ASSUME Init
    PROVE  HomeInv
<1>1. /\ Kept /\ config \in Settings /\ evicted = 0 /\ store = <<>>
      /\ \A c \in Conns : at[c] = "idle" /\ evictedAtSend[c] = 0 /\ status[c] = "none"
  BY DEF Init, Kept, PerConn
<1>2. StoreOK
  BY <1>1 DEF StoreOK, Stores, IsStore
<1>3. ASSUME NEW c \in Conns
      PROVE  Home(c)
  BY <1>1 DEF Home, Handles, Holding
<1> QED
  BY <1>1, <1>2, <1>3 DEF HomeInv

LEMMA HomeKept ==
    ASSUME HomeInv, [Next]_vars
    PROVE  HomeInv'
<1>1. Kept' /\ Grows /\ config' = config
  BY KeptStays, StoreGrows, WhoSteps, StepChangesOnly DEF HomeInv, perConn
<1>2. StoreOK'
  BY <1>1 DEF Grows, StoreOK
<1>3. CASE UNCHANGED perConn
  BY <1>1, <1>2, <1>3, UntouchedHome DEF HomeInv, Untouched, perConn
<1>4. ASSUME NEW c \in Conns, Step(c), NEW d \in Conns
      PROVE  Home(d)'
  <2>1. CASE d = c
    BY <1>4, <2>1, StepGoesHome
  <2>2. CASE d # c
    <3>1. Untouched(d) /\ Home(d) /\ StoreOK
      BY <1>4, <2>2, Elsewhere DEF HomeInv
    <3> QED
      BY <1>1, <3>1, UntouchedHome
  <2> QED
    BY <2>1, <2>2
<1> QED
  BY <1>1, <1>2, <1>3, <1>4, WhoSteps DEF HomeInv

(* Whatever a connection waits for, the store can restore, or the eviction   *)
(* is counted: for any number of connections, any requests and any bounds.   *)
THEOREM HomeInductive == Spec => []HomeInv
<1>1. Init => HomeInv
  BY InitGoesHome
<1>2. HomeInv /\ [Next]_vars => HomeInv'
  BY HomeKept
<1> QED
  BY <1>1, <1>2, PTL DEF Spec

(* With redaction on no secret leaves in a body, but for a reason the code   *)
(* names: mitm.rs, redacted_request, and the tokenizer's substitution.       *)
THEOREM SecretsNeverLeave == Spec => []SecretsStayHome
<1>1. HomeInv => SecretsStayHome
  BY DEF HomeInv, Home, Stays, Excused, SecretsStayHome
<1> QED
  BY <1>1, HomeInductive, PTL

(* What a service echoes comes home as the client sent it, unless pairs were *)
(* evicted since: mitm.rs, handle_response; mapping_store.rs.                *)
THEOREM EchoesComeHome == Spec => []EchoComesHome
<1>1. HomeInv => EchoComesHome
  BY DEF HomeInv, Home, EchoComesHome
<1> QED
  BY <1>1, HomeInductive, PTL
=============================================================================
