------------------------------ MODULE PolicyWalk ------------------------------
(***************************************************************************)
(* A policy document being loaded, and decide_with's walk over its rules    *)
(* for one set of facts, a rule at a time, in both of the weights personal  *)
(* data may have.  What the walk comes to is compared with the closed form  *)
(* of PolicyEngine, which the gateway's model decides with.                 *)
(***************************************************************************)
EXTENDS PolicyEngine

CONSTANTS Policies,   \* the documents an operator may write
          FactSets    \* the facts a protocol may supply, but for the endpoint

Rules == [name : STRING, endpoint : STRING, condition : STRING, verdict : Verdicts]

ASSUME PolicyAssumption ==
    \A p \in Policies : p.rules \in Seq(Rules) /\ p.egress.default \in Verdicts

VARIABLES policy,     \* the document
          loaded,     \* what from_yaml made of it: "pending", "ok" or its error
          facts,      \* what is being decided
          piiWeight,  \* PiiWeight: "Decides" or "AuditsOnly"
          index,      \* the rule the walk is at
          heldBack,   \* a refusal that personal data caused has been passed over
          outcome     \* the decision, once there is one

walkVars == <<policy, loaded, facts, piiWeight, index, heldBack, outcome>>

Undecided == [verdict |-> "none", rule |-> 0]

WalkInit ==
    /\ policy \in Policies
    /\ facts \in FactSets
    /\ piiWeight \in {"Decides", "AuditsOnly"}
    /\ loaded = "pending"
    /\ index = 1
    /\ heldBack = FALSE
    /\ outcome = Undecided

\* A document with an error is refused as a whole, and there is nothing to walk.
FromYaml ==
    /\ loaded = "pending"
    /\ loaded' = IF LoadError(policy).error = "none" THEN "ok" ELSE LoadError(policy).error
    /\ UNCHANGED <<policy, facts, piiWeight, index, heldBack, outcome>>

Walking == loaded = "ok" /\ outcome = Undecided
Rule == policy.rules[index]

\* As if whatever personal data caused were passed over, an allow too.
PassedOverWhole ==
    /\ piiWeight = "AuditsOnly"
    /\ PiiCaused(Rule, facts)

\* The verdict is personal data's doing, and it may only be audited.
PassedOver ==
    /\ piiWeight = "AuditsOnly"
    /\ heldBack \/ Rule.verdict # "allow"
    /\ PiiCaused(Rule, facts)

NextRule ==
    /\ Walking /\ index <= Len(policy.rules)
    /\ ~ Matches(Rule, facts)
    /\ index' = index + 1
    /\ UNCHANGED <<policy, loaded, facts, piiWeight, heldBack, outcome>>

\* As if each rule were weighed on its own.
HoldBackForgetting ==
    /\ Walking /\ index <= Len(policy.rules)
    /\ Matches(Rule, facts) /\ PassedOver
    /\ index' = index + 1
    /\ UNCHANGED <<policy, loaded, facts, piiWeight, heldBack, outcome>>

HoldBack ==
    /\ Walking /\ index <= Len(policy.rules)
    /\ Matches(Rule, facts) /\ PassedOver
    /\ heldBack' = TRUE
    /\ index' = index + 1
    /\ UNCHANGED <<policy, loaded, facts, piiWeight, outcome>>

RuleDecides ==
    /\ Walking /\ index <= Len(policy.rules)
    /\ Matches(Rule, facts) /\ ~ PassedOver
    /\ outcome' = [verdict |-> Rule.verdict, rule |-> index]
    /\ UNCHANGED <<policy, loaded, facts, piiWeight, index, heldBack>>

EgressDecides ==
    /\ Walking /\ index > Len(policy.rules)
    /\ outcome' = [verdict |-> EgressVerdict(policy, facts), rule |-> 0]
    /\ UNCHANGED <<policy, loaded, facts, piiWeight, index, heldBack>>

WalkNext == FromYaml \/ NextRule \/ HoldBack \/ RuleDecides \/ EgressDecides

WalkSpec == WalkInit /\ [][WalkNext]_walkVars

-----------------------------------------------------------------------------
(* Properties.                                                              *)

Decided == outcome # Undecided

(* loaded is an outcome of from_yaml, index and outcome name rules.         *)
WalkTypeOK ==
    /\ loaded \in {"pending", "ok", "EndpointPortZero", "DuplicateEndpointTarget",
                   "BlankRuleCondition", "UncompilableRuleConditions"}
    /\ index \in 1 .. Len(policy.rules) + 1
    /\ heldBack \in BOOLEAN
    /\ outcome.verdict \in Verdicts \cup {"none"}
    /\ outcome.rule \in 0 .. Len(policy.rules)

\* The walk, with its flag, comes to the closed form: the first match, unless that
\* is a refusal personal data caused; then the first match personal data did not cause.
WalkIsClosedForm ==
    Decided => outcome = IF piiWeight = "Decides" THEN DecideExplained(policy, facts)
                                                  ELSE DecidePiiAuditOnly(policy, facts)

\* Scanning alone never refuses in detect mode.  A rule that owes its match to personal
\* data decides only as an exemption block mode reaches too, and the two modes differ
\* only where block mode's own answer is a refusal of that kind; what then answers may
\* still be stricter, a deny below a pause (the doc of decide_pii_audit_only).
ScanningAloneNeverRefuses ==
    Decided /\ piiWeight = "AuditsOnly" =>
        LET block == DecideExplained(policy, facts)
        IN  /\ outcome.rule \in Caused(policy, facts) =>
                    outcome = block /\ outcome.verdict = "allow"
            /\ outcome # block =>
                    block.rule \in Caused(policy, facts) /\ block.verdict # "allow"
=============================================================================
