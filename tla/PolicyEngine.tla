----------------------------- MODULE PolicyEngine -----------------------------
(***************************************************************************)
(* The policy of a gateway: what a policy document must satisfy to be       *)
(* loaded, which endpoint a target is, which rules match some facts, and    *)
(* which of them decides.                                                   *)
(*                                                                         *)
(* A condition is one of a few CEL expressions, enough to depend on every   *)
(* kind of fact; facts.kinds says which kinds a protocol supplied.  A host  *)
(* is its sequence of labels, without a trailing dot and in lower case.     *)
(***************************************************************************)
EXTENDS Integers, Sequences, FiniteSets

Verdicts == {"allow", "deny", "pause"}
NoPii == [count |-> 0, max_severity |-> 0]

IsBlank(condition) == condition = ""
Compiles(condition) == ~ IsBlank(condition) /\ condition # "not CEL"

\* eval_program.  A variable whose facts are absent is an error, and an error is no
\* match; pii alone is always bound, to its default when nothing was found.
Holds(condition, facts, pii) ==
    \/ condition = "true"
    \/ condition = "pii.count > 0" /\ pii.count > 0
    \/ condition = "pii.count == 0" /\ pii.count = 0
    \/ condition = "http.method == 'POST'" /\ "http" \in facts.kinds /\ facts.method = "POST"
    \/ condition = "http.body_size < 0" /\ "http" \in facts.kinds /\ facts.size < 0
    \/ condition = "sql.verb == 'DROP'" /\ "sql" \in facts.kinds /\ facts.verb = "DROP"
    \/ /\ condition = "sql.verb == 'DELETE' && sql.table == 'scratch'" /\ "sql" \in facts.kinds
       /\ facts.verb = "DELETE" /\ facts.table = "scratch"
    \/ condition = "k8s.verb == 'delete'" /\ "k8s" \in facts.kinds /\ facts.verb = "delete"

-----------------------------------------------------------------------------
(* Deciding.                                                                *)

EndpointMatches(pattern, endpoint) == pattern = "*" \/ pattern = endpoint

\* The rule is for this endpoint and its condition compiles and holds.
Matches(rule, facts) ==
    /\ EndpointMatches(rule.endpoint, facts.endpoint)
    /\ Compiles(rule.condition)
    /\ Holds(rule.condition, facts, facts.pii)

PiiCaused(rule, facts) ==
    facts.pii.count > 0 /\ ~ Holds(rule.condition, facts, NoPii)

EndsIn(labels, domain) ==
    /\ Len(labels) <= Len(domain)
    /\ SubSeq(domain, Len(domain) - Len(labels) + 1, Len(domain)) = labels

MatchesDomain(pattern, domain) ==
    IF pattern.wildcard THEN EndsIn(pattern.labels, domain)
                        ELSE pattern.labels = domain

MatchesAny(patterns, domain) == \E p \in patterns : MatchesDomain(p, domain)

\* The empty sequence is the domain of facts that have none.
EgressVerdict(policy, facts) ==
    IF facts.domain # <<>> /\ MatchesAny(policy.egress.deny, facts.domain) THEN "deny"
    ELSE IF facts.domain # <<>> /\ MatchesAny(policy.egress.allow, facts.domain) THEN "allow"
    ELSE policy.egress.default

Earliest(indices) == CHOOSE i \in indices : \A j \in indices : i <= j

\* The outcome of the first of some rules, or of the egress lists if there is none;
\* the index stands for the rule's name.
OutcomeOf(policy, facts, indices) ==
    IF indices = {} THEN [verdict |-> EgressVerdict(policy, facts), rule |-> 0]
    ELSE [verdict |-> policy.rules[Earliest(indices)].verdict, rule |-> Earliest(indices)]

Matching(policy, facts) == {i \in DOMAIN policy.rules : Matches(policy.rules[i], facts)}
Caused(policy, facts) == {i \in DOMAIN policy.rules : PiiCaused(policy.rules[i], facts)}

DecideExplained(policy, facts) == OutcomeOf(policy, facts, Matching(policy, facts))

\* What decide_with's walk comes to when personal data may only be audited: once a
\* refusal it alone caused is held back, nothing it caused decides any more.
DecidePiiAuditOnly(policy, facts) ==
    LET decided == DecideExplained(policy, facts)
    IN  IF decided.rule \in Caused(policy, facts) /\ decided.verdict # "allow"
        THEN OutcomeOf(policy, facts, Matching(policy, facts) \ Caused(policy, facts))
        ELSE decided

-----------------------------------------------------------------------------
(* Loading: the endpoints and the rules are sequences in document order.     *)

\* The endpoint of a target, by its name; "" if it is none.
EndpointFor(policy, host, port) ==
    LET at == {i \in DOMAIN policy.endpoints :
                  policy.endpoints[i].host = host /\ policy.endpoints[i].port = port}
    IN  IF at = {} THEN [name |-> "", protocol |-> "tcp"]
        ELSE [name |-> policy.endpoints[Earliest(at)].name,
              protocol |-> policy.endpoints[Earliest(at)].protocol]

\* Endpoints refused by validate_endpoints: no port, or a target already named.
BadEndpoints(policy) ==
    {i \in DOMAIN policy.endpoints :
        \/ policy.endpoints[i].port = 0
        \/ \E j \in 1 .. i - 1 : /\ policy.endpoints[j].host = policy.endpoints[i].host
                                 /\ policy.endpoints[j].port = policy.endpoints[i].port}

BlankRules(policy) == {i \in DOMAIN policy.rules : IsBlank(policy.rules[i].condition)}
InertRules(policy) == {i \in DOMAIN policy.rules : ~ Compiles(policy.rules[i].condition)}

\* Policy::from_yaml: the first complaint, and which entries it is about.
LoadError(policy) ==
    IF BadEndpoints(policy) # {}
    THEN [error |-> IF policy.endpoints[Earliest(BadEndpoints(policy))].port = 0
                    THEN "EndpointPortZero" ELSE "DuplicateEndpointTarget",
          at |-> {Earliest(BadEndpoints(policy))}]
    ELSE IF BlankRules(policy) # {}
    THEN [error |-> "BlankRuleCondition", at |-> {Earliest(BlankRules(policy))}]
    ELSE IF InertRules(policy) # {}
    THEN [error |-> "UncompilableRuleConditions", at |-> InertRules(policy)]
    ELSE [error |-> "none", at |-> {}]
=============================================================================
