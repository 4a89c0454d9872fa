------------------------------- MODULE SqlFacts -------------------------------
(***************************************************************************)
(* The verb and table a policy is told of an SQL statement, as protocols.rs *)
(* reads them from sqlparser's tree, and what PostgreSQL does when it runs  *)
(* that statement.                                                          *)
(*                                                                          *)
(* A relation is [bare, folded, lower]: whether it is unqualified, its name *)
(* as PostgreSQL folds it, and that name in lower case.  A query is         *)
(* [recursive, ctes, body], a CTE [name, query], and a body "select" (the   *)
(* relations it mentions and its subqueries), "query", "write", "union" or  *)
(* "values".  Statements are records told apart by their op.                *)
(***************************************************************************)
EXTENDS Naturals, Sequences, FiniteSets, SequencesExt

NoFacts == [verb |-> "", table |-> ""]
FactsOf(verb, table) == [verb |-> verb, table |-> table]

VerbPrecedence ==
    <<"DROP", "TRUNCATE", "ALTER", "MERGE", "DELETE", "UPDATE", "INSERT", "SELECT">>
VerbRank(verb) == IF Contains(VerbPrecedence, verb)
                  THEN CHOOSE i \in DOMAIN VerbPrecedence : VerbPrecedence[i] = verb
                  ELSE Len(VerbPrecedence) + 1
Writes(verb) == VerbRank(verb) < VerbRank("SELECT")

\* As if the first of two writes named the table of both.
MoreDangerousFirstNamed(a, b) ==
    IF a = NoFacts THEN b ELSE IF b = NoFacts THEN a
    ELSE IF VerbRank(b.verb) < VerbRank(a.verb) THEN b ELSE a

\* The worse of two verbs one statement runs; two writes of a rank name no table.
MoreDangerous(a, b) ==
    IF a = NoFacts THEN b ELSE IF b = NoFacts THEN a
    ELSE IF VerbRank(b.verb) < VerbRank(a.verb) THEN b
    ELSE IF VerbRank(b.verb) > VerbRank(a.verb) \/ ~ Writes(a.verb) THEN a
    ELSE FactsOf(a.verb, "")

\* Mentions are counted, not names.
SoleRelation(names) == IF Len(names) = 1 THEN Head(names).lower ELSE ""

\* read_set: the relations a query mentions; an alias hides a bare name where it is
\* in scope, hidden holding the folded aliases of the scopes around the query.
RECURSIVE ReadSet(_, _), ReadBody(_, _)
ReadSet(query, hidden) ==
    LET Visible(n) == hidden \union {query.ctes[i].name.folded : i \in 1..n}
        InCte(i) == ReadSet(query.ctes[i].query,
                            Visible(IF query.recursive THEN i ELSE i - 1))
    IN  FlattenSeq([i \in DOMAIN query.ctes |-> InCte(i)])
          \o ReadBody(query.body, Visible(Len(query.ctes)))
ReadBody(body, hidden) ==
    CASE body.op = "select" ->
           SelectSeq(body.reads, LAMBDA r : ~ (r.bare /\ r.folded \in hidden))
             \o FlattenSeq([i \in DOMAIN body.subqueries |->
                              ReadSet(body.subqueries[i], hidden)])
      [] body.op = "query" -> ReadSet(body.query, hidden)
      [] body.op = "union" -> ReadBody(body.left, hidden) \o ReadBody(body.right, hidden)
      [] OTHER -> <<>>

\* Only an argument that is explicitly false keeps EXPLAIN from executing.
ExplainExecutes(stmt) ==
    stmt.analyze \/ \E i \in DOMAIN stmt.options :
        stmt.options[i].name = "analyze" /\ stmt.options[i].arg # "false"

RECURSIVE ClassifyStatement(_), ClassifyQuery(_), ClassifySetExpr(_)
ClassifyStatement(stmt) ==
    CASE stmt.op = "explain" -> IF ExplainExecutes(stmt) THEN ClassifyStatement(stmt.statement)
                                ELSE FactsOf("EXPLAIN", "")
      [] stmt.op = "query" -> ClassifyQuery(stmt.query)
      [] stmt.op = "INSERT" ->
           MoreDangerous(FactsOf("INSERT", SoleRelation(stmt.on)),
                         IF stmt.upsert THEN FactsOf("UPDATE", SoleRelation(stmt.on))
                                        ELSE NoFacts)
      [] stmt.op \in {"DELETE", "UPDATE", "MERGE"}
           \/ (stmt.op = "ALTER" /\ stmt.object = "table") ->
           FactsOf(stmt.op, SoleRelation(stmt.on))
      [] stmt.op = "TRUNCATE" \/ (stmt.op = "DROP" /\ stmt.object = "table") ->
           FactsOf(stmt.op, IF stmt.cascade THEN "" ELSE SoleRelation(stmt.on))
      [] stmt.op = "DROP" -> FactsOf("DROP", "")
      [] OTHER -> NoFacts
ClassifyQuery(query) ==
    LET ctes == FoldLeft(LAMBDA worst, cte : MoreDangerous(worst, ClassifyQuery(cte.query)),
                         NoFacts, query.ctes)
        merged == MoreDangerous(ClassifySetExpr(query.body), ctes)
    IN  IF merged.verb = "SELECT" THEN FactsOf("SELECT", SoleRelation(ReadSet(query, {})))
        ELSE merged
ClassifySetExpr(body) ==
    CASE body.op = "select" -> FactsOf("SELECT", "")
      [] body.op = "query" -> ClassifyQuery(body.query)
      [] body.op = "write" -> ClassifyStatement(body.statement)
      [] body.op = "union" -> MoreDangerous(ClassifySetExpr(body.left),
                                            ClassifySetExpr(body.right))
      [] OTHER -> NoFacts

\* What the leading keyword says of a statement the tree has no verb for.
LeadingKeyword(stmt) ==
    CASE stmt.op = "explain" -> "EXPLAIN"
      [] stmt.op = "query" -> IF stmt.query.ctes # <<>> THEN "WITH" ELSE "VALUES"
      [] OTHER -> stmt.op
ParseSql(statements) ==
    IF statements = <<>> THEN FactsOf("UNKNOWN", "")
    ELSE LET facts == ClassifyStatement(Head(statements))
         IN  IF facts = NoFacts THEN FactsOf(LeadingKeyword(Head(statements)), "") ELSE facts

-----------------------------------------------------------------------------
(* PostgreSQL: a statement's effects, pairs of a verb and a relation.  A     *)
(* name is a CTE where one is in scope, and reading it reads what its query  *)
(* reads; a CTE nothing reads is not run, unless it writes.                  *)

Effect(verb, relations) == {[verb |-> verb, on |-> r] : r \in relations}
Elsewhere == [bare |-> FALSE, folded |-> "", lower |-> ""]

\* EXPLAIN's last word on ANALYZE counts.
Runs(stmt) ==
    LET said == SelectSeq(stmt.options, LAMBDA o : o.name = "analyze")
    IN  IF said = <<>> THEN stmt.analyze ELSE Last(said).arg # "false"

WriteEffects(stmt) ==
    LET on == IF stmt.op \in {"DROP", "ALTER"} /\ stmt.object # "table" THEN {Elsewhere} ELSE ToSet(stmt.on)
    IN
    Effect(stmt.op, on)
      \union (IF stmt.op = "INSERT" /\ stmt.upsert THEN Effect("UPDATE", on) ELSE {})
      \union (IF stmt.op \in {"DROP", "TRUNCATE"} /\ stmt.cascade
              THEN Effect(stmt.op, {Elsewhere}) ELSE {})

\* env maps the names of the CTEs in scope to their effects.
RECURSIVE QueryEffects(_, _), BodyEffects(_, _)
QueryEffects(query, env) ==
    LET Alone(k, scope) == query.ctes[k].name.folded :> QueryEffects(query.ctes[k].query, scope)
        inOrder[k \in 0..Len(query.ctes)] ==
            IF k = 0 THEN env ELSE Alone(k, inOrder[k - 1]) @@ inOrder[k - 1]
        AllAt(scope) == FoldLeft(LAMBDA e, k : Alone(k, scope) @@ e, env,
                                 [k \in DOMAIN query.ctes |-> k])
        \* Recursion: every name is in scope, from nothing up.
        fixed[n \in 0..Len(query.ctes) + 1] ==
            IF n = 0 THEN [name \in {query.ctes[k].name.folded : k \in DOMAIN query.ctes} |-> {}]
                            @@ env
            ELSE AllAt(fixed[n - 1])
        scope == IF query.recursive THEN fixed[Len(query.ctes) + 1] ELSE inOrder[Len(query.ctes)]
        writes == UNION {{e \in scope[query.ctes[k].name.folded] : e.verb # "SELECT"} :
                             k \in DOMAIN query.ctes}
    IN  BodyEffects(query.body, scope) \union writes
BodyEffects(body, env) ==
    CASE body.op = "select" ->
           UNION {IF body.reads[i].bare /\ body.reads[i].folded \in DOMAIN env
                  THEN env[body.reads[i].folded] ELSE Effect("SELECT", {body.reads[i]}) :
                      i \in DOMAIN body.reads}
             \union UNION {QueryEffects(body.subqueries[i], env) : i \in DOMAIN body.subqueries}
      [] body.op = "query" -> QueryEffects(body.query, env)
      [] body.op = "write" -> WriteEffects(body.statement)
      [] body.op = "union" -> BodyEffects(body.left, env) \union BodyEffects(body.right, env)
      [] OTHER -> {}

RECURSIVE Effects(_)
Effects(stmt) ==
    CASE stmt.op = "explain" -> IF Runs(stmt) THEN Effects(stmt.statement) ELSE {}
      [] stmt.op = "query" -> QueryEffects(stmt.query, <<>>)
      [] Writes(stmt.op) -> WriteEffects(stmt)
      [] OTHER -> {}

\* These facts are a fair account of the statement: nothing it does is worse than the
\* verb, and a table, where one is named, is the one thing the verb is done to.
Fair(facts, stmt) ==
    /\ \A e \in Effects(stmt) : VerbRank(facts.verb) <= VerbRank(e.verb)
    /\ facts.table # "" =>
         LET on == {e.on : e \in {e \in Effects(stmt) : e.verb = facts.verb}}
         IN  Cardinality(on) <= 1 /\ \A r \in on : r.lower = facts.table
=============================================================================
