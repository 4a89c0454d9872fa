---------------------------- MODULE MCAlgorithms -----------------------------
(***************************************************************************)
(* Two computations, each against a reference definition: a body restored  *)
(* as it streams, and a statement or request walked through a policy.  A   *)
(* behaviour follows one of them; the other rests where it began.          *)
(***************************************************************************)
EXTENDS Detokenizer, StatementWalk

VARIABLE follows \* "body" or "policy"

AlgorithmsInit ==
    \/ /\ follows = "body" /\ Init
       /\ policy \in StatementPolicies /\ facts \in StatementFacts /\ statements = NotSql
       /\ piiWeight = "Decides" /\ loaded = "pending" /\ index = 1
       /\ heldBack = FALSE /\ outcome = Undecided
    \/ /\ follows = "policy" /\ StatementInit
       /\ request = CHOOSE r \in Requests : TRUE
       /\ mapping = <<>> /\ body = <<>> /\ trailers = FALSE /\ arrived = 0
       /\ carry = <<>> /\ buffer = <<>> /\ pending = <<>> /\ sent = <<>>
       /\ passthrough = FALSE /\ finished = FALSE /\ ended = "open"

AlgorithmsNext ==
    \/ follows = "body" /\ Next /\ UNCHANGED <<walkVars, statements, follows>>
    \/ follows = "policy" /\ StatementNext /\ UNCHANGED <<vars, follows>>

AlgorithmsSpec == AlgorithmsInit /\ [][AlgorithmsNext]_<<vars, walkVars, statements, follows>>

-----------------------------------------------------------------------------
MCPrefix == <<"<", "<", ":">>
MCPlaceholderLen == 5

\* A credential, a longer one it is the head of, personal data with a wide
\* character in it, and personal data too mild to be rewritten.
Key     == <<"k", "m">>
LongKey == <<"k", "m", "m">>
Email   == <<"w", "@">>
Address == <<"i">>

MCCredentials == {Key, LongKey}
MCSeverity == (Email :> 2) @@ (Address :> 1)
MCPlaceholder ==
    (Key :> <<"<", "<", ":", "1", ">">>) @@ (LongKey :> <<"<", "<", ":", "2", ">">>)
      @@ (Email :> <<"<", "<", ":", "3", ">">>) @@ (Address :> <<"<", "<", ":", "4", ">">>)

MCAstral == {"astral"}
Plain == {"a", "k", "m", "<", ">", ":", "1", "2", "3", "4", "9", "@", "i", "quote", "backslash"}
MCEncoding ==
    [c \in Plain |-> <<c>>] @@ ("w" :> <<"w1", "w2">>)
      @@ ("astral" :> <<"s1", "s2", "s3", "s4">>)
MCContinuation == {"w2", "s2", "s3", "s4"}

\* Pieces a request is put together from.
Pieces == {<<"a">>, <<"<">>, <<"<", "<", ":">>, Key, LongKey, Email, Address, <<"astral">>,
           <<"<", "<", ":", "9", ">">>}
JsonPieces == {<<"astral", "backslash", "quote">>, Key, Email}

MCRequests ==
    {[json |-> FALSE, text |-> p \o q] : p \in Pieces, q \in Pieces}
      \cup {[json |-> TRUE, text |-> <<"quote">> \o p \o q \o <<"quote">> \o r] :
                p \in JsonPieces, q \in JsonPieces, r \in {Email, Address}}

-----------------------------------------------------------------------------
Host == <<"db", "corp">>
Other == <<"corp">>
Db == [name |-> "db", host |-> Host, port |-> 5432, protocol |-> "postgres"]
AllowCorp == [default |-> "deny", allow |-> {[wildcard |-> TRUE, labels |-> Other]},
              deny |-> {[wildcard |-> FALSE, labels |-> Host]}]

PairRules == [name : {"r"}, endpoint : {"*", "db"},
              condition : {"true", "pii.count > 0", "pii.count == 0", "http.method == 'POST'", "", "not CEL"},
              verdict : {"allow", "deny"}]
TripleRules == [name : {"r"}, endpoint : {"*"},
                condition : {"pii.count > 0", "pii.count == 0", "true"}, verdict : Verdicts]
OddRules == [name : {"r"}, endpoint : {"db"},
             condition : {"http.body_size < 0", "sql.verb == 'DROP'", "k8s.verb == 'delete'"},
             verdict : {"pause"}]

RuleLists == {<<>>} \cup {<<r>> : r \in PairRules \cup OddRules} \cup {<<r, s>> : r, s \in PairRules}
               \cup {<<r, s, t>> : r, s, t \in TripleRules}

MCPolicies ==
    [egress : {AllowCorp}, endpoints : {<<Db>>}, rules : RuleLists]
      \cup [egress : {AllowCorp}, rules : {<<>>},
            endpoints : {<<Db, [Db EXCEPT !.name = "db2"]>>, <<[Db EXCEPT !.port = 0]>>,
                         <<Db, [Db EXCEPT !.name = "db2", !.port = 0]>>}]

MCFactSets ==
    {[domain |-> d.domain, endpoint |-> d.endpoint, kinds |-> k.kinds, method |-> k.method,
      size |-> k.size, verb |-> k.verb, table |-> "", pii |-> p] :
        d \in {[domain |-> Host, endpoint |-> "db"], [domain |-> Other, endpoint |-> ""]},
        k \in {[kinds |-> {"http"}, method |-> "POST", size |-> -1, verb |-> ""],
               [kinds |-> {"sql"}, method |-> "", size |-> 0, verb |-> "DROP"]},
        p \in {NoPii, [count |-> 1, max_severity |-> 2]}}

-----------------------------------------------------------------------------
(* Statements: a few relations whose names can be taken for one another.    *)

Scratch == [bare |-> TRUE, folded |-> "scratch", lower |-> "scratch"]
Users == [bare |-> TRUE, folded |-> "users", lower |-> "users"]
QuotedUsers == [bare |-> TRUE, folded |-> "Users", lower |-> "users"]
PublicUsers == [bare |-> FALSE, folded |-> "users", lower |-> "users"]
Relations == {Scratch, Users, QuotedUsers, PublicUsers}

Select(reads, subqueries) == [op |-> "select", reads |-> reads, subqueries |-> subqueries]
Write(op, on, upsert, cascade, object) ==
    [op |-> op, on |-> on, upsert |-> upsert, cascade |-> cascade, object |-> object]
Bare(of) == [recursive |-> FALSE, ctes |-> <<>>, body |-> of]
Within(statement) == [op |-> "write", statement |-> statement]

DmlOn(r) == {Write("DELETE", <<r>>, FALSE, FALSE, "table"),
             Write("UPDATE", <<r>>, FALSE, FALSE, "table"),
             Write("INSERT", <<r>>, TRUE, FALSE, "table")}
Tables == {<<r>> : r \in Relations} \union {<<Scratch, Users>>}
Writings ==
    UNION {DmlOn(r) : r \in Relations}
      \union {Write("MERGE", <<r>>, FALSE, FALSE, "table") : r \in Relations}
      \union {Write("INSERT", <<r>>, FALSE, FALSE, "table") : r \in Relations}
      \union {Write(op, on, FALSE, cascade, object) :
                 op \in {"DROP", "TRUNCATE"}, on \in Tables, cascade \in BOOLEAN,
                 object \in {"table", "schema"}}
      \union {Write("ALTER", <<r>>, FALSE, FALSE, object) :
                 r \in Relations, object \in {"table", "index"}}
      \union {Write("BEGIN", <<>>, FALSE, FALSE, "none")}

Mentions == {<<>>} \union {<<r>> : r \in Relations} \union {<<Scratch, r>> : r \in Relations}
Selects == {Select(m, <<>>) : m \in Mentions}
CteBodies == {Select(<<r>>, <<>>) : r \in Relations} \union {[op |-> "values"]}
               \union {Within(Write("DELETE", <<r>>, FALSE, FALSE, "table")) : r \in {Scratch, Users}}
               \union {Within(Write("UPDATE", <<Users>>, FALSE, FALSE, "table"))}
CtesNamed(name) == {[name |-> name, query |-> Bare(b)] : b \in CteBodies}
CteLists == {<<c>> : c \in CtesNamed(Scratch) \union CtesNamed(Users) \union CtesNamed(QuotedUsers)}
              \union {<<c, d>> : c \in CtesNamed(Scratch), d \in CtesNamed(Users)}
With(lists, bodies) == [recursive : BOOLEAN, ctes : lists, body : bodies]
Nested == {Select(m, <<q>>) : m \in {<<>>, <<Scratch>>},
             q \in With({<<c>> : c \in {d \in CtesNamed(Users) : d.query.body.op = "select"}},
                        {Select(<<Users>>, <<>>), Select(<<Scratch>>, <<>>)})}
Unions == {[op |-> "union", left |-> l, right |-> r] :
              l \in {Select(<<Scratch>>, <<>>), [op |-> "values"]}, r \in Selects}
QueryBodies == Selects \union Unions \union Nested \union {[op |-> "values"]}
            \union {[op |-> "query", query |-> Bare(Select(<<Users>>, <<>>))]}
            \union {Within(Write("DELETE", <<Scratch>>, FALSE, FALSE, "table"))}
Queries == {Bare(b) : b \in QueryBodies} \union With(CteLists, Selects \union {[op |-> "values"],
               Within(Write("DELETE", <<Scratch>>, FALSE, FALSE, "table"))})
             \union With({<<c>> : c \in CtesNamed(Users)}, Nested \union Unions)

AsQuery(q) == [op |-> "query", query |-> q]
Option == [name : {"analyze", "verbose"}, arg : {"none", "true", "false"}]
Options == {<<>>} \union {<<o>> : o \in Option} \union {<<o, p>> : o, p \in Option}
Explains == [op : {"explain"}, analyze : BOOLEAN, options : Options,
             statement : UNION {DmlOn(r) : r \in {Scratch, Users}}
                           \union {AsQuery(Bare(Select(<<Users>>, <<>>))),
                                   AsQuery(Bare([op |-> "values"]))}]

MCStatementLists ==
    {<<s>> : s \in Writings \union Explains \union {AsQuery(q) : q \in Queries}} \union {<<>>}
MCStatementPolicies ==
    {[egress |-> AllowCorp, endpoints |-> <<Db>>, rules |->
        <<[name |-> "scratch", endpoint |-> "db", verdict |-> "allow",
           condition |-> "sql.verb == 'DELETE' && sql.table == 'scratch'"],
          [name |-> "drop", endpoint |-> "db", verdict |-> "pause",
           condition |-> "sql.verb == 'DROP'"]>>]}
MCStatementFacts ==
    {[domain |-> Host, endpoint |-> "db", kinds |-> {"sql"}, method |-> "", size |-> 0,
      verb |-> "", table |-> "", pii |-> NoPii]}
=============================================================================
