---------------------------- MODULE StatementWalk ----------------------------
(***************************************************************************)
(* A policy asked about a PostgreSQL statement: the statement is read into  *)
(* facts (module SqlFacts) and the rules are walked for them (PolicyWalk).  *)
(* A request of another protocol brings its facts with it.                  *)
(***************************************************************************)
EXTENDS PolicyWalk, SqlFacts

CONSTANTS StatementLists,  \* what sqlparser may make of a frame's text
          StatementPolicies, StatementFacts  \* and what a statement comes with

VARIABLES statements       \* the frame's, or NotSql for another protocol

NotSql == <<[op |-> "none"]>>

StatementInit ==
    \/ WalkInit /\ statements = NotSql
    \/ /\ statements \in StatementLists
       /\ policy \in StatementPolicies /\ facts \in StatementFacts
       /\ piiWeight = "Decides" /\ loaded = "ok"
       /\ index = 0 /\ heldBack = FALSE /\ outcome = Undecided

\* Policy rules are asked about the first statement's facts.
ReadStatement ==
    /\ index = 0
    /\ LET sql == ParseSql(statements)
       IN  facts' = [facts EXCEPT !.verb = sql.verb, !.table = sql.table]
    /\ index' = 1
    /\ UNCHANGED <<policy, loaded, piiWeight, heldBack, outcome, statements>>

StatementNext ==
    \/ ReadStatement
    \/ index > 0 /\ WalkNext /\ UNCHANGED statements

StatementSpec == StatementInit /\ [][StatementNext]_<<walkVars, statements>>

(* What a rule is asked about a statement is a fair account of it: an allow *)
(* rule for a verb and a table lets nothing worse through and nothing like  *)
(* it on another relation, and a rule refusing a verb is asked about it     *)
(* wherever the statement runs it, in a CTE, under EXPLAIN ANALYZE or as a  *)
(* conflict action (the docs of VERB_PRECEDENCE, sole_relation, read_set).  *)
FactsTellTheWorst ==
    statements \notin {NotSql, <<>>} /\ Decided =>
        Fair([verb |-> facts.verb, table |-> facts.table], Head(statements))
=============================================================================
