----------------------------- MODULE MCApproval -----------------------------
(* Instances of Approval: one hold of each kind of caller.                  *)
EXTENDS Approval

CONSTANTS
    http,           \* dropped with its client (hyper drops the handler future)
    pg              \* watches its client, and run_postgres may drop it

HTTPAndPostgres == {http, pg}
PostgresOnly == {pg}
=============================================================================
