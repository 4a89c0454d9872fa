----------------------------- MODULE MCPgRelay -----------------------------
(* Instances of PgRelay.                                                    *)
EXTENDS PgRelay

Work(bound, kinds, events) == [bound |-> bound, kinds |-> kinds, events |-> events]

Statements == {"Query", "Execute", "Flush", "Denied"}
Batches == {"Execute", "Flush", "Sync", "Denied"}

Cycles == {"Query", "Execute", "Sync", "Denied"}

Answered == {"Query", "Denied", "Paused"}

\* Every kind of frame, peers that may do anything but split their bursts; bursts
\* split anywhere and a client that waits for nothing; batches driven by Flush; a
\* client that stops reading; a database that drips.
Sessions == {Work(3, FrameKinds, Events \ {"split", "client stalls", "drips"}),
             Work(2, Answered, {"client stalls", "oversized", "close"}),
             Work(2, Answered, {"drips", "error"}),
             Work(4, Cycles, {"eager client", "error", "split"}),
             Work(4, Batches, {"error", "notice"}), Work(5, Batches, {"error"})}

Failing == {Work(4, Statements, {"error"})}
=============================================================================
