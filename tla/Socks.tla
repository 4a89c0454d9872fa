------------------------------- MODULE Socks --------------------------------
(***************************************************************************)
(* The SOCKS5 listener: connections take a permit for their whole life,    *)
(* are negotiated, gated by policy like a CONNECT, held for approval,      *)
(* connected upstream and then tunnelled or handed to the PostgreSQL       *)
(* runtime (module PgSession, whose session one of the connections is).    *)
(***************************************************************************)
EXTENDS PgSession

CONSTANTS Clients,
          Permits,    \* MAX_CONCURRENT_CONNECTIONS
          ProtocolOf, \* Policy::endpoint_for: <<host, port>> -> protocol or "none"
          VerdictOn,  \* decide_explained on the destination: "allow", "deny" or "pause"
          AnswerOf    \* the destination: "accepts", "refuses" or "silent"
\* A workload's further fields: clients, those that come, and requests, what
\* they may send in their handshake.

(* decide_explained has three outcomes; PgSession models one session, so a *)
(* workload whose clients ask for a database has one client.               *)
ASSUME SocksAssumption ==
    /\ Permits \in Nat
    /\ \A w \in Workloads :
          /\ w.clients \subseteq Clients
          /\ \A r \in w.requests :
                /\ VerdictOn[<<r.host, r.port>>] \in {"allow", "deny", "pause"}
                /\ ProtocolOf[<<r.host, r.port>>] = "postgres" => \A c, d \in w.clients : c = d

VARIABLES conn,    \* [step, target, reply] of each client's connection
          asked,   \* what each client sends
          gone,    \* clients that have left
          permits, \* free permits
          audit    \* decisions recorded: <<client, decision>>

vars == <<pgVars, conn, asked, gone, permits, audit>>

NoTarget == <<"none", 0>>
Nowhere == [step |-> "outside", target |-> NoTarget, reply |-> "none"]
InFlight(c) == conn[c].step \notin {"outside", "dropped", "closed"}

Init ==
    /\ PgInit
    /\ asked \in [load.clients -> load.requests]
    /\ conn = [c \in Clients |-> Nowhere]
    /\ gone = {} /\ permits = Permits /\ audit = {}

Goes(c, step) == conn' = [conn EXCEPT ![c].step = step]

(* The handler returns: the socket closes, the permit is dropped.          *)
Close(c, code) ==
    /\ conn' = [conn EXCEPT ![c].step = "closed", ![c].reply = code]
    /\ permits' = permits + 1

(* serve_socks: over the cap a connection is dropped, not queued.          *)
Accept(c) ==
    /\ conn[c].step = "outside" /\ c \in load.clients
    /\ IF permits > 0 THEN Goes(c, "greeting") /\ permits' = permits - 1
       ELSE Goes(c, "dropped") /\ UNCHANGED permits
    /\ UNCHANGED <<pgVars, asked, gone, audit>>

Says(c) == c \notin gone /\ ~asked[c].silent

(* negotiate: no-auth or nothing.                                          *)
Negotiate(c) ==
    /\ conn[c].step = "greeting" /\ Says(c)
    /\ IF asked[c].version # 5 THEN Close(c, "none")
       ELSE IF ~asked[c].noAuth THEN Close(c, "none acceptable")
       ELSE Goes(c, "request") /\ UNCHANGED permits
    /\ UNCHANGED <<pgVars, asked, gone, audit>>

(* parse_request: the reply code of a request that is not served.  A name  *)
(* is lower-cased and loses its trailing dots; an address becomes text.    *)
Refusal(r) == IF r.atyp \notin {"ipv4", "ipv6", "domain"} THEN "address not supported"
              ELSE IF r.reserved # 0 THEN "general failure"
              ELSE IF r.command # "connect" THEN "command not supported"
              ELSE IF r.atyp = "domain" /\ ~r.utf8 THEN "address not supported"
              ELSE "none"

ReadRequest(c) ==
    /\ conn[c].step = "request" /\ Says(c)
    /\ IF Refusal(asked[c]) # "none" THEN Close(c, Refusal(asked[c]))
       ELSE /\ conn' = [conn EXCEPT ![c].step = "gate",
                                    ![c].target = <<asked[c].host, asked[c].port>>]
            /\ UNCHANGED permits
    /\ UNCHANGED <<pgVars, asked, gone, audit>>

(* HANDSHAKE_TIMEOUT, or the client left in the middle of it.              *)
HandshakeEnds(c) ==
    /\ conn[c].step \in {"greeting", "request"} /\ ~Says(c)
    /\ Close(c, "none")
    /\ UNCHANGED <<pgVars, asked, gone, audit>>

Target(c) == conn[c].target
Recorded(c, decision) == audit' = audit \union {<<c, decision>>}

\* As if an endpoint whose requests only TLS termination shows were a tunnel.
GateBlindToProtocol(c) ==
    /\ conn[c].step = "gate"
    /\ CASE VerdictOn[Target(c)] = "allow" ->
                Goes(c, "connect") /\ UNCHANGED permits /\ Recorded(c, "allowed")
         [] VerdictOn[Target(c)] = "deny" ->
                Close(c, "not allowed") /\ Recorded(c, "denied")
         [] OTHER -> Goes(c, "held") /\ UNCHANGED permits /\ Recorded(c, "paused")
    /\ UNCHANGED <<pgVars, asked, gone>>

(* handle_connection, connection_gate, refuse_uninspectable_socks.         *)
Gate(c) ==
    /\ conn[c].step = "gate"
    /\ LET verdict == IF ProtocolOf[Target(c)] = "kubernetes" THEN "deny"
                      ELSE VerdictOn[Target(c)] IN
       \/ /\ verdict = "allow"
          /\ Goes(c, "connect") /\ UNCHANGED permits /\ Recorded(c, "allowed")
       \/ /\ verdict = "deny"
          /\ Close(c, "not allowed") /\ Recorded(c, "denied")
       \/ /\ verdict = "pause"
          /\ Goes(c, "held") /\ UNCHANGED permits /\ Recorded(c, "paused")
    /\ UNCHANGED <<pgVars, asked, gone>>

(* hold, modelled in Approval: nobody watches the client meanwhile.        *)
HoldApproved(c) ==
    /\ conn[c].step = "held"
    /\ Goes(c, "connect") /\ Recorded(c, "approved")
    /\ UNCHANGED <<pgVars, asked, gone, permits>>

HoldEnds(c) ==
    /\ conn[c].step = "held"
    /\ Close(c, "not allowed") /\ Recorded(c, "rejected")
    /\ UNCHANGED <<pgVars, asked, gone>>

(* connect_upstream: the success reply follows the connection.             *)
Connect(c) ==
    /\ conn[c].step = "connect" /\ AnswerOf[Target(c)] = "accepts"
    /\ IF c \in gone THEN Close(c, "none") /\ UNCHANGED session
       ELSE /\ conn' = [conn EXCEPT ![c].reply = "success", ![c].step =
                    IF ProtocolOf[Target(c)] = "postgres" THEN "session" ELSE "tunnel"]
            /\ session' = IF ProtocolOf[Target(c)] = "postgres" THEN "startup" ELSE session
            /\ UNCHANGED permits
    /\ UNCHANGED <<load, frames, unread, pending, reading, upstream, approved, closing>>
    /\ UNCHANGED <<asked, gone, audit>>

ConnectRefused(c) ==
    /\ conn[c].step = "connect" /\ AnswerOf[Target(c)] = "refuses"
    /\ Close(c, "connection refused")
    /\ UNCHANGED <<pgVars, asked, gone, audit>>

\* As if only the kernel bounded the connect.
ConnectWaitsForKernel(c) ==
    /\ conn[c].step = "connect" /\ AnswerOf[Target(c)] = "no route"
    /\ Close(c, "connection refused")
    /\ UNCHANGED <<pgVars, asked, gone, audit>>

(* CONNECT_TIMEOUT.                                                        *)
ConnectTimesOut(c) ==
    /\ conn[c].step = "connect" /\ AnswerOf[Target(c)] = "silent"
    /\ Close(c, "connection refused")
    /\ UNCHANGED <<pgVars, asked, gone, audit>>

(* copy_bidirectional: both directions ended.  A destination ends its own  *)
(* after the client's has ended.                                           *)
TunnelEnds(c) ==
    /\ conn[c].step = "tunnel"
    /\ Close(c, conn[c].reply)
    /\ UNCHANGED <<pgVars, asked, gone, audit>>

(* run_postgres returned.                                                  *)
SessionEnds(c) ==
    /\ conn[c].step = "session" /\ session = "ended"
    /\ Close(c, conn[c].reply)
    /\ UNCHANGED <<pgVars, asked, gone, audit>>

SessionStep ==
    /\ \E c \in Clients : conn[c].step = "session"
    /\ PgStep
    /\ gone' = IF closing' # "no" THEN gone \union {c \in Clients : conn[c].step = "session"}
               ELSE gone
    /\ UNCHANGED <<conn, asked, permits, audit>>

Leaves(c) ==
    /\ c \notin gone /\ InFlight(c) /\ conn[c].step # "session"
    /\ gone' = gone \union {c}
    /\ UNCHANGED <<pgVars, conn, asked, permits, audit>>

(* What a handler, its timers and its peers do by themselves.              *)
Handler(c) == \/ Negotiate(c) \/ ReadRequest(c) \/ HandshakeEnds(c) \/ Gate(c)
              \/ HoldEnds(c) \/ Connect(c) \/ ConnectRefused(c) \/ ConnectTimesOut(c)
              \/ SessionEnds(c)

Next == \/ \E c \in Clients : Accept(c) \/ Handler(c) \/ HoldApproved(c)
                              \/ TunnelEnds(c) \/ Leaves(c)
        \/ SessionStep

(* Handlers are polled and their timers fire; a tunnel whose client left   *)
(* ends, and so does a session once its socket has.                        *)
Fairness ==
    /\ \A c \in Clients : /\ WF_vars(Handler(c))
                          /\ WF_vars(c \in gone /\ TunnelEnds(c))
    /\ WF_vars(closing # "no" /\ SessionStep)

Spec == Init /\ [][Next]_vars /\ Fairness

-----------------------------------------------------------------------------
TypeOK ==
    /\ permits \in 0..Permits /\ gone \subseteq Clients
    /\ permits + Cardinality({c \in Clients : InFlight(c)}) = Permits

(* Whoever has an upstream connection asked for that destination, was let  *)
(* through to it by policy or by a human, left an audit record saying so,  *)
(* and speaks a protocol this listener can inspect; a success reply is     *)
(* sent to no one else (handle_connection).                                *)
TunnelIsAuthorized ==
    \A c \in Clients :
        conn[c].step \in {"tunnel", "session"} \/ conn[c].reply = "success" =>
            LET t == <<asked[c].host, asked[c].port>> IN
            /\ Target(c) = t /\ AnswerOf[t] = "accepts"
            /\ ProtocolOf[t] # "kubernetes"
            /\ \/ VerdictOn[t] = "allow" /\ <<c, "allowed">> \in audit
               \/ VerdictOn[t] = "pause" /\ <<c, "approved">> \in audit
            /\ conn[c].step = "session" <=> ProtocolOf[t] = "postgres" /\ InFlight(c)

(* A connection whose client has gone gives its permit back, whatever it   *)
(* was waiting for: the handshake, a human, a silent destination, a tunnel *)
(* or a session (MAX_CONCURRENT_CONNECTIONS and the two timeouts).         *)
PermitReturns ==
    \A c \in Clients : c \in gone ~> conn[c].step \in {"closed", "dropped"}
=============================================================================
