----------------------------- MODULE SocksProofs -----------------------------
(***************************************************************************)
(* What the SOCKS5 listener guarantees for any number of clients and        *)
(* permits, whatever they ask, whoever leaves when, and whatever the policy,*)
(* a human or a destination answers.                                        *)
(***************************************************************************)
EXTENDS Socks, FiniteSetTheorems, TLAPS

Holders == {c \in Clients : InFlight(c)}

(* Every permit is free or held by exactly one connection in flight.        *)
PermitsConserved ==
    /\ permits \in Nat /\ IsFiniteSet(Holders)
    /\ permits + Cardinality(Holders) = Permits

Steps == {"outside", "dropped", "greeting", "request", "gate", "held", "connect",
          "tunnel", "session", "closed"}
Replies == {"none", "none acceptable", "address not supported", "general failure",
            "command not supported", "not allowed", "connection refused", "success"}
Targets == {NoTarget} \union UNION {{<<r.host, r.port>> : r \in w.requests} : w \in Workloads}

Typed ==
    /\ load \in Workloads /\ asked \in [load.clients -> load.requests]
    /\ conn \in [Clients -> [step : Steps, target : Targets, reply : Replies]]
    /\ gone \subseteq Clients

Wanted(c) == <<asked[c].host, asked[c].port>>
LetThrough(c) ==
    /\ ProtocolOf[Wanted(c)] # "kubernetes"
    /\ \/ VerdictOn[Wanted(c)] = "allow" /\ <<c, "allowed">> \in audit
       \/ VerdictOn[Wanted(c)] = "pause" /\ <<c, "approved">> \in audit

(* What a connection's step says of it: it belongs to a client of the       *)
(* workload, past the request its target is what that client asked for, a   *)
(* held one was paused, past the gate it was let through, and the success   *)
(* reply, an upstream connection and the step after it come together.       *)
StepTells(c) ==
    LET k == conn[c] IN
    /\ k.step \notin {"outside", "dropped"} => c \in load.clients
    /\ k.step \in {"gate", "held", "connect", "tunnel", "session"} => k.target = Wanted(c)
    /\ k.step = "held" =>
            ProtocolOf[Wanted(c)] # "kubernetes" /\ VerdictOn[Wanted(c)] = "pause"
    /\ k.step = "connect" => LetThrough(c)
    /\ k.step \in {"tunnel", "session"} => k.reply = "success"
    /\ k.reply = "success" =>
            /\ k.step \in {"tunnel", "session", "closed"}
            /\ k.target = Wanted(c) /\ AnswerOf[Wanted(c)] = "accepts" /\ LetThrough(c)
    /\ k.step = "tunnel" => ProtocolOf[Wanted(c)] # "postgres"
    /\ k.step = "session" => ProtocolOf[Wanted(c)] = "postgres"

IInv == Typed /\ PermitsConserved /\ \A c \in Clients : StepTells(c)

(* One connection changes, others' requests and the audit's past do not.    *)
Only(c) ==
    /\ conn' = [conn EXCEPT ![c] = conn'[c]]
    /\ UNCHANGED <<load, asked>> /\ audit \subseteq audit'

-----------------------------------------------------------------------------
(* The gate's audit record is the only thing about a connection another      *)
(* one's step could disturb, and records are never taken back.              *)
LEMMA OthersKeepTheirStory ==
    ASSUME IInv, NEW c \in Clients, Only(c), NEW d \in Clients, d # c
    PROVE  StepTells(d)'
<1>1. conn'[d] = conn[d] /\ Wanted(d)' = Wanted(d) /\ load' = load
  BY DEF IInv, Typed, Only, Wanted
<1>2. LetThrough(d) => LetThrough(d)'
  BY <1>1 DEF LetThrough, Only
<1> QED BY <1>1, <1>2 DEF IInv, StepTells

(* A connection that stays in flight, or out of it, moves no permit; one     *)
(* that enters takes one, one that leaves gives one back.                   *)
LEMMA PermitsFollow ==
    ASSUME IInv, NEW c \in Clients, Only(c),
           \/ InFlight(c)' = InFlight(c) /\ permits' = permits
           \/ ~InFlight(c) /\ InFlight(c)' /\ permits > 0 /\ permits' = permits - 1
           \/ InFlight(c) /\ ~InFlight(c)' /\ permits' = permits + 1
    PROVE  PermitsConserved'
<1>1. \A d \in Clients : d # c => InFlight(d)' = InFlight(d)
  BY DEF IInv, Typed, Only, InFlight
<1>2. permits \in Nat /\ IsFiniteSet(Holders) /\ Cardinality(Holders) \in Nat
  BY FS_CardinalityType DEF IInv, PermitsConserved
<1>3. CASE InFlight(c)' = InFlight(c) /\ permits' = permits
  <2>1. Holders' = Holders
    BY <1>1, <1>3 DEF Holders
  <2> QED BY <1>3, <2>1 DEF IInv, PermitsConserved
<1>4. CASE ~InFlight(c) /\ InFlight(c)' /\ permits > 0 /\ permits' = permits - 1
  <2>1. Holders' = Holders \union {c} /\ c \notin Holders
    BY <1>1, <1>4 DEF Holders
  <2>2. IsFiniteSet(Holders') /\ Cardinality(Holders') = Cardinality(Holders) + 1
    BY <1>2, <2>1, FS_AddElement
  <2> QED BY <1>2, <1>4, <2>2 DEF IInv, PermitsConserved
<1>5. CASE InFlight(c) /\ ~InFlight(c)' /\ permits' = permits + 1
  <2>1. Holders' = Holders \ {c} /\ c \in Holders
    BY <1>1, <1>5 DEF Holders
  <2>2. IsFiniteSet(Holders') /\ Cardinality(Holders') = Cardinality(Holders) - 1
    BY <1>2, <2>1, FS_RemoveElement
  <2> QED BY <1>2, <1>5, <2>2 DEF IInv, PermitsConserved
<1> QED BY <1>3, <1>4, <1>5

(* A connection that steps within its types leaves the rest typed.          *)
LEMMA StaysTyped ==
    ASSUME IInv, NEW c \in Clients, Only(c), gone' \subseteq Clients,
           conn'[c] \in [step : Steps, target : Targets, reply : Replies]
    PROVE  Typed'
BY DEF IInv, Typed, Only

(* The three together: what is left to show of a step is its own client's   *)
(* story and its permit.                                                    *)
LEMMA OneMoves ==
    ASSUME IInv, NEW c \in Clients, Only(c), gone' \subseteq Clients,
           conn'[c] \in [step : Steps, target : Targets, reply : Replies],
           StepTells(c)',
           \/ InFlight(c)' = InFlight(c) /\ permits' = permits
           \/ ~InFlight(c) /\ InFlight(c)' /\ permits > 0 /\ permits' = permits - 1
           \/ InFlight(c) /\ ~InFlight(c)' /\ permits' = permits + 1
    PROVE  IInv'
<1>1. \A d \in Clients : StepTells(d)'
  BY OthersKeepTheirStory
<1> QED BY <1>1, PermitsFollow, StaysTyped DEF IInv

(* However a handler ends early, its connection closes and its permit       *)
(* returns; only a tunnel or a session ends with the success reply sent.    *)
LEMMA ClosingKeeps ==
    ASSUME IInv, NEW c \in Clients, NEW code \in Replies, InFlight(c), Close(c, code),
           code = "success" => conn[c].reply = "success",
           UNCHANGED <<load, asked, gone>>, audit \subseteq audit'
    PROVE  IInv'
<1>1. /\ conn'[c] = [conn[c] EXCEPT !.step = "closed", !.reply = code]
      /\ conn' = [conn EXCEPT ![c] = conn'[c]] /\ permits' = permits + 1
  BY DEF Close, IInv, Typed
<1>2. Only(c)
  BY <1>1 DEF Only
<1>3. conn'[c] \in [step : Steps, target : Targets, reply : Replies]
  BY <1>1 DEF IInv, Typed, Steps
<1>4. ~InFlight(c)'
  BY <1>1 DEF InFlight, IInv, Typed
<1>5. Wanted(c)' = Wanted(c) /\ (LetThrough(c) => LetThrough(c)')
  BY DEF Wanted, LetThrough
<1>6. conn'[c].step = "closed" /\ conn'[c].reply = code /\ conn'[c].target = conn[c].target
  BY <1>1 DEF IInv, Typed
<1>7. StepTells(c)'
  BY <1>5, <1>6 DEF IInv, StepTells, InFlight
<1>8. gone' \subseteq Clients
  BY DEF IInv, Typed
<1> QED BY <1>1, <1>2, <1>3, <1>4, <1>7, <1>8, OneMoves

(* The gate, the hold and the connect move one connection on within flight. *)
LEMMA GoingKeeps ==
    ASSUME IInv, NEW c \in Clients, NEW step \in Steps, InFlight(c), Goes(c, step),
           step \notin {"outside", "dropped", "closed", "tunnel", "session"},
           conn[c].reply # "success",
           step \in {"gate", "held", "connect"} => conn[c].target = Wanted(c),
           step = "held" => /\ ProtocolOf[Wanted(c)] # "kubernetes"
                            /\ VerdictOn[Wanted(c)] = "pause",
           step = "connect" => LetThrough(c)',
           UNCHANGED <<load, asked, gone, permits>>, audit \subseteq audit'
    PROVE  IInv'
<1>1. /\ conn'[c] = [conn[c] EXCEPT !.step = step]
      /\ conn' = [conn EXCEPT ![c] = conn'[c]]
  BY DEF Goes, IInv, Typed
<1>2. Only(c)
  BY <1>1 DEF Only
<1>3. conn'[c] \in [step : Steps, target : Targets, reply : Replies]
  BY <1>1 DEF IInv, Typed
<1>4. conn'[c].step = step /\ conn'[c].reply = conn[c].reply
      /\ conn'[c].target = conn[c].target
  BY <1>1 DEF IInv, Typed
<1>5. Wanted(c)' = Wanted(c) /\ InFlight(c)'
  BY <1>4 DEF Wanted, InFlight
<1>6. StepTells(c)'
  BY <1>4, <1>5 DEF IInv, StepTells, InFlight
<1>7. gone' \subseteq Clients
  BY DEF IInv, Typed
<1> QED BY <1>2, <1>3, <1>5, <1>6, <1>7, OneMoves

-----------------------------------------------------------------------------
(* Every permit is free, and nobody has a connection, when the listener     *)
(* starts.                                                                  *)
LEMMA InvInit == Init => IInv
<1> SUFFICES ASSUME Init PROVE IInv
  OBVIOUS
<1>1. \A c \in Clients : conn[c] = Nowhere
  BY DEF Init
<1>2. load \in Workloads /\ asked \in [load.clients -> load.requests] /\ gone \subseteq Clients
  BY DEF Init, PgInit
<1>3. Nowhere \in [step : Steps, target : Targets, reply : Replies]
  BY DEF Nowhere, Steps, Targets, Replies
<1>4. Typed
  BY <1>2, <1>3 DEF Typed, Init
<1>5. Holders = {}
  BY <1>1 DEF Holders, InFlight, Nowhere
<1>6. PermitsConserved
  BY <1>5, FS_EmptySet, SocksAssumption DEF PermitsConserved, Init
<1>7. \A c \in Clients : StepTells(c)
  BY <1>1 DEF StepTells, Nowhere
<1> QED BY <1>4, <1>6, <1>7 DEF IInv

(* The request a client of the workload sends has a target the policy       *)
(* decides, with one of its three outcomes.                                 *)
LEMMA RequestsAreDecided ==
    ASSUME IInv, NEW c \in load.clients
    PROVE  Wanted(c) \in Targets /\ VerdictOn[Wanted(c)] \in {"allow", "deny", "pause"}
<1>1. load \in Workloads /\ asked[c] \in load.requests
  BY DEF IInv, Typed
<1>2. Wanted(c) \in {<<r.host, r.port>> : r \in load.requests}
  BY <1>1 DEF Wanted
<1> QED BY <1>1, <1>2, SocksAssumption DEF Targets, Wanted

(* A connection accepted is at its greeting, with no tunnel.                 *)
LEMMA AcceptKeeps == ASSUME IInv, NEW c \in Clients, Accept(c) PROVE IInv'
<1>1. conn[c].step = "outside" /\ c \in load.clients /\ conn[c].reply # "success"
  BY DEF Accept, IInv, StepTells
<1>2. conn' = [conn EXCEPT ![c] = conn'[c]] /\ UNCHANGED <<load, asked, gone, audit>>
  BY DEF Accept, Goes, pgVars, IInv, Typed
<1>3. Only(c) /\ gone' \subseteq Clients
  BY <1>2 DEF Only, IInv, Typed
<1>4. \/ conn'[c] = [conn[c] EXCEPT !.step = "greeting"] /\ permits > 0 /\ permits' = permits - 1
      \/ conn'[c] = [conn[c] EXCEPT !.step = "dropped"] /\ permits' = permits
  BY DEF Accept, Goes, IInv, Typed
<1>5. conn'[c] \in [step : Steps, target : Targets, reply : Replies]
  BY <1>4 DEF IInv, Typed, Steps
<1>6. /\ conn'[c].reply = conn[c].reply
      /\ \/ conn'[c].step = "greeting" /\ permits > 0 /\ permits' = permits - 1
         \/ conn'[c].step = "dropped" /\ permits' = permits
  BY <1>4 DEF IInv, Typed
<1>7. StepTells(c)'
  BY <1>1, <1>2, <1>6 DEF StepTells
<1>8. ~InFlight(c)
  BY <1>1 DEF InFlight
<1>9. CASE conn'[c].step = "greeting" /\ permits > 0 /\ permits' = permits - 1
  <2>1. InFlight(c)'
    BY <1>9 DEF InFlight
  <2> QED BY <1>3, <1>5, <1>7, <1>8, <1>9, <2>1, OneMoves
<1>10. CASE conn'[c].step = "dropped" /\ permits' = permits
  <2>1. ~InFlight(c)'
    BY <1>10 DEF InFlight
  <2>2. InFlight(c)' = InFlight(c)
    BY <1>8, <2>1 DEF InFlight
  <2> QED BY <1>3, <1>5, <1>7, <1>10, <2>2, OneMoves
<1> QED BY <1>6, <1>9, <1>10

(* Negotiating chooses a method and opens nothing.                           *)
LEMMA NegotiateKeeps == ASSUME IInv, NEW c \in Clients, Negotiate(c) PROVE IInv'
<1>1. InFlight(c) /\ conn[c].reply # "success"
  BY DEF Negotiate, InFlight, IInv, StepTells
<1>2. UNCHANGED <<load, asked, gone, audit>>
  BY DEF Negotiate, pgVars
<1>3. CASE Close(c, "none")
  BY <1>1, <1>2, <1>3, ClosingKeeps DEF Replies
<1>4. CASE Close(c, "none acceptable")
  BY <1>1, <1>2, <1>4, ClosingKeeps DEF Replies
<1>5. CASE Goes(c, "request") /\ permits' = permits
  BY <1>1, <1>2, <1>5, GoingKeeps DEF Steps
<1> QED BY <1>3, <1>4, <1>5 DEF Negotiate

(* A request read is judged before anything is opened.                       *)
LEMMA ReadRequestKeeps == ASSUME IInv, NEW c \in Clients, ReadRequest(c) PROVE IInv'
<1>1. /\ InFlight(c) /\ conn[c].reply # "success" /\ c \in load.clients
      /\ UNCHANGED <<load, asked, gone, audit>>
  BY DEF ReadRequest, InFlight, IInv, StepTells, pgVars
<1>2. CASE Close(c, Refusal(asked[c]))
  <2>1. Refusal(asked[c]) \in Replies /\ Refusal(asked[c]) # "success"
    BY DEF Refusal, Replies
  <2> QED BY <1>1, <1>2, <2>1, ClosingKeeps
<1>3. CASE /\ conn' = [conn EXCEPT ![c].step = "gate", ![c].target = Wanted(c)]
           /\ permits' = permits
  <2>1. /\ conn'[c] = [step |-> "gate", target |-> Wanted(c), reply |-> conn[c].reply]
        /\ conn' = [conn EXCEPT ![c] = conn'[c]]
    BY <1>3 DEF IInv, Typed
  <2>2. Only(c) /\ gone' \subseteq Clients
    BY <1>1, <2>1 DEF Only, IInv, Typed
  <2>3. conn'[c] \in [step : Steps, target : Targets, reply : Replies]
    BY <1>1, <2>1, RequestsAreDecided DEF IInv, Typed, Steps
  <2>4. StepTells(c)'
    BY <1>1, <2>1 DEF StepTells, Wanted
  <2>5. InFlight(c)' = InFlight(c)
    BY <1>1, <2>1 DEF InFlight
  <2> QED BY <1>3, <2>2, <2>3, <2>4, <2>5, OneMoves
<1> QED BY <1>2, <1>3 DEF ReadRequest, Wanted

(* Only what the policy allows passes the gate.                              *)
LEMMA GateKeeps == ASSUME IInv, NEW c \in Clients, Gate(c) PROVE IInv'
<1>1. /\ InFlight(c) /\ conn[c].reply # "success" /\ c \in load.clients
      /\ conn[c].target = Wanted(c) /\ UNCHANGED <<load, asked, gone>>
  BY DEF Gate, InFlight, IInv, StepTells, pgVars
<1>2. audit \subseteq audit'
  BY DEF Gate, Recorded
<1>3. CASE Close(c, "not allowed")
  BY <1>1, <1>2, <1>3, ClosingKeeps DEF Replies
<1>4. CASE /\ ProtocolOf[Wanted(c)] # "kubernetes" /\ VerdictOn[Wanted(c)] = "allow"
           /\ Goes(c, "connect") /\ permits' = permits /\ Recorded(c, "allowed")
  <2>1. LetThrough(c)'
    BY <1>1, <1>4 DEF LetThrough, Recorded, Wanted
  <2> QED BY <1>1, <1>2, <1>4, <2>1, GoingKeeps DEF Steps
<1>5. CASE /\ ProtocolOf[Wanted(c)] # "kubernetes" /\ VerdictOn[Wanted(c)] = "pause"
           /\ Goes(c, "held") /\ permits' = permits
  BY <1>1, <1>2, <1>5, GoingKeeps DEF Steps
<1> QED BY <1>1, <1>3, <1>4, <1>5 DEF Gate, Target

(* A hold passes on only what was approved.                                  *)
LEMMA HoldKeeps == ASSUME IInv, NEW c \in Clients, HoldApproved(c) \/ HoldEnds(c) PROVE IInv'
<1>1. /\ InFlight(c) /\ conn[c].reply # "success" /\ conn[c].target = Wanted(c)
      /\ ProtocolOf[Wanted(c)] # "kubernetes" /\ VerdictOn[Wanted(c)] = "pause"
      /\ UNCHANGED <<load, asked, gone>>
  BY DEF HoldApproved, HoldEnds, InFlight, IInv, StepTells, pgVars
<1>2. audit \subseteq audit'
  BY DEF HoldApproved, HoldEnds, Recorded
<1>3. CASE HoldEnds(c)
  BY <1>1, <1>2, <1>3, ClosingKeeps DEF HoldEnds, Replies
<1>4. CASE HoldApproved(c)
  <2>1. LetThrough(c)'
    BY <1>1, <1>4 DEF LetThrough, HoldApproved, Recorded, Wanted
  <2> QED BY <1>1, <1>2, <1>4, <2>1, GoingKeeps DEF HoldApproved, Steps
<1> QED BY <1>3, <1>4

(* What is connected was allowed or approved.                                *)
LEMMA ConnectKeeps == ASSUME IInv, NEW c \in Clients, Connect(c) PROVE IInv'
<1>1. /\ InFlight(c) /\ c \in load.clients /\ UNCHANGED <<load, asked, gone, audit>>
      /\ conn[c].target = Wanted(c) /\ LetThrough(c) /\ conn[c].reply # "success"
      /\ AnswerOf[Wanted(c)] = "accepts"
  BY DEF Connect, Target, InFlight, IInv, StepTells
<1>2. CASE Close(c, "none")
  BY <1>1, <1>2, ClosingKeeps DEF Replies
<1>3. CASE /\ conn' = [conn EXCEPT ![c].reply = "success", ![c].step =
                IF ProtocolOf[Target(c)] = "postgres" THEN "session" ELSE "tunnel"]
           /\ permits' = permits
  <2> DEFINE next == IF ProtocolOf[Wanted(c)] = "postgres" THEN "session" ELSE "tunnel"
  <2>1. /\ conn'[c] = [step |-> next, target |-> Wanted(c), reply |-> "success"]
        /\ conn' = [conn EXCEPT ![c] = conn'[c]]
    BY <1>1, <1>3 DEF IInv, Typed, Target
  <2>2. Only(c) /\ gone' \subseteq Clients
    BY <1>1, <2>1 DEF Only, IInv, Typed
  <2>3. conn'[c] \in [step : Steps, target : Targets, reply : Replies]
    BY <1>1, <2>1, RequestsAreDecided DEF Steps, Replies
  <2>4. StepTells(c)'
    BY <1>1, <2>1 DEF StepTells, Wanted, LetThrough
  <2>5. InFlight(c)' = InFlight(c)
    BY <1>1, <2>1 DEF InFlight
  <2> QED BY <1>3, <2>2, <2>3, <2>4, <2>5, OneMoves
<1> QED BY <1>2, <1>3 DEF Connect

(* The steps that only end a connection.                                    *)
LEMMA EndingsKeep ==
    ASSUME IInv, NEW c \in Clients,
           \/ HandshakeEnds(c) \/ ConnectRefused(c) \/ ConnectTimesOut(c)
           \/ TunnelEnds(c) \/ SessionEnds(c)
    PROVE  IInv'
<1>1. InFlight(c) /\ UNCHANGED <<load, asked, gone, audit>>
  BY DEF HandshakeEnds, ConnectRefused, ConnectTimesOut, TunnelEnds, SessionEnds,
         InFlight, pgVars
<1>2. CASE Close(c, "none") \/ Close(c, "connection refused")
  BY <1>1, <1>2, ClosingKeeps DEF Replies
<1>3. CASE Close(c, conn[c].reply)
  <2>1. conn[c].reply \in Replies
    BY DEF IInv, Typed
  <2> QED BY <1>1, <1>3, <2>1, ClosingKeeps
<1> QED BY <1>2, <1>3
        DEF HandshakeEnds, ConnectRefused, ConnectTimesOut, TunnelEnds, SessionEnds

(* A session's own steps, and a client leaving, change no connection.       *)
LEMMA NoConnectionMoves ==
    ASSUME IInv, UNCHANGED <<load, conn, asked, permits, audit>>, gone' \subseteq Clients
    PROVE  IInv'
<1>1. Holders' = Holders
  BY DEF Holders, InFlight
<1>2. PermitsConserved'
  BY <1>1 DEF IInv, PermitsConserved
<1>3. \A c \in Clients : StepTells(c)'
  BY DEF IInv, StepTells, LetThrough, Wanted
<1> QED BY <1>2, <1>3 DEF IInv, Typed

(* A tunnel, once open, stays that of an authorized request.                 *)
LEMMA SessionStepKeeps == ASSUME IInv, SessionStep PROVE IInv'
<1>1. load' = load
  BY DEF SessionStep, PgStep, ReadMore, ReadFails, Startup, CopyExact, CopyMore, CopyDone,
         Forward, Refuse, Hold, WatchReads, Abandoned, Approve, Rejected, RelayEnds,
         ClientCloses
<1>2. gone' \subseteq Clients /\ UNCHANGED <<conn, asked, permits, audit>>
  BY DEF SessionStep, IInv, Typed
<1> QED BY <1>1, <1>2, NoConnectionMoves

-----------------------------------------------------------------------------
(* The invariant is inductive: every step of every connection keeps it.     *)
THEOREM Inductive == Spec => []IInv
<1>1. Init => IInv
  BY InvInit
<1>2. IInv /\ [Next]_vars => IInv'
  <2> SUFFICES ASSUME IInv, [Next]_vars PROVE IInv'
    OBVIOUS
  <2>1. ASSUME NEW c \in Clients, Accept(c) PROVE IInv'
    BY <2>1, AcceptKeeps
  <2>2. ASSUME NEW c \in Clients, Handler(c) PROVE IInv'
    BY <2>2, NegotiateKeeps, ReadRequestKeeps, GateKeeps, HoldKeeps, ConnectKeeps,
       EndingsKeep DEF Handler
  <2>3. ASSUME NEW c \in Clients, HoldApproved(c) \/ TunnelEnds(c) PROVE IInv'
    BY <2>3, HoldKeeps, EndingsKeep
  <2>4. ASSUME NEW c \in Clients, Leaves(c) PROVE IInv'
    BY <2>4, NoConnectionMoves DEF Leaves, pgVars, IInv, Typed
  <2>5. CASE SessionStep
    BY <2>5, SessionStepKeeps
  <2>6. CASE UNCHANGED vars
    BY <2>6, NoConnectionMoves DEF vars, pgVars, IInv, Typed
  <2> QED BY <2>1, <2>2, <2>3, <2>4, <2>5, <2>6 DEF Next
<1> QED BY <1>1, <1>2, PTL DEF Spec

(* The listener's permits are conserved: those free and those that some     *)
(* connection in flight holds always add up to MAX_CONCURRENT_CONNECTIONS.  *)
THEOREM TypeCorrect == Spec => []TypeOK
<1>1. IInv => TypeOK
  <2> SUFFICES ASSUME IInv PROVE TypeOK
    OBVIOUS
  <2>1. Cardinality(Holders) \in Nat
    BY FS_CardinalityType DEF IInv, PermitsConserved
  <2>2. permits \in 0..Permits
    BY <2>1, SocksAssumption DEF IInv, PermitsConserved
  <2> QED BY <2>2 DEF IInv, Typed, PermitsConserved, Holders, TypeOK
<1> QED BY <1>1, Inductive, PTL

(* Nobody reaches a destination unasked, uninspected, or unless policy or a *)
(* human let that very connection through and an audit record says so.      *)
THEOREM ConnectionsAreAuthorized == Spec => []TunnelIsAuthorized
<1>1. IInv => TunnelIsAuthorized
  <2> SUFFICES ASSUME IInv, NEW c \in Clients,
                      conn[c].step \in {"tunnel", "session"} \/ conn[c].reply = "success"
               PROVE  /\ Target(c) = Wanted(c) /\ AnswerOf[Wanted(c)] = "accepts"
                      /\ LetThrough(c)
                      /\ conn[c].step = "session" <=>
                              ProtocolOf[Wanted(c)] = "postgres" /\ InFlight(c)
    BY DEF TunnelIsAuthorized, LetThrough, Wanted
  <2>1. StepTells(c)
    BY DEF IInv
  <2> QED BY <2>1 DEF StepTells, Target, InFlight
<1> QED BY <1>1, Inductive, PTL
-----------------------------------------------------------------------------
(* The PostgreSQL session of a connection, for any stream of frames.        *)

Sessions == {"off", "startup", "loop", "copy", "discard", "held", "ended"}
Positions == Units \union {<<Len(frames) + 1, 1>>}

(* The unit the loop reads next.                                            *)
Cursor == IF pending # <<>> THEN Head(pending) ELSE unread

PgTyped ==
    load \in Workloads /\ frames \in load.streams /\ session \in Sessions

(* The watch's buffer ends where the socket begins.                         *)
BufferFollows ==
    /\ unread \in Positions /\ pending \in Seq(Units) /\ Len(pending) <= MaxHeldPipeline
    /\ \A i \in DOMAIN pending : Before(pending[i], unread)
    /\ \A i \in DOMAIN pending :
           i < Len(pending) => pending[i + 1] = Following(pending[i])
    /\ pending # <<>> => unread = Following(pending[Len(pending)])

(* The frame being read is read from its first unit on; between frames the   *)
(* loop is at a frame's first unit.                                         *)
FrameIsRead ==
    /\ reading \in Seq(Units)
    /\ \A i \in DOMAIN reading : reading[i] = <<reading[1][1], i>>
    /\ IF reading = <<>> THEN Cursor[2] = 1 ELSE Cursor = Following(reading[Len(reading)])

(* What the session's mode says of the stream: past the startup message no   *)
(* frame asks for encryption, a frame that is copied bears no statement, one *)
(* that is discarded is oversized, and a held one was paused by policy.      *)
ModeTells ==
    /\ session = "off" => unread = <<1, 1>> /\ pending = <<>> /\ reading = <<>> /\ upstream = <<>>
    /\ session \in {"loop", "copy", "discard", "held"} =>
           \A g \in DOMAIN frames : g >= Position[1] => frames[g].kind \notin Encryption
    /\ session = "copy" => reading # <<>> /\ ~Statement
    /\ session = "discard" => reading # <<>> /\ Oversized
    /\ session = "held" => /\ Whole /\ Statement /\ ~Oversized
                           /\ Inspectable(Frame) /\ Frame.verdict = "pause"
    /\ \A f \in approved : f \in Nat /\ f < Position[1]

(* What was sent, with the stream and what was approved as parameters.       *)
UnitsIn(F) == UNION {{<<f, k>> : k \in 1 .. F[f].size} : f \in DOMAIN F}

JudgedIn(F, f, A) ==
    /\ F[f].kind \notin Encryption
    /\ F[f].kind \in {"Q", "P"} =>
            /\ F[f].size <= MaxPgFrame /\ Inspectable(F[f])
            /\ \/ F[f].verdict = "allow"
               \/ F[f].verdict = "pause" /\ f \in A

Has(F, s, v, A) ==
    /\ \A i, j \in DOMAIN s : i < j => Before(s[i], s[j])
    /\ ToSet(s) = {u \in UnitsIn(F) : JudgedIn(F, u[1], A) /\ Before(u, v)}

SentInOrder ==
    /\ upstream \in Seq(Units)
    /\ IF session = "ended"
       THEN \E v \in Positions : ~Before(unread, v) /\ Has(frames, upstream, v, approved)
       ELSE Has(frames, upstream, IF session = "copy" THEN Cursor ELSE Position, approved)

PgInv == PgTyped /\ BufferFollows /\ FrameIsRead /\ ModeTells /\ SentInOrder

LEMMA HasIs == \A v : HasJudgedBefore(v) = Has(frames, upstream, v, approved)
BY DEF HasJudgedBefore, Has, Judged, JudgedIn, Units, UnitsIn

(* A client's stream: frames that are not empty.                            *)
LEMMA StreamIs ==
    ASSUME PgTyped
    PROVE  /\ Len(frames) \in Nat /\ DOMAIN frames = 1 .. Len(frames)
           /\ \A f \in DOMAIN frames : frames[f].size \in Nat \ {0}
           /\ \A f, g \in DOMAIN frames :
                 f < g /\ frames[g].kind \in Encryption => frames[f].kind \in Encryption
BY StreamAssumption DEF PgTyped

LEMMA UnitsAre ==
    ASSUME PgTyped
    PROVE  /\ \A u \in Units : /\ u[1] \in DOMAIN frames /\ u[1] \in Nat /\ u[2] \in 1 .. frames[u[1]].size
                               /\ u[2] \in Nat /\ u = <<u[1], u[2]>>
           /\ \A f \in DOMAIN frames : \A k \in 1 .. frames[f].size : <<f, k>> \in Units
           /\ \A v \in Positions : v[1] \in Nat /\ v[2] \in Nat /\ v = <<v[1], v[2]>>
<1>1. \A u \in Units : /\ u[1] \in DOMAIN frames /\ u[1] \in Nat /\ u[2] \in 1 .. frames[u[1]].size
                       /\ u[2] \in Nat /\ u = <<u[1], u[2]>>
  BY StreamIs DEF Units
<1>2. \A f \in DOMAIN frames : \A k \in 1 .. frames[f].size : <<f, k>> \in Units
  BY DEF Units
<1>3. \A v \in Positions : v[1] \in Nat /\ v[2] \in Nat /\ v = <<v[1], v[2]>>
  BY <1>1, StreamIs DEF Positions
<1> QED
  BY <1>1, <1>2, <1>3

(* Nothing is between a unit and the one that follows it.                    *)
LEMMA FollowingIsNext ==
    ASSUME PgTyped, NEW u \in Units
    PROVE  /\ Following(u) \in Positions /\ Before(u, Following(u))
           /\ u[1] <= Following(u)[1]
           /\ \A w \in Units : Before(w, Following(u)) <=> Before(w, u) \/ w = u
<1>1. /\ u[1] \in DOMAIN frames /\ u[1] \in Nat /\ u[2] \in 1 .. frames[u[1]].size
      /\ frames[u[1]].size \in Nat /\ u = <<u[1], u[2]>> /\ Len(frames) \in Nat
      /\ DOMAIN frames = 1 .. Len(frames)
  BY UnitsAre, StreamIs
<1>2. CASE u[2] < frames[u[1]].size
  <2>1. Following(u) = <<u[1], u[2] + 1>> /\ u[2] + 1 \in 1 .. frames[u[1]].size
    BY <1>1, <1>2 DEF Following
  <2>2. Following(u) \in Units
    BY <1>1, <2>1, UnitsAre
  <2>3. ASSUME NEW w \in Units
        PROVE  Before(w, Following(u)) <=> Before(w, u) \/ w = u
    <3>1. w[1] \in Nat /\ w[2] \in Nat /\ w = <<w[1], w[2]>>
      BY UnitsAre
    <3> QED
      BY <1>1, <2>1, <3>1 DEF Before
  <2> QED
    BY <1>1, <2>1, <2>2, <2>3 DEF Positions, Before
<1>3. CASE u[2] = frames[u[1]].size
  <2>1. Following(u) = <<u[1] + 1, 1>>
    BY <1>1, <1>3 DEF Following
  <2>2. Following(u) \in Positions
    <3>1. CASE u[1] = Len(frames)
      BY <2>1, <3>1 DEF Positions
    <3>2. CASE u[1] < Len(frames)
      <4>1. u[1] + 1 \in DOMAIN frames /\ 1 \in 1 .. frames[u[1] + 1].size
        BY <1>1, <3>2, StreamIs
      <4> QED
        BY <2>1, <4>1, UnitsAre DEF Positions
    <3> QED
      BY <1>1, <3>1, <3>2
  <2>3. ASSUME NEW w \in Units
        PROVE  Before(w, Following(u)) <=> Before(w, u) \/ w = u
    <3>1. w[1] \in Nat /\ w[2] \in Nat /\ w = <<w[1], w[2]>> /\ w[2] <= frames[w[1]].size
          /\ w[2] # 0
      <4>1. w[1] \in DOMAIN frames /\ w[2] \in 1 .. frames[w[1]].size
        BY UnitsAre
      <4>2. frames[w[1]].size \in Nat
        BY <4>1, StreamIs
      <4> QED
        BY <4>1, <4>2, UnitsAre
    <3>2. Before(w, Following(u)) <=> w[1] < u[1] + 1
      BY <1>1, <2>1, <3>1 DEF Before
    <3>3. w[1] < u[1] + 1 <=> w[1] < u[1] \/ w[1] = u[1]
      BY <1>1, <3>1
    <3>4. w[1] = u[1] => w[2] < u[2] \/ w = u
      BY <1>1, <1>3, <3>1
    <3>5. Before(w, u) \/ w = u <=> w[1] < u[1] \/ w[1] = u[1]
      BY <1>1, <3>1, <3>4 DEF Before
    <3> QED
      BY <3>2, <3>3, <3>5
  <2> QED
    BY <1>1, <2>1, <2>2, <2>3 DEF Before
<1> QED
  BY <1>1, <1>2, <1>3

LEMMA BeforeIsTransitive ==
    ASSUME PgTyped, NEW u \in Positions, NEW v \in Positions, NEW w \in Positions,
           Before(u, v), Before(v, w)
    PROVE  Before(u, w)
BY UnitsAre DEF Before

(* Sending the next unit, or a frame as far as it was read, or leaving it     *)
(* out, moves on by just that.                                              *)
LEMMA SendsNext ==
    ASSUME PgTyped, NEW s, NEW A, NEW u \in Units, s \in Seq(Units), Has(frames, s, u, A)
    PROVE  /\ JudgedIn(frames, u[1], A) => Has(frames, Append(s, u), Following(u), A)
           /\ ~JudgedIn(frames, u[1], A) => Has(frames, s, Following(u), A)
<1> DEFINE passed(v) == {w \in Units : JudgedIn(frames, w[1], A) /\ Before(w, v)}
<1>1. ToSet(s) = passed(u) /\ \A i, j \in DOMAIN s : i < j => Before(s[i], s[j])
  BY DEF Has, Units, UnitsIn
<1>2. passed(Following(u)) = IF JudgedIn(frames, u[1], A) THEN passed(u) \union {u} ELSE passed(u)
  BY FollowingIsNext
<1>3. CASE ~JudgedIn(frames, u[1], A)
  BY <1>1, <1>2, <1>3 DEF Has, Units, UnitsIn
<1>4. CASE JudgedIn(frames, u[1], A)
  <2> DEFINE t == Append(s, u)
  <2>1. /\ Len(s) \in Nat /\ DOMAIN s = 1 .. Len(s) /\ DOMAIN t = 1 .. Len(s) + 1
        /\ \A i \in DOMAIN s : t[i] = s[i]
        /\ t[Len(s) + 1] = u
    OBVIOUS
  <2> HIDE DEF t
  <2>2. \A i \in DOMAIN s : s[i] \in passed(u)
    BY <1>1 DEF ToSet
  <2>3. \A i, j \in DOMAIN t : i < j => Before(t[i], t[j])
    BY <1>1, <2>1, <2>2
  <2>4. ToSet(t) = ToSet(s) \union {u}
    BY <2>1 DEF ToSet
  <2> QED
    BY <1>1, <1>2, <1>4, <2>3, <2>4 DEF Has, Units, UnitsIn, t
<1> QED
  BY <1>3, <1>4

LEMMA SendsFrame ==
    ASSUME PgTyped, NEW s, NEW A, NEW r, s \in Seq(Units), r \in Seq(Units), r # <<>>,
           \A i \in DOMAIN r : r[i] = <<r[1][1], i>>,
           Has(frames, s, r[1], A)
    PROVE  /\ JudgedIn(frames, r[1][1], A) =>
                  Has(frames, s \o r, Following(r[Len(r)]), A) /\ s \o r \in Seq(Units)
           /\ ~JudgedIn(frames, r[1][1], A) => Has(frames, s, Following(r[Len(r)]), A)
<1> DEFINE f == r[1][1]
           n == Len(r)
           passed(v) == {w \in Units : JudgedIn(frames, w[1], A) /\ Before(w, v)}
<1>1. n \in Nat /\ n # 0 /\ DOMAIN r = 1 .. n /\ r[1] \in Units /\ r[n] \in Units
      /\ r[1] = <<f, 1>> /\ r[n] = <<f, n>>
  <2>1. n \in Nat /\ n # 0 /\ DOMAIN r = 1 .. n
    OBVIOUS
  <2> HIDE DEF n
  <2>2. 1 \in DOMAIN r /\ n \in DOMAIN r
    BY <2>1
  <2> QED
    BY <2>1, <2>2
<1>2. ToSet(s) = passed(r[1]) /\ \A i, j \in DOMAIN s : i < j => Before(s[i], s[j])
  BY DEF Has, Units, UnitsIn
<1> HIDE DEF n
<1>3. \A i \in 1 .. n : r[i] \in Units /\ r[i][1] = f /\ r[i] = <<f, i>>
  BY <1>1
<1>4. \A w \in Units : Before(w, Following(r[n])) <=> Before(w, r[1]) \/ \E i \in 1 .. n : w = r[i]
  <2> SUFFICES ASSUME NEW w \in Units
               PROVE  Before(w, Following(r[n])) <=> Before(w, r[1]) \/ \E i \in 1 .. n : w = r[i]
    OBVIOUS
  <2>1. Before(w, Following(r[n])) <=> Before(w, r[n]) \/ w = r[n]
    BY <1>1, FollowingIsNext
  <2>2. w[1] \in Nat /\ w[2] \in Nat \ {0} /\ w = <<w[1], w[2]>> /\ f \in Nat
    BY <1>1, UnitsAre
  <2>3. Before(w, r[n]) \/ w = r[n] <=> w[1] < f \/ (w[1] = f /\ w[2] <= n)
    BY <1>1, <2>2 DEF Before
  <2>4. Before(w, r[1]) <=> w[1] < f
    BY <1>1, <2>2 DEF Before
  <2>5. (w[1] = f /\ w[2] <= n) <=> \E i \in 1 .. n : w = r[i]
    <3>1. ASSUME w[1] = f, w[2] <= n
          PROVE  w[2] \in 1 .. n /\ w = r[w[2]]
      <4>1. w[2] \in 1 .. n
        BY <1>1, <2>2, <3>1
      <4>2. r[w[2]] = <<f, w[2]>>
        BY <1>3, <4>1
      <4>3. w = <<f, w[2]>>
        BY <2>2, <3>1
      <4> QED
        BY <4>1, <4>2, <4>3
    <3>2. ASSUME NEW i \in 1 .. n, w = r[i]
          PROVE  w[1] = f /\ w[2] <= n
      BY <1>1, <1>3, <3>2
    <3> QED
      BY <3>1, <3>2
  <2> QED
    BY <2>1, <2>3, <2>4, <2>5
<1>5. CASE ~JudgedIn(frames, f, A)
  <2>1. passed(Following(r[n])) = passed(r[1])
    BY <1>4, <1>3, <1>5
  <2> QED
    BY <1>2, <1>5, <2>1 DEF Has, Units, UnitsIn, n
<1>6. CASE JudgedIn(frames, f, A)
  <2> DEFINE t == s \o r
  <2>1. /\ Len(s) \in Nat /\ DOMAIN s = 1 .. Len(s) /\ DOMAIN t = 1 .. Len(s) + n
        /\ \A i \in DOMAIN s : t[i] = s[i]
        /\ \A i \in DOMAIN t : i \notin DOMAIN s => i - Len(s) \in 1 .. n /\ t[i] = r[i - Len(s)]
        /\ \A i \in 1 .. n : Len(s) + i \in DOMAIN t /\ t[Len(s) + i] = r[i]
        /\ t \in Seq(Units)
    BY <1>1 DEF n
  <2> HIDE DEF t
  <2>2. \A i \in DOMAIN s : s[i] \in passed(r[1])
    BY <1>2 DEF ToSet
  <2>3. ASSUME NEW i \in DOMAIN t, NEW j \in DOMAIN t, i < j
        PROVE  Before(t[i], t[j])
    <3>1. CASE j \in DOMAIN s
      <4>1. i \in DOMAIN s
        BY <2>1, <2>3, <3>1
      <4> QED
        BY <1>2, <2>1, <2>3, <3>1, <4>1
    <3>2. CASE i \in DOMAIN s /\ j \notin DOMAIN s
      <4>1. t[i] \in Units /\ Before(t[i], r[1]) /\ t[j] \in Units /\ t[j][1] = f
        BY <1>3, <2>1, <2>2, <3>2
      <4>2. t[i][1] \in Nat /\ t[i][2] \in Nat \ {0} /\ f \in Nat
        BY <1>1, <4>1, UnitsAre
      <4> QED
        BY <1>1, <4>1, <4>2 DEF Before
    <3>3. CASE i \notin DOMAIN s /\ j \notin DOMAIN s
      <4>1. t[i] = <<f, i - Len(s)>> /\ t[j] = <<f, j - Len(s)>>
        BY <1>3, <2>1, <3>3
      <4>2. i - Len(s) < j - Len(s)
        BY <2>1, <2>3
      <4> QED
        BY <4>1, <4>2 DEF Before
    <3> QED
      BY <3>1, <3>2, <3>3
  <2>4. ToSet(t) = ToSet(s) \union {r[i] : i \in 1 .. n}
    <3>1. \A i \in DOMAIN t : t[i] \in ToSet(s) \union {r[k] : k \in 1 .. n}
      BY <2>1 DEF ToSet
    <3>2. \A i \in DOMAIN s : i \in DOMAIN t
      BY <1>1, <2>1
    <3>3. ToSet(s) \subseteq ToSet(t)
      BY <2>1, <3>2 DEF ToSet
    <3>4. \A i \in 1 .. n : r[i] \in ToSet(t)
      BY <2>1 DEF ToSet
    <3>5. ToSet(t) \subseteq ToSet(s) \union {r[i] : i \in 1 .. n}
      BY <3>1 DEF ToSet
    <3> QED
      BY <3>3, <3>4, <3>5
  <2>5. passed(Following(r[n])) = passed(r[1]) \union {r[i] : i \in 1 .. n}
    BY <1>4, <1>3, <1>6
  <2> QED
    BY <1>2, <1>6, <2>1, <2>3, <2>4, <2>5 DEF Has, Units, UnitsIn, t, n
<1> QED
  BY <1>5, <1>6

(* What comes later has no say in what was sent before.                      *)
LEMMA ApprovingKeeps ==
    ASSUME PgTyped, NEW s, NEW A, NEW f \in DOMAIN frames, Has(frames, s, <<f, 1>>, A)
    PROVE  Has(frames, s, <<f, 1>>, A \union {f})
<1>1. \A u \in Units : Before(u, <<f, 1>>) => u[1] # f
  BY UnitsAre DEF Before
<1>2. {u \in Units : JudgedIn(frames, u[1], A \union {f}) /\ Before(u, <<f, 1>>)}
        = {u \in Units : JudgedIn(frames, u[1], A) /\ Before(u, <<f, 1>>)}
  BY <1>1 DEF JudgedIn
<1> QED
  BY <1>2 DEF Has, Units, UnitsIn

-----------------------------------------------------------------------------
(* The session's steps.                                                     *)

(* The unit that is read next is one of the stream's or its end.            *)
LEMMA CursorIs ==
    ASSUME PgTyped, BufferFollows
    PROVE  /\ Cursor \in Positions /\ ~Before(unread, Cursor)
           /\ pending # <<>> => Cursor \in Units /\ Cursor = pending[1]
<1>1. CASE pending = <<>>
  BY <1>1, UnitsAre DEF Cursor, BufferFollows, Before
<1>2. CASE pending # <<>>
  <2>1. 1 \in DOMAIN pending /\ Head(pending) = pending[1] /\ pending[1] \in Units
    BY <1>2 DEF BufferFollows
  <2>2. Before(pending[1], unread)
    BY <2>1 DEF BufferFollows
  <2>3. ~Before(unread, pending[1])
    BY <2>1, <2>2, UnitsAre DEF BufferFollows, Before
  <2> QED
    BY <1>2, <2>1, <2>3 DEF Cursor, Positions
<1> QED
  BY <1>1, <1>2

LEMMA PositionIs ==
    ASSUME PgTyped, BufferFollows, FrameIsRead
    PROVE  /\ Position \in Positions /\ Position[2] = 1 /\ ~Before(unread, Position)
           /\ reading = <<>> => Position = Cursor
           /\ reading # <<>> => /\ Position = reading[1] /\ reading[1] \in Units
                                /\ reading[1] = <<reading[1][1], 1>>
                                /\ reading[Len(reading)] = <<reading[1][1], Len(reading)>>
                                /\ reading[Len(reading)] \in Units
                                /\ reading[1][1] \in DOMAIN frames
<1>1. CASE reading = <<>>
  BY <1>1, CursorIs DEF Position, Cursor, FrameIsRead
<1>2. CASE reading # <<>>
  <2> DEFINE n == Len(reading)
             f == reading[1][1]
  <2>1. n \in Nat \ {0} /\ DOMAIN reading = 1 .. n /\ reading \in Seq(Units) /\ Head(reading) = reading[1]
    BY <1>2 DEF FrameIsRead
  <2> HIDE DEF n
  <2>2. 1 \in DOMAIN reading /\ n \in DOMAIN reading
    BY <2>1
  <2>3. reading[1] = <<f, 1>> /\ reading[n] = <<f, n>> /\ reading[1] \in Units /\ reading[n] \in Units
    BY <2>1, <2>2 DEF FrameIsRead
  <2>4. Cursor = Following(reading[n])
    BY <1>2 DEF FrameIsRead, n
  <2>5. /\ f <= Cursor[1] /\ Cursor \in Positions /\ ~Before(unread, Cursor)
        /\ Before(reading[n], Cursor)
    BY <2>3, <2>4, CursorIs, FollowingIsNext
  <2>6. Before(reading[1], Cursor)
    BY <2>1, <2>3, <2>5, UnitsAre DEF Before
  <2>7. ~Before(unread, reading[1])
    <3>1. unread \in Positions /\ reading[1] \in Positions
      BY <2>3 DEF BufferFollows, Positions
    <3> QED
      BY <2>5, <2>6, <3>1, BeforeIsTransitive
  <2>8. Position = reading[1]
    BY <1>2, <2>1 DEF Position
  <2> QED
    BY <1>2, <2>3, <2>7, <2>8, UnitsAre DEF Positions, n
<1> QED
  BY <1>1, <1>2

(* Taking a unit moves the cursor on, not the position.                      *)
LEMMA TakeKeeps ==
    ASSUME PgTyped, BufferFollows, FrameIsRead, Take, ~Whole, UNCHANGED <<load, frames>>
    PROVE  /\ BufferFollows' /\ FrameIsRead' /\ Position' = Position
           /\ Cursor \in Units /\ reading' = Append(reading, Cursor)
           /\ Cursor' = Following(Cursor) /\ Cursor[1] = Position[1] /\ reading' # <<>>
           /\ reading'[1][1] = Position[1]
<1>1. Cursor \in Units
  <2>1. CASE pending # <<>>
    BY <2>1, CursorIs
  <2>2. CASE pending = <<>>
    <3>1. Cursor = unread /\ unread[1] <= Len(frames) /\ unread \in Positions
      BY <2>2, UnitsAre, StreamIs DEF Cursor, Take, Exhausted, BufferFollows
    <3> QED
      BY <3>1, StreamIs DEF Positions
  <2> QED
    BY <2>1, <2>2
<1>2. reading' = Append(reading, Cursor)
  BY DEF Take, Cursor
<1>3. BufferFollows' /\ Cursor' = Following(Cursor)
  <2>0. Positions' = Positions /\ Units' = Units
    BY DEF Positions, Units
  <2>1. CASE pending = <<>>
    <3>1. pending' = <<>> /\ unread' = Following(unread) /\ Cursor = unread /\ Cursor' = unread'
      BY <2>1 DEF Take, Cursor
    <3>2. unread' \in Positions
      BY <1>1, <3>1, FollowingIsNext
    <3> QED
      BY <2>0, <3>1, <3>2, StreamAssumption DEF BufferFollows
  <2>2. CASE pending # <<>>
    <3> DEFINE n == Len(pending)
    <3>1. n \in Nat \ {0} /\ DOMAIN pending = 1 .. n /\ pending \in Seq(Units) /\ n <= MaxHeldPipeline
      BY <2>2 DEF BufferFollows
    <3>2. pending' = Tail(pending) /\ unread' = unread /\ Cursor = pending[1]
      BY <2>2, CursorIs DEF Take
    <3>3. pending' \in Seq(Units) /\ Len(pending') = n - 1 /\ DOMAIN pending' = 1 .. n - 1
          /\ \A i \in 1 .. n - 1 : pending'[i] = pending[i + 1]
      BY <3>1, <3>2
    <3> HIDE DEF n
    <3>4. \A i \in 1 .. n - 1 : i + 1 \in 1 .. n
      BY <3>1
    <3>5. \A i \in DOMAIN pending' : Before(pending'[i], unread')
      BY <3>1, <3>2, <3>3, <3>4 DEF BufferFollows
    <3>6. \A i \in DOMAIN pending' : i < Len(pending') => pending'[i + 1] = Following(pending'[i])
      <4> SUFFICES ASSUME NEW i \in DOMAIN pending', i < Len(pending')
                   PROVE  pending'[i + 1] = Following(pending'[i])
        OBVIOUS
      <4>1. i \in 1 .. n - 1 /\ i + 1 \in 1 .. n - 1 /\ i + 1 \in DOMAIN pending /\ i + 1 < Len(pending)
        BY <3>1, <3>3 DEF n
      <4> QED
        BY <3>3, <4>1 DEF BufferFollows
    <3>7. pending' # <<>> => unread' = Following(pending'[Len(pending')])
      <4> SUFFICES ASSUME pending' # <<>> PROVE unread' = Following(pending'[Len(pending')])
        OBVIOUS
      <4>1. n - 1 \in 1 .. n - 1
        BY <3>1, <3>3
      <4>2. pending'[n - 1] = pending[n]
        BY <3>1, <3>3, <4>1
      <4> QED
        BY <2>2, <3>2, <3>3, <4>2 DEF BufferFollows, n
    <3>8. Cursor' = Following(Cursor)
      <4>1. CASE n = 1
        <5>1. pending' = <<>>
          BY <3>3, <4>1
        <5> QED
          BY <2>2, <3>2, <4>1, <5>1 DEF Cursor, BufferFollows, n
      <4>2. CASE n # 1
        <5>1. pending' # <<>> /\ Head(pending') = pending'[1] /\ 1 \in DOMAIN pending' /\ 1 < n
          BY <3>1, <3>3, <4>2
        <5>2. pending'[1] = pending[2] /\ 1 \in DOMAIN pending
          BY <3>1, <3>3, <5>1
        <5>3. pending[2] = Following(pending[1])
          BY <5>1, <5>2 DEF BufferFollows, n
        <5> QED
          BY <3>2, <5>1, <5>2, <5>3 DEF Cursor
      <4> QED
        BY <4>1, <4>2
    <3>9. unread' \in Positions' /\ Len(pending') <= MaxHeldPipeline
      BY <2>0, <3>1, <3>2, <3>3, StreamAssumption DEF BufferFollows
    <3> QED
      BY <2>0, <3>3, <3>5, <3>6, <3>7, <3>8, <3>9 DEF BufferFollows, Following, Before
  <2> QED
    BY <2>1, <2>2
<1>4. Following(Cursor)' = Following(Cursor') /\ Units' = Units
  BY DEF Following, Units
<1>5. CASE reading = <<>>
  <2>1. Cursor[2] = 1 /\ Cursor = <<Cursor[1], 1>> /\ Position = Cursor
    BY <1>1, <1>5, PositionIs, UnitsAre DEF FrameIsRead
  <2>2. reading' = <<Cursor>> /\ Head(reading') = Cursor
    BY <1>2, <1>5
  <2>3. FrameIsRead'
    BY <1>1, <1>3, <1>4, <2>1, <2>2 DEF FrameIsRead, Following
  <2> QED
    BY <1>1, <1>2, <1>3, <2>1, <2>2, <2>3 DEF Position
<1>6. CASE reading # <<>>
  <2> DEFINE n == Len(reading)
             f == reading[1][1]
  <2>1. n \in Nat \ {0} /\ DOMAIN reading = 1 .. n /\ reading \in Seq(Units)
    BY <1>6 DEF FrameIsRead
  <2>2. /\ Position = reading[1] /\ f \in DOMAIN frames /\ reading[n] = <<f, n>> /\ reading[n] \in Units
        /\ reading[1] = <<f, 1>>
    BY <1>6, PositionIs
  <2>3. n # frames[f].size
    BY <1>6 DEF Whole, Frame
  <2>4. n < frames[f].size
    <3>1. reading[n][2] \in 1 .. frames[f].size /\ reading[n][2] = n /\ frames[f].size \in Nat
      BY <2>2, UnitsAre, StreamIs
    <3> QED
      BY <2>1, <2>3, <3>1
  <2>5. Cursor = <<f, n + 1>>
    BY <1>6, <2>2, <2>4 DEF FrameIsRead, Following
  <2>6. /\ reading' \in Seq(Units) /\ Len(reading') = n + 1 /\ DOMAIN reading' = 1 .. n + 1
        /\ \A i \in 1 .. n : reading'[i] = reading[i]
        /\ reading'[n + 1] = Cursor
    BY <1>1, <1>2, <2>1
  <2> HIDE DEF n, f
  <2>7. reading'[1] = reading[1] /\ reading'[1][1] = f
    BY <2>1, <2>2, <2>6
  <2>8. \A i \in DOMAIN reading' : reading'[i] = <<f, i>>
    <3> SUFFICES ASSUME NEW i \in DOMAIN reading' PROVE reading'[i] = <<f, i>>
      OBVIOUS
    <3>1. CASE i \in 1 .. n
      BY <2>1, <2>6, <3>1 DEF FrameIsRead, f
    <3>2. CASE i = n + 1
      BY <2>5, <2>6, <3>2
    <3> QED
      BY <2>1, <2>6, <3>1, <3>2
  <2>9. reading' # <<>> /\ Head(reading') = reading'[1]
    BY <2>1, <2>6
  <2>10. Cursor' = Following(reading'[Len(reading')])
    BY <1>3, <2>6
  <2>11. FrameIsRead'
    BY <1>4, <2>6, <2>7, <2>8, <2>9, <2>10 DEF FrameIsRead, Following
  <2>12. Position' = Position /\ Cursor[1] = Position[1]
    BY <1>6, <2>2, <2>5, <2>7, <2>9 DEF Position, f
  <2> QED
    BY <1>1, <1>2, <1>3, <2>2, <2>7, <2>9, <2>11, <2>12 DEF f
<1> QED
  BY <1>5, <1>6

(* When a frame has been read whole the loop is at the next one.             *)
LEMMA FrameDone ==
    ASSUME PgTyped, BufferFollows, FrameIsRead, Whole
    PROVE  /\ Cursor = <<Position[1] + 1, 1>> /\ Position = <<Position[1], 1>>
           /\ Position[1] = reading[1][1] /\ Position[1] \in DOMAIN frames
           /\ Following(reading[Len(reading)]) = Cursor
<1>1. reading # <<>> /\ Len(reading) = frames[reading[1][1]].size
  BY DEF Whole, Frame
<1>2. Cursor = Following(reading[Len(reading)])
  BY <1>1 DEF FrameIsRead
<1> QED
  BY <1>1, <1>2, PositionIs, StreamIs DEF Following

LEMMA DoneKeeps ==
    ASSUME PgTyped, BufferFollows, FrameIsRead, Whole, reading' = <<>>,
           UNCHANGED <<frames, pending, unread>>
    PROVE  /\ BufferFollows' /\ FrameIsRead' /\ Position' = Cursor /\ Cursor' = Cursor
<1>1. Cursor[2] = 1
  BY FrameDone
<1>2. Cursor' = Cursor /\ Position' = Cursor
  BY DEF Cursor, Position
<1>3. BufferFollows'
  BY DEF BufferFollows, Positions, Units, Before, Following
<1> QED
  BY <1>1, <1>2, <1>3 DEF FrameIsRead, Units

(* Reading on sends nothing.                                                 *)
LEMMA ReadMoreKeeps == ASSUME PgInv, ReadMore PROVE PgInv'
<1>1. /\ PgTyped /\ BufferFollows /\ FrameIsRead /\ ModeTells /\ SentInOrder
      /\ session \in {"startup", "loop"} /\ ~Whole /\ Take
      /\ UNCHANGED <<load, frames, session, upstream, approved>>
  BY DEF PgInv, ReadMore
<1>2. BufferFollows' /\ FrameIsRead' /\ Position' = Position
  BY <1>1, TakeKeeps
<1>3. ModeTells'
  BY <1>1, <1>2 DEF ModeTells
<1>4. SentInOrder'
  BY <1>1, <1>2 DEF SentInOrder, Units
<1>5. PgTyped'
  BY <1>1 DEF PgTyped
<1> QED
  BY <1>2, <1>3, <1>4, <1>5 DEF PgInv

(* However a session ends, it has sent what it had sent.                     *)
LEMMA EndKeeps ==
    ASSUME PgInv, session # "ended", session' = "ended",
           UNCHANGED <<load, frames, unread, pending, reading, upstream, approved>>
    PROVE  PgInv'
<1>1. PgTyped /\ BufferFollows /\ FrameIsRead /\ ModeTells /\ SentInOrder
  BY DEF PgInv
<1> DEFINE v == IF session = "copy" THEN Cursor ELSE Position
<1>2. v \in Positions /\ ~Before(unread, v) /\ Has(frames, upstream, v, approved)
  BY <1>1, CursorIs, PositionIs DEF SentInOrder
<1>3. Positions' = Positions /\ Units' = Units /\ Position' = Position /\ Cursor' = Cursor
  BY DEF Positions, Units, Position, Cursor
<1>4. SentInOrder'
  <2>1. \E w \in Positions' : ~Before(unread', w) /\ Has(frames', upstream', w, approved')
    BY <1>2, <1>3
  <2> QED
    BY <1>1, <1>3, <2>1 DEF SentInOrder
<1>5. BufferFollows' /\ FrameIsRead'
  BY <1>1, <1>3 DEF BufferFollows, FrameIsRead, Following
<1>6. PgTyped' /\ ModeTells'
  BY <1>1, <1>3 DEF PgTyped, Sessions, ModeTells
<1> QED
  BY <1>4, <1>5, <1>6 DEF PgInv

(* A frame that was read whole goes upstream if it passed, else nowhere.     *)
LEMMA FrameLeaves ==
    ASSUME PgInv, session \in {"startup", "loop", "held", "discard"}, Whole, reading' = <<>>,
           UNCHANGED <<load, frames, unread, pending>>,
           session' \in {"startup", "loop", "ended"},
           session' = "loop" =>
               \A g \in DOMAIN frames : g > Position[1] => frames[g].kind \notin Encryption,
           approved' = approved \/ approved' = approved \union {Position[1]},
           upstream' = IF JudgedIn(frames, Position[1], approved') THEN upstream \o reading
                       ELSE upstream
    PROVE  PgInv'
<1>1. PgTyped /\ BufferFollows /\ FrameIsRead /\ ModeTells /\ SentInOrder
  BY DEF PgInv
<1>2. /\ BufferFollows' /\ FrameIsRead' /\ Position' = Cursor /\ Cursor' = Cursor
      /\ Cursor = <<Position[1] + 1, 1>> /\ Position = <<Position[1], 1>>
      /\ Position[1] = reading[1][1] /\ Position[1] \in DOMAIN frames
      /\ Following(reading[Len(reading)]) = Cursor
  BY <1>1, FrameDone, DoneKeeps
<1>3. Position[1] \in Nat /\ Cursor[1] = Position[1] + 1 /\ Position'[1] = Position[1] + 1
  BY <1>1, <1>2, StreamIs
<1>4. upstream \in Seq(Units) /\ Has(frames, upstream, Position, approved)
  BY <1>1 DEF SentInOrder
<1>5. Has(frames, upstream, Position, approved')
  BY <1>1, <1>2, <1>4, ApprovingKeeps
<1>6. reading # <<>> /\ Position = reading[1]
  BY <1>1, PositionIs DEF Whole
<1>7. Has(frames, upstream', Cursor, approved') /\ upstream' \in Seq(Units)
  <2>1. /\ reading \in Seq(Units) /\ reading # <<>>
        /\ \A i \in DOMAIN reading : reading[i] = <<reading[1][1], i>>
        /\ Has(frames, upstream, reading[1], approved')
    BY <1>1, <1>5, <1>6 DEF FrameIsRead
  <2> DEFINE A == approved'
  <2>2. /\ JudgedIn(frames, reading[1][1], A) =>
              /\ Has(frames, upstream \o reading, Following(reading[Len(reading)]), A)
              /\ upstream \o reading \in Seq(Units)
        /\ ~JudgedIn(frames, reading[1][1], A) =>
              Has(frames, upstream, Following(reading[Len(reading)]), A)
    <3> HIDE DEF A
    <3>1. Has(frames, upstream, reading[1], A)
      BY <2>1 DEF A
    <3> QED
      BY <1>1, <1>4, <2>1, <3>1, SendsFrame
  <2> QED
    BY <1>2, <1>4, <2>2
<1>8. SentInOrder'
  <2>1. Cursor \in Positions /\ ~Before(unread, Cursor) /\ Positions' = Positions /\ Units' = Units
    BY <1>1, CursorIs DEF Positions, Units
  <2> QED
    BY <1>2, <1>7, <2>1 DEF SentInOrder
<1>9. ModeTells'
  <2>1. \A f \in approved' : f \in Nat /\ f < Position'[1]
    BY <1>1, <1>3 DEF ModeTells
  <2>2. session' = "loop" => \A g \in DOMAIN frames : g >= Position'[1] => frames[g].kind \notin Encryption
    BY <1>1, <1>3, StreamIs
  <2> QED
    BY <2>1, <2>2 DEF ModeTells
<1>10. PgTyped'
  BY <1>1 DEF PgTyped, Sessions
<1> QED
  BY <1>2, <1>8, <1>9, <1>10 DEF PgInv

LEMMA StartupKeeps == ASSUME PgInv, Startup PROVE PgInv'
<1>1. /\ PgTyped /\ BufferFollows /\ FrameIsRead /\ ModeTells /\ SentInOrder
      /\ session = "startup" /\ Whole /\ reading' = <<>>
      /\ UNCHANGED <<load, frames, unread, pending, approved>>
  BY DEF PgInv, Startup
<1>2. /\ Position[1] = reading[1][1] /\ Position[1] \in DOMAIN frames
      /\ Frame = frames[Position[1]] /\ Position[1] \in Nat
  BY <1>1, FrameDone, StreamIs DEF Frame
<1>3. CASE Frame.kind \in Encryption /\ Frame.size = 1
  <2>1. UNCHANGED <<session, upstream>>
    BY <1>3 DEF Startup, Encryption
  <2>2. ~JudgedIn(frames, Position[1], approved')
    BY <1>2, <1>3 DEF JudgedIn
  <2> QED
    BY <1>1, <2>1, <2>2, FrameLeaves
<1>4. CASE Frame.kind = "StartupMessage" /\ Frame.size <= MaxPgFrame
  <2>1. Frame.kind \notin Encryption /\ Frame.kind \notin {"Q", "P"} /\ Frame.kind # "CancelRequest"
    BY <1>4 DEF Encryption
  <2>2. session' = "loop" /\ upstream' = upstream \o reading
    BY <1>4, <2>1 DEF Startup
  <2>3. JudgedIn(frames, Position[1], approved')
    BY <1>2, <2>1 DEF JudgedIn
  <2>4. \A g \in DOMAIN frames : g > Position[1] => frames[g].kind \notin Encryption
    BY <1>1, <1>2, <2>1, StreamIs
  <2> QED
    BY <1>1, <2>2, <2>3, <2>4, FrameLeaves
<1>5. CASE Frame.kind = "CancelRequest"
  <2>1. Frame.kind \notin Encryption /\ Frame.kind \notin {"Q", "P", "StartupMessage"}
    BY <1>5 DEF Encryption
  <2>2. session' = "ended" /\ upstream' = upstream \o reading
    BY <1>5, <2>1 DEF Startup, End
  <2>3. JudgedIn(frames, Position[1], approved')
    BY <1>2, <2>1 DEF JudgedIn
  <2> QED
    BY <1>1, <2>2, <2>3, FrameLeaves
<1>6. CASE /\ ~(Frame.kind \in Encryption /\ Frame.size = 1)
           /\ ~(Frame.kind = "StartupMessage" /\ Frame.size <= MaxPgFrame)
           /\ Frame.kind # "CancelRequest"
  <2>1. session' = "ended" /\ upstream' = upstream
    BY <1>6 DEF Startup, End
  <2>2. /\ BufferFollows' /\ FrameIsRead' /\ Position' = Cursor
        /\ Cursor = <<Position[1] + 1, 1>>
    BY <1>1, FrameDone, DoneKeeps
  <2>3. Position \in Positions /\ ~Before(unread, Position) /\ Has(frames, upstream, Position, approved)
    BY <1>1, PositionIs DEF SentInOrder
  <2>4. Positions' = Positions /\ Units' = Units
    BY <1>1 DEF Positions, Units
  <2>5. SentInOrder'
    <3>1. \E w \in Positions' : ~Before(unread', w) /\ Has(frames', upstream', w, approved')
      BY <1>1, <2>1, <2>3, <2>4
    <3> QED
      BY <1>1, <2>1, <2>4, <3>1 DEF SentInOrder
  <2>6. ModeTells'
    <3>1. Position'[1] = Position[1] + 1
      BY <2>2
    <3>2. \A f \in approved' : f \in Nat /\ f < Position'[1]
      BY <1>1, <1>2, <3>1 DEF ModeTells
    <3> QED
      BY <2>1, <3>2 DEF ModeTells
  <2>7. PgTyped'
    BY <1>1, <2>1 DEF PgTyped, Sessions
  <2> QED
    BY <2>2, <2>5, <2>6, <2>7 DEF PgInv
<1> QED
  BY <1>3, <1>4, <1>5, <1>6

(* Nothing but the position tells what a frame of the loop is.               *)
LEMMA FrameIsThere ==
    ASSUME PgTyped, BufferFollows, FrameIsRead, reading # <<>>
    PROVE  /\ Position[1] = reading[1][1] /\ Position[1] \in DOMAIN frames /\ Position[1] \in Nat
           /\ Frame = frames[Position[1]] /\ Frame.size \in Nat
BY PositionIs, StreamIs DEF Frame

(* A frame that bears no statement passes unread.                            *)
LEMMA NoStatementPasses ==
    ASSUME PgInv, session \in {"loop", "copy"}, reading # <<>>, ~Statement
    PROVE  JudgedIn(frames, Position[1], approved)
<1>1. PgTyped /\ BufferFollows /\ FrameIsRead /\ ModeTells
  BY DEF PgInv
<1>2. frames[Position[1]].kind \notin Encryption /\ frames[Position[1]].kind \notin {"Q", "P"}
  BY <1>1, FrameIsThere DEF ModeTells, Statement
<1> QED
  BY <1>2 DEF JudgedIn

LEMMA CopyExactKeeps == ASSUME PgInv, CopyExact PROVE PgInv'
<1>1. /\ PgTyped /\ BufferFollows /\ FrameIsRead /\ ModeTells /\ SentInOrder
      /\ session = "loop" /\ reading # <<>> /\ (~Statement \/ Oversized)
      /\ session' = (IF Oversized THEN "discard" ELSE "copy")
      /\ upstream' = (IF Statement THEN upstream ELSE upstream \o reading)
      /\ UNCHANGED <<load, frames, unread, pending, reading, approved>>
  BY DEF PgInv, CopyExact, CopiesOrDiscards
<1>2. Positions' = Positions /\ Units' = Units /\ Position' = Position /\ Cursor' = Cursor
      /\ Frame' = Frame
  BY <1>1 DEF Positions, Units, Position, Cursor, Frame
<1>3. BufferFollows' /\ FrameIsRead' /\ PgTyped'
  BY <1>1, <1>2 DEF BufferFollows, FrameIsRead, Following, PgTyped, Sessions
<1>4. Oversized => Statement
  BY DEF Oversized
<1>5. ModeTells'
  BY <1>1, <1>2, <1>4 DEF ModeTells, Statement, Oversized
<1>6. Has(frames, upstream, Position, approved) /\ upstream \in Seq(Units)
  BY <1>1 DEF SentInOrder
<1>7. CASE Statement
  <2>1. session' = "discard" /\ upstream' = upstream
    BY <1>1, <1>7
  <2> QED
    BY <1>1, <1>2, <1>3, <1>5, <1>6, <2>1 DEF PgInv, SentInOrder
<1>8. CASE ~Statement
  <2>1. session' = "copy" /\ upstream' = upstream \o reading
    BY <1>1, <1>4, <1>8
  <2>2. JudgedIn(frames, reading[1][1], approved)
    BY <1>1, <1>8, NoStatementPasses, FrameIsThere
  <2>3. Has(frames, upstream, reading[1], approved)
    BY <1>1, <1>6, PositionIs
  <2>4. /\ reading \in Seq(Units) /\ Cursor = Following(reading[Len(reading)])
        /\ \A i \in DOMAIN reading : reading[i] = <<reading[1][1], i>>
    BY <1>1 DEF FrameIsRead
  <2> DEFINE A == approved
             s == upstream
  <2>5. Has(frames, s \o reading, Following(reading[Len(reading)]), A) /\ s \o reading \in Seq(Units)
    <3>1. JudgedIn(frames, reading[1][1], A) /\ Has(frames, s, reading[1], A) /\ s \in Seq(Units)
      BY <1>6, <2>2, <2>3
    <3> HIDE DEF A, s
    <3> QED
      BY <1>1, <2>4, <3>1, SendsFrame
  <2>6. SentInOrder'
    BY <1>1, <1>2, <2>1, <2>4, <2>5 DEF SentInOrder
  <2> QED
    BY <1>3, <1>5, <2>6 DEF PgInv
<1> QED
  BY <1>7, <1>8

LEMMA CopyMoreKeeps == ASSUME PgInv, CopyMore PROVE PgInv'
<1>1. /\ PgTyped /\ BufferFollows /\ FrameIsRead /\ ModeTells /\ SentInOrder
      /\ session \in {"copy", "discard"} /\ ~Whole /\ Take
      /\ upstream' = (IF session = "copy" THEN Append(upstream, Last(reading')) ELSE upstream)
      /\ UNCHANGED <<load, frames, session, approved>>
  BY DEF PgInv, CopyMore
<1>2. /\ BufferFollows' /\ FrameIsRead' /\ Position' = Position
      /\ Cursor \in Units /\ reading' = Append(reading, Cursor)
      /\ Cursor' = Following(Cursor) /\ Cursor[1] = Position[1] /\ reading' # <<>>
      /\ reading'[1][1] = Position[1]
  BY <1>1, TakeKeeps
<1>3. reading # <<>> /\ reading \in Seq(Units)
  BY <1>1 DEF ModeTells, FrameIsRead
<1>4. Frame' = Frame
  BY <1>1, <1>2, <1>3, FrameIsThere DEF Frame
<1>5. ModeTells' /\ PgTyped'
  BY <1>1, <1>2, <1>4 DEF ModeTells, Statement, Oversized, PgTyped
<1>6. Has(frames, upstream, IF session = "copy" THEN Cursor ELSE Position, approved)
      /\ upstream \in Seq(Units) /\ Units' = Units
  BY <1>1 DEF SentInOrder, Units
<1>7. CASE session = "copy"
  <2>1. Last(reading') = Cursor
    <3>1. Len(reading) \in Nat
      BY <1>3
    <3> QED
      BY <1>2, <1>3, <3>1 DEF Last
  <2>2. JudgedIn(frames, Cursor[1], approved)
    BY <1>1, <1>2, <1>3, <1>7, NoStatementPasses DEF ModeTells
  <2> DEFINE A == approved
             s == upstream
             u == Cursor
  <2>3. Has(frames, Append(s, u), Following(u), A) /\ Append(s, u) \in Seq(Units)
    <3>1. /\ JudgedIn(frames, u[1], A) /\ Has(frames, s, u, A) /\ s \in Seq(Units) /\ u \in Units
      BY <1>2, <1>6, <1>7, <2>2
    <3> HIDE DEF A, s, u
    <3> QED
      BY <1>1, <3>1, SendsNext
  <2>4. SentInOrder'
    BY <1>1, <1>2, <1>6, <1>7, <2>1, <2>3 DEF SentInOrder
  <2> QED
    BY <1>2, <1>5, <2>4 DEF PgInv
<1>8. CASE session = "discard"
  <2>1. SentInOrder'
    BY <1>1, <1>2, <1>6, <1>8 DEF SentInOrder
  <2> QED
    BY <1>2, <1>5, <2>1 DEF PgInv
<1> QED
  BY <1>1, <1>7, <1>8

LEMMA CopyDoneKeeps == ASSUME PgInv, CopyDone PROVE PgInv'
<1>1. /\ PgTyped /\ BufferFollows /\ FrameIsRead /\ ModeTells /\ SentInOrder
      /\ session \in {"copy", "discard"} /\ Whole /\ reading' = <<>> /\ session' = "loop"
      /\ UNCHANGED <<load, frames, unread, pending, upstream, approved>>
  BY DEF PgInv, CopyDone
<1>2. reading # <<>> /\ Position[1] \in DOMAIN frames /\ Position[1] \in Nat
      /\ Frame = frames[Position[1]] /\ Frame.size \in Nat
  BY <1>1, FrameIsThere DEF Whole
<1>3. \A g \in DOMAIN frames : g > Position[1] => frames[g].kind \notin Encryption
  BY <1>1, <1>2, StreamIs DEF ModeTells
<1>4. CASE session = "discard"
  <2>1. ~JudgedIn(frames, Position[1], approved')
    BY <1>1, <1>2, <1>4, StreamAssumption DEF ModeTells, Oversized, Statement, JudgedIn
  <2> QED
    BY <1>1, <1>3, <1>4, <2>1, FrameLeaves
<1>5. CASE session = "copy"
  <2>1. /\ BufferFollows' /\ FrameIsRead' /\ Position' = Cursor /\ Cursor' = Cursor
        /\ Cursor = <<Position[1] + 1, 1>>
    BY <1>1, FrameDone, DoneKeeps
  <2>2. Units' = Units /\ PgTyped'
    BY <1>1 DEF Units, PgTyped, Sessions
  <2>3. SentInOrder'
    BY <1>1, <1>5, <2>1, <2>2 DEF SentInOrder
  <2>4. Position'[1] = Position[1] + 1
    BY <2>1
  <2>5. ModeTells'
    <3>1. \A f \in approved' : f \in Nat /\ f < Position'[1]
      BY <1>1, <1>2, <2>4 DEF ModeTells
    <3>2. \A g \in DOMAIN frames : g >= Position'[1] => frames[g].kind \notin Encryption
      BY <1>1, <1>2, <1>3, <2>4, StreamIs
    <3> QED
      BY <1>1, <3>1, <3>2 DEF ModeTells
  <2> QED
    BY <2>1, <2>2, <2>3, <2>5 DEF PgInv
<1> QED
  BY <1>1, <1>4, <1>5

(* A statement that is judged belongs upstream if it was let through.        *)
LEMMA StatementPasses ==
    ASSUME PgInv, session \in {"loop", "held"}, Whole, Statement, ~Oversized, NEW A
    PROVE  JudgedIn(frames, Position[1], A) <=>
               /\ Inspectable(Frame)
               /\ \/ Frame.verdict = "allow"
                  \/ Frame.verdict = "pause" /\ Position[1] \in A
<1>1. PgTyped /\ BufferFollows /\ FrameIsRead /\ ModeTells /\ reading # <<>>
  BY DEF PgInv, Whole
<1>2. frames[Position[1]].kind \notin Encryption
  BY <1>1, FrameIsThere DEF ModeTells
<1>3. Frame.size <= MaxPgFrame
  BY <1>1, FrameIsThere, StreamAssumption DEF Oversized
<1> QED
  BY <1>1, <1>2, <1>3, FrameIsThere DEF JudgedIn, Statement

LEMMA LoopGoesOn ==
    ASSUME PgInv, session \in {"loop", "held"}, Whole
    PROVE  \A g \in DOMAIN frames : g > Position[1] => frames[g].kind \notin Encryption
<1>1. PgTyped /\ BufferFollows /\ FrameIsRead /\ ModeTells /\ reading # <<>>
  BY DEF PgInv, Whole
<1> QED
  BY <1>1, FrameIsThere, StreamIs DEF ModeTells

LEMMA JudgedKeeps == ASSUME PgInv, Forward \/ Refuse \/ Hold PROVE PgInv'
<1>1. /\ session = "loop" /\ Whole /\ Statement /\ ~Oversized
      /\ UNCHANGED <<load, frames, unread, pending, approved>>
  BY DEF Forward, Refuse, Hold, Judging
<1>2. CASE Forward
  <2>1. /\ reading' = <<>> /\ upstream' = upstream \o reading /\ session' = "loop"
        /\ Inspectable(Frame) /\ Frame.verdict = "allow"
    BY <1>1, <1>2 DEF Forward
  <2>2. JudgedIn(frames, Position[1], approved')
    BY <1>1, <2>1, StatementPasses
  <2> QED
    BY <1>1, <2>1, <2>2, LoopGoesOn, FrameLeaves
<1>3. CASE Refuse
  <2>1. /\ reading' = <<>> /\ upstream' = upstream /\ session' = "loop"
        /\ ~Inspectable(Frame) \/ Frame.verdict = "deny"
    BY <1>1, <1>3 DEF Refuse
  <2>2. ~JudgedIn(frames, Position[1], approved')
    BY <1>1, <2>1, StatementPasses
  <2> QED
    BY <1>1, <2>1, <2>2, LoopGoesOn, FrameLeaves
<1>4. CASE Hold
  <2>1. /\ PgTyped /\ BufferFollows /\ FrameIsRead /\ ModeTells /\ SentInOrder
    BY DEF PgInv
  <2>2. /\ session' = "held" /\ Inspectable(Frame) /\ Frame.verdict = "pause"
        /\ UNCHANGED <<reading, upstream>>
    BY <1>4 DEF Hold
  <2>3. Positions' = Positions /\ Units' = Units /\ Position' = Position /\ Cursor' = Cursor
        /\ Frame' = Frame
    BY <1>1, <2>2 DEF Positions, Units, Position, Cursor, Frame
  <2>4. BufferFollows' /\ FrameIsRead' /\ PgTyped'
    BY <1>1, <2>1, <2>2, <2>3 DEF BufferFollows, FrameIsRead, Following, PgTyped, Sessions
  <2>5. ModeTells'
    BY <1>1, <2>1, <2>2, <2>3 DEF ModeTells, Whole, Statement, Oversized, Inspectable
  <2>6. SentInOrder'
    BY <1>1, <2>1, <2>2, <2>3 DEF SentInOrder
  <2> QED
    BY <2>4, <2>5, <2>6 DEF PgInv
<1> QED
  BY <1>2, <1>3, <1>4

(* What the watch reads ahead the loop still reads in its place.             *)
LEMMA WatchReadsKeeps == ASSUME PgInv, WatchReads PROVE PgInv'
<1>1. /\ PgTyped /\ BufferFollows /\ FrameIsRead /\ ModeTells /\ SentInOrder
      /\ session = "held" /\ ~PipelineFull /\ ~Exhausted
      /\ pending' = Append(pending, unread) /\ unread' = Following(unread)
      /\ UNCHANGED <<load, frames, reading, session, upstream, approved>>
  BY DEF PgInv, WatchReads
<1> DEFINE n == Len(pending)
<1>2. pending \in Seq(Units) /\ n \in Nat /\ DOMAIN pending = 1 .. n /\ n <= MaxHeldPipeline
      /\ MaxHeldPipeline \in Nat /\ n + 1 <= MaxHeldPipeline
  BY <1>1, StreamAssumption DEF BufferFollows, PipelineFull
<1>3. unread \in Units
  <2>1. unread[1] <= Len(frames) /\ unread \in Positions
    BY <1>1, UnitsAre, StreamIs DEF Exhausted, BufferFollows
  <2> QED
    BY <1>1, <2>1, StreamIs DEF Positions
<1>4. unread' \in Positions /\ Before(unread, unread')
  BY <1>1, <1>3, FollowingIsNext
<1>5. /\ pending' \in Seq(Units) /\ Len(pending') = n + 1 /\ DOMAIN pending' = 1 .. n + 1
      /\ \A i \in 1 .. n : pending'[i] = pending[i]
      /\ pending'[n + 1] = unread
  BY <1>1, <1>2, <1>3
<1>6. Positions' = Positions /\ Units' = Units
  BY <1>1 DEF Positions, Units
<1> HIDE DEF n
<1>7. \A i \in DOMAIN pending' : Before(pending'[i], unread')
  <2> SUFFICES ASSUME NEW i \in DOMAIN pending' PROVE Before(pending'[i], unread')
    OBVIOUS
  <2>1. CASE i = n + 1
    BY <1>4, <1>5, <2>1
  <2>2. CASE i \in 1 .. n
    <3>1. Before(pending[i], unread) /\ pending[i] \in Units
      BY <1>1, <1>2, <2>2 DEF BufferFollows
    <3>2. pending[i] \in Positions /\ unread \in Positions
      BY <1>3, <3>1 DEF Positions
    <3> QED
      BY <1>1, <1>4, <1>5, <2>2, <3>1, <3>2, BeforeIsTransitive
  <2> QED
    BY <1>2, <1>5, <2>1, <2>2
<1>8. \A i \in DOMAIN pending' : i < Len(pending') => pending'[i + 1] = Following(pending'[i])
  <2> SUFFICES ASSUME NEW i \in DOMAIN pending', i < Len(pending')
               PROVE  pending'[i + 1] = Following(pending'[i])
    OBVIOUS
  <2>1. i \in 1 .. n
    BY <1>2, <1>5
  <2>2. CASE i = n
    <3>1. pending # <<>> /\ pending'[i + 1] = unread /\ pending'[i] = pending[n]
      BY <1>2, <1>5, <2>1, <2>2
    <3> QED
      BY <1>1, <3>1 DEF BufferFollows, n
  <2>3. CASE i < n
    <3>1. i + 1 \in 1 .. n
      BY <1>2, <2>1, <2>3
    <3>2. pending[i + 1] = Following(pending[i])
      BY <1>1, <1>2, <2>1, <2>3 DEF BufferFollows, n
    <3> QED
      BY <1>5, <2>1, <3>1, <3>2
  <2> QED
    BY <1>2, <2>1, <2>2, <2>3
<1>9. BufferFollows'
  BY <1>1, <1>2, <1>4, <1>5, <1>6, <1>7, <1>8 DEF BufferFollows, Following, Before
<1>10. Cursor' = Cursor
  <2>1. CASE pending = <<>>
    BY <1>1, <2>1 DEF Cursor
  <2>2. CASE pending # <<>>
    <3>1. 1 \in 1 .. n /\ pending' # <<>> /\ Head(pending') = pending'[1] /\ Head(pending) = pending[1]
      BY <1>2, <1>5, <2>2 DEF n
    <3> QED
      BY <1>5, <2>2, <3>1 DEF Cursor
  <2> QED
    BY <2>1, <2>2
<1>11. Position' = Position
  BY <1>1, <1>10 DEF Position, Cursor
<1>12. FrameIsRead' /\ PgTyped'
  BY <1>1, <1>6, <1>10 DEF FrameIsRead, PgTyped, Following
<1>13. ModeTells'
  BY <1>1, <1>11 DEF ModeTells, Whole, Statement, Oversized, Frame
<1>14. SentInOrder'
  BY <1>1, <1>6, <1>11 DEF SentInOrder
<1> QED
  BY <1>9, <1>12, <1>13, <1>14 DEF PgInv

(* Every end of a hold leaves the loop at the next statement.                *)
LEMMA HoldEndsKeeps == ASSUME PgInv, Abandoned \/ Approve \/ Rejected PROVE PgInv'
<1>1. /\ PgTyped /\ BufferFollows /\ FrameIsRead /\ ModeTells /\ session = "held"
      /\ UNCHANGED <<load, frames, unread, pending>>
  BY DEF PgInv, Abandoned, Approve, Rejected
<1>2. /\ Whole /\ Statement /\ ~Oversized /\ Inspectable(Frame) /\ Frame.verdict = "pause"
      /\ Position[1] \notin approved
  BY <1>1 DEF ModeTells
<1>3. Position[1] = reading[1][1]
  BY <1>1, <1>2, FrameDone
<1>4. CASE Approve
  <2>1. /\ approved' = approved \union {Position[1]} /\ upstream' = upstream \o reading
        /\ reading' = <<>> /\ session' = "loop"
    BY <1>3, <1>4 DEF Approve
  <2>2. JudgedIn(frames, Position[1], approved')
    BY <1>1, <1>2, <2>1, StatementPasses
  <2> QED
    BY <1>1, <1>2, <2>1, <2>2, LoopGoesOn, FrameLeaves
<1>5. CASE UNCHANGED <<upstream, approved>> /\ reading' = <<>> /\ session' = "loop"
  <2>1. ~JudgedIn(frames, Position[1], approved')
    BY <1>1, <1>2, <1>5, StatementPasses
  <2> QED
    BY <1>1, <1>2, <1>5, <2>1, LoopGoesOn, FrameLeaves
<1>6. CASE session' = "ended" /\ UNCHANGED <<reading, upstream, approved>>
  BY <1>1, <1>6, EndKeeps
<1>7. CASE Abandoned
  BY <1>5, <1>6, <1>7 DEF Abandoned, End
<1>8. CASE Rejected
  BY <1>5, <1>8 DEF Rejected
<1> QED
  BY <1>4, <1>7, <1>8

LEMMA PgStandsStill ==
    ASSUME PgInv,
           UNCHANGED <<load, frames, unread, pending, reading, session, upstream, approved>>
    PROVE  PgInv'
<1>1. Positions' = Positions /\ Units' = Units /\ Position' = Position /\ Cursor' = Cursor
      /\ Frame' = Frame
  BY DEF Positions, Units, Position, Cursor, Frame
<1>2. PgTyped /\ BufferFollows /\ FrameIsRead /\ ModeTells /\ SentInOrder
  BY DEF PgInv
<1>3. PgTyped' /\ BufferFollows' /\ FrameIsRead' /\ SentInOrder'
  BY <1>1, <1>2 DEF PgTyped, BufferFollows, FrameIsRead, Following, SentInOrder
<1>4. ModeTells'
  BY <1>1, <1>2 DEF ModeTells, Whole, Statement, Oversized, Inspectable
<1> QED
  BY <1>3, <1>4 DEF PgInv

LEMMA PgStepKeeps == ASSUME PgInv, PgStep PROVE PgInv'
<1>1. CASE ReadFails \/ RelayEnds
  BY <1>1, EndKeeps DEF ReadFails, RelayEnds, End
<1>2. CASE ClientCloses
  BY <1>2, PgStandsStill DEF ClientCloses
<1> QED
  BY <1>1, <1>2, ReadMoreKeeps, StartupKeeps, CopyExactKeeps, CopyMoreKeeps, CopyDoneKeeps,
     JudgedKeeps, WatchReadsKeeps, HoldEndsKeeps DEF PgStep

-----------------------------------------------------------------------------
(* The session among the listener's connections.                            *)

(* Until the one client that asks for a database is connected there is no    *)
(* session.                                                                 *)
OffUntilConnected ==
    \A c \in Clients :
        /\ conn[c].step \in {"outside", "greeting", "request", "gate", "held", "connect"}
        /\ c \in load.clients /\ ProtocolOf[Wanted(c)] = "postgres"
        => session = "off"

LEMMA OneDatabaseClient ==
    ASSUME IInv, NEW c \in load.clients, NEW d \in load.clients,
           ProtocolOf[Wanted(c)] = "postgres"
    PROVE  c = d
<1>1. load \in Workloads /\ asked[c] \in load.requests
  BY DEF IInv, Typed
<1> QED
  BY <1>1, SocksAssumption DEF Wanted

LEMMA ConnectStartsOnce ==
    ASSUME IInv, PgInv, OffUntilConnected, NEW c \in Clients, Connect(c)
    PROVE  PgInv' /\ OffUntilConnected'
<1>1. /\ conn[c].step = "connect" /\ c \in load.clients /\ Target(c) = Wanted(c)
      /\ UNCHANGED <<load, frames, unread, pending, reading, upstream, approved, asked>>
  BY DEF Connect, IInv, StepTells, Target
<1>2. \A d \in Clients : Wanted(d)' = Wanted(d) /\ (d # c => conn'[d] = conn[d])
      /\ conn'[c].step \in {"closed", "tunnel", "session"}
  BY <1>1 DEF Connect, Close, Wanted, IInv, Typed
<1>3. CASE session' = session
  <2>1. PgInv'
    BY <1>1, <1>3, PgStandsStill
  <2>2. OffUntilConnected'
    BY <1>1, <1>2, <1>3 DEF OffUntilConnected
  <2> QED
    BY <2>1, <2>2
<1>4. CASE session' # session
  <2>1. session' = "startup" /\ ProtocolOf[Wanted(c)] = "postgres"
    BY <1>1, <1>4 DEF Connect
  <2>2. session = "off"
    BY <1>1, <2>1 DEF OffUntilConnected
  <2>3. OffUntilConnected'
    BY <1>1, <1>2, <2>1, OneDatabaseClient DEF OffUntilConnected
  <2>4. Positions' = Positions /\ Units' = Units /\ Position' = Position /\ Cursor' = Cursor
    BY <1>1 DEF Positions, Units, Position, Cursor
  <2>5. PgTyped /\ BufferFollows /\ FrameIsRead /\ ModeTells /\ SentInOrder
    BY DEF PgInv
  <2>6. PgTyped' /\ BufferFollows' /\ FrameIsRead' /\ SentInOrder'
    BY <1>1, <2>1, <2>2, <2>4, <2>5
    DEF PgTyped, Sessions, BufferFollows, FrameIsRead, Following, SentInOrder
  <2>7. ModeTells'
    BY <1>1, <2>1, <2>4, <2>5 DEF ModeTells
  <2> QED
    BY <2>3, <2>6, <2>7 DEF PgInv
<1> QED
  BY <1>3, <1>4

LEMMA SessionKept ==
    ASSUME IInv, PgInv, OffUntilConnected, [Next]_vars
    PROVE  PgInv' /\ OffUntilConnected'
<1>1. ASSUME NEW c \in Clients, Connect(c)
      PROVE  PgInv' /\ OffUntilConnected'
  BY <1>1, ConnectStartsOnce
<1>2. CASE SessionStep
  <2>1. PgInv'
    BY <1>2, PgStepKeeps DEF SessionStep
  <2>2. PICK c \in Clients : conn[c].step = "session"
    BY <1>2 DEF SessionStep
  <2>3. c \in load.clients /\ ProtocolOf[Wanted(c)] = "postgres"
    BY <2>2 DEF IInv, StepTells
  <2>4. UNCHANGED <<conn, asked, load>>
    BY <1>2 DEF SessionStep, PgStep, ReadMore, ReadFails, Startup, CopyExact, CopyMore, CopyDone,
       Forward, Refuse, Hold, WatchReads, Abandoned, Approve, Rejected, RelayEnds, ClientCloses
  <2>5. OffUntilConnected'
    BY <2>2, <2>3, <2>4, OneDatabaseClient DEF OffUntilConnected, Wanted
  <2> QED
    BY <2>1, <2>5
<1>3. ASSUME NEW c \in Clients,
             \/ Accept(c) \/ Negotiate(c) \/ ReadRequest(c) \/ HandshakeEnds(c) \/ Gate(c)
             \/ HoldEnds(c) \/ ConnectRefused(c) \/ ConnectTimesOut(c) \/ SessionEnds(c)
             \/ HoldApproved(c) \/ TunnelEnds(c)
      PROVE  PgInv' /\ OffUntilConnected'
  <2>1. UNCHANGED <<pgVars, asked>>
    BY <1>3 DEF Accept, Negotiate, ReadRequest, HandshakeEnds, Gate, HoldEnds, ConnectRefused,
       ConnectTimesOut, SessionEnds, HoldApproved, TunnelEnds
  <2>2. \/ \E step \in {"greeting", "dropped", "request", "connect", "held"} : Goes(c, step)
        \/ \E code : Close(c, code)
        \/ conn' = [conn EXCEPT ![c].step = "gate", ![c].target = <<asked[c].host, asked[c].port>>]
    BY <1>3 DEF Accept, Negotiate, ReadRequest, HandshakeEnds, Gate, HoldEnds, ConnectRefused,
       ConnectTimesOut, SessionEnds, HoldApproved, TunnelEnds
  <2>3. \A d \in Clients : d # c => conn'[d] = conn[d]
    BY <2>2 DEF Goes, Close, IInv, Typed
  <2>4. \/ conn'[c].step \in {"closed", "dropped"}
        \/ conn[c].step \in {"outside", "greeting", "request", "gate", "held", "connect"}
    BY <1>3 DEF Accept, Negotiate, ReadRequest, HandshakeEnds, Gate, HoldEnds, ConnectRefused,
       ConnectTimesOut, SessionEnds, HoldApproved, TunnelEnds, Close, IInv, Typed
  <2>5. OffUntilConnected'
    BY <2>1, <2>3, <2>4 DEF OffUntilConnected, Wanted, pgVars
  <2>6. PgInv'
    BY <2>1, PgStandsStill DEF pgVars
  <2> QED
    BY <2>5, <2>6
<1>4. CASE UNCHANGED <<pgVars, conn, asked>>
  BY <1>4, PgStandsStill DEF pgVars, OffUntilConnected, Wanted
<1>5. ASSUME NEW c \in Clients, Leaves(c)
      PROVE  PgInv' /\ OffUntilConnected'
  BY <1>4, <1>5 DEF Leaves
<1> QED
  BY <1>1, <1>2, <1>3, <1>4, <1>5 DEF Next, Handler, vars

(* The database gets the client's frames in order and unaltered, all of      *)
(* those that passed and nothing of any other, for any stream of frames, any *)
(* pipeline budget and however often a hold's watch read ahead, was cut      *)
(* short and started over; a statement that is held has not reached it, and  *)
(* the watch never buffers more than its budget (message_loop, HeldReader).  *)
THEOREM DatabaseGetsWhatWasJudged == Spec => []OnlyJudgedReach
<1>1. Init => PgInv /\ OffUntilConnected
  <2> SUFFICES ASSUME Init PROVE PgInv /\ OffUntilConnected
    OBVIOUS
  <2>1. /\ load \in Workloads /\ frames \in load.streams
        /\ unread = <<1, 1>> /\ pending = <<>> /\ reading = <<>> /\ upstream = <<>>
        /\ session = "off" /\ approved = {}
    BY DEF Init, PgInit
  <2>2. PgTyped /\ OffUntilConnected
    BY <2>1 DEF PgTyped, Sessions, OffUntilConnected
  <2>3. unread \in Positions
    <3>1. CASE Len(frames) = 0
      BY <2>1, <3>1 DEF Positions
    <3>2. CASE Len(frames) # 0
      <4>1. 1 \in DOMAIN frames /\ 1 \in 1 .. frames[1].size
        BY <2>2, <3>2, StreamIs
      <4> QED
        BY <2>1, <2>2, <4>1, UnitsAre DEF Positions
    <3> QED
      BY <3>1, <3>2
  <2>4. Cursor = <<1, 1>> /\ Position = <<1, 1>>
    BY <2>1 DEF Cursor, Position
  <2>5. BufferFollows /\ FrameIsRead /\ ModeTells
    BY <2>1, <2>3, <2>4, StreamAssumption DEF BufferFollows, FrameIsRead, ModeTells
  <2>6. SentInOrder
    <3>1. \A u \in Units : ~Before(u, <<1, 1>>)
      <4> SUFFICES ASSUME NEW u \in Units PROVE ~Before(u, <<1, 1>>)
        OBVIOUS
      <4>1. u[1] \in Nat \ {0} /\ u[2] \in Nat \ {0}
        BY <2>2, UnitsAre, StreamIs
      <4> QED
        BY <4>1 DEF Before
    <3>2. ToSet(upstream) = {} /\ DOMAIN upstream = {}
      BY <2>1 DEF ToSet
    <3>3. Has(frames, upstream, <<1, 1>>, approved)
      BY <3>1, <3>2 DEF Has, Units, UnitsIn
    <3> QED
      BY <2>1, <2>4, <3>3 DEF SentInOrder
  <2> QED
    BY <2>2, <2>5, <2>6 DEF PgInv
<1>2. IInv /\ PgInv /\ OffUntilConnected /\ [Next]_vars => PgInv' /\ OffUntilConnected'
  BY SessionKept
<1>3. PgInv => OnlyJudgedReach
  <2> SUFFICES ASSUME PgInv PROVE OnlyJudgedReach
    OBVIOUS
  <2>1. PgTyped /\ BufferFollows /\ FrameIsRead /\ SentInOrder
    BY DEF PgInv
  <2>2. \E v \in Positions : ~Before(unread, v) /\ HasJudgedBefore(v)
    BY <2>1, CursorIs, PositionIs, HasIs DEF SentInOrder
  <2>3. \A v \in Positions : ~Before(unread, v) => v \in Units \/ v = unread
    BY <2>1, UnitsAre, StreamIs DEF Positions, BufferFollows, Before
  <2>4. session \in {"loop", "held"} => HasJudgedBefore(Position)
    BY <2>1, HasIs DEF SentInOrder
  <2> QED
    BY <2>1, <2>2, <2>3, <2>4 DEF OnlyJudgedReach, BufferFollows
<1> QED
  BY <1>1, <1>2, <1>3, Inductive, PTL DEF Spec
=============================================================================
