------------------------------ MODULE Control -------------------------------
(***************************************************************************)
(* `honmoon gateway` from its start to serving, and its control surface:   *)
(* the steps of main.rs's `gateway` in order, each able to fail and the    *)
(* process able to die between them; then the audit trail of the recorders *)
(* and the dashboard's page against the management API.                    *)
(***************************************************************************)
EXTENDS AuditTrail, Dashboard

\* A workload's further fields:
\*   intercept, does the gateway terminate TLS
\*   lone,      may the CA directory hold a certificate without its key
\*   starts,    bound: how often the gateway is started
\*   opens,     does a page of the dashboard open

VARIABLES boot,   \* the next step of the start, "serving" or "failed"
          ca,     \* the CA's files: which pair each belongs to, 0 when missing
          held,   \* the pair this gateway signs with
          key,    \* what the machine key's read found, owed a record
          noted   \* starts that left a record of their key's degradation

bootVars == <<boot, ca, held, key, noted>>
vars == <<sinkVars, trailVars, pageVars, bootVars>>

\* As if the key's record were written where the key is read.
StepsRecordingEarly ==
    <<"token", "pii", "policy", "audit", "ca", "key", "record", "bind">>

Steps == <<"token", "pii", "policy", "audit", "ca", "key", "bind", "record">>
After(s) == LET i == CHOOSE k \in DOMAIN Steps : Steps[k] = s IN
            IF i = Len(Steps) THEN "serving" ELSE Steps[i + 1]

NoPair == [cert |-> 0, key |-> 0]

Init ==
    /\ SinkInit /\ TrailInit /\ PageInit
    /\ boot = "token" /\ noted = {}
    /\ ca \in {NoPair, [cert |-> 9, key |-> 9]}
            \union (IF load.lone THEN {[cert |-> 9, key |-> 0]} ELSE {})
    /\ held = NoPair
    /\ key \in {"sound", "degraded"}

Goes(s) == boot = s /\ boot' = After(s)

(* Steps whose insides other modules model: the token's resolution, the    *)
(* flags' check, the policy file, the listeners and the runtime.           *)
PlainStep ==
    /\ boot \in {"token", "pii", "policy", "bind"}
    /\ Goes(boot)
    /\ UNCHANGED <<sinkVars, trailVars, pageVars, ca, held, key, noted>>

StepFails ==
    /\ boot \in {"token", "pii", "policy", "ca", "bind"}
    /\ boot' = "failed"
    /\ UNCHANGED <<sinkVars, trailVars, pageVars, ca, held, key, noted>>

(* AuditLog::with_file: the walk, and on success one record for each thing *)
(* the sink's fstat showed.  `record` drops the error of a sink that takes  *)
(* the first k only.                                                       *)
Observed(s) ==
    LET rules == SetToSeq(SinkExposure(s))
        events == [i \in DOMAIN rules |-> Event("gateway", nextId["gateway"] + i - 1, rules[i])] IN
    /\ nextId' = [nextId EXCEPT !["gateway"] = @ + Len(events)]
    /\ ring' = Evicted(ring \o events)
    /\ \E k \in 0 .. Len(events) :
        /\ file' = file \o [i \in 1 .. k |-> [event |-> events[i], part |-> "whole"]]
        /\ unwritten' = unwritten \union {events[i] : i \in k + 1 .. Len(events)}
        /\ \/ k = Len(events) /\ UNCHANGED faults
           \/ k < Len(events) /\ faults < load.faults /\ faults' = faults + 1

OpenSink ==
    /\ boot = "audit" /\ SinkStep
    /\ CASE walk'.next = "opened" -> boot' = After("audit") /\ Observed(sink')
         [] walk'.next = "refused" ->
                boot' = "failed" /\ UNCHANGED <<nextId, ring, file, unwritten, faults>>
         [] OTHER -> UNCHANGED <<boot, nextId, ring, file, unwritten, faults>>
    /\ UNCHANGED <<starts, writing, clock, turned, page>>
    /\ UNCHANGED <<pageVars, ca, held, key, noted>>

OthersChange ==
    /\ boot = "audit" /\ OthersPlace
    /\ UNCHANGED <<trailVars, pageVars, bootVars>>

(* CaMaterial::load_or_generate.  Ephemeral without interception.          *)
EphemeralCa ==
    /\ ~load.intercept /\ Goes("ca")
    /\ held' = [cert |-> starts, key |-> starts]
    /\ UNCHANGED <<sinkVars, trailVars, pageVars, ca, key, noted>>

LoadCa ==
    /\ load.intercept /\ Goes("ca")
    /\ ca.cert # 0 /\ ca.key # 0
    /\ held' = ca
    /\ UNCHANGED <<sinkVars, trailVars, pageVars, ca, key, noted>>

(* write_secret: key first, so that a start cut here leaves no pair.       *)
WriteCaKey ==
    /\ load.intercept /\ boot = "ca"
    /\ ca.cert = 0 \/ ca.key = 0
    /\ ca' = [ca EXCEPT !.key = starts]
    /\ held' = [cert |-> starts, key |-> starts]
    /\ boot' = "certificate"
    /\ UNCHANGED <<sinkVars, trailVars, pageVars, key, noted>>

WriteCaCert ==
    /\ boot = "certificate"
    /\ ca' = [ca EXCEPT !.cert = starts]
    /\ boot' = After("ca")
    /\ UNCHANGED <<sinkVars, trailVars, pageVars, held, key, noted>>

(* hook::machine_key: read here, its status kept until serving is sure.    *)
ReadKey ==
    /\ Goes("key")
    /\ UNCHANGED <<sinkVars, trailVars, pageVars, ca, held, key, noted>>

(* record_machine_key_status: a refused record only reaches the log.       *)
RecordKey ==
    /\ Goes("record")
    /\ \/ /\ key = "degraded"
          /\ LET event == Event("gateway", nextId["gateway"], "key") IN
             /\ nextId' = [nextId EXCEPT !["gateway"] = @ + 1]
             /\ ring' = Evicted(Append(ring, event))
             /\ \/ /\ file' = Append(file, [event |-> event, part |-> "whole"])
                   /\ noted' = noted \union {starts}
                   /\ UNCHANGED unwritten
                \/ unwritten' = unwritten \union {event} /\ UNCHANGED <<file, noted>>
       \/ key = "sound" /\ UNCHANGED <<nextId, ring, file, noted, unwritten>>
    /\ UNCHANGED <<sinkVars, starts, writing, clock, turned, faults, page, pageVars, ca, held, key>>

(* The process is killed anywhere in its start.                            *)
Dies ==
    /\ boot \notin {"serving", "failed"}
    /\ boot' = "failed"
    /\ UNCHANGED <<sinkVars, trailVars, pageVars, ca, held, key, noted>>

(* Started again: a new process, a new walk, an empty ring.                *)
Restart ==
    /\ boot = "failed" /\ starts < load.starts
    /\ starts' = starts + 1
    /\ boot' = "token" /\ held' = NoPair
    /\ walk' = WalkFrom(path) /\ sink' = NoSink
    /\ ring' = <<>> /\ nextId' = [nextId EXCEPT !["gateway"] = 1]
    /\ UNCHANGED <<load, tree, path, swaps, writing, file, unwritten, clock, turned, faults, page>>
    /\ UNCHANGED <<pageVars, ca, key, noted>>

(* The clock does not wait for a start.                                    *)
TimePasses ==
    /\ boot # "serving" /\ (Tick \/ SetBack)
    /\ UNCHANGED <<sinkVars, pageVars, bootVars>>

Start == \/ TimePasses \/ PlainStep \/ StepFails \/ OpenSink \/ OthersChange
         \/ EphemeralCa \/ LoadCa \/ WriteCaKey \/ WriteCaCert
         \/ ReadKey \/ RecordKey \/ Dies \/ Restart

(* A gateway whose start failed serves nothing; hooks go on recording.     *)
Serve ==
    /\ boot = "serving"
    /\ \/ load.events > 0 /\ TrailStep /\ UNCHANGED pageVars
       \/ load.opens /\ PageStep /\ UNCHANGED trailVars
    /\ UNCHANGED <<sinkVars, bootVars>>

Next == Start \/ Serve

Spec == Init /\ [][Next]_vars

-----------------------------------------------------------------------------
TypeOK ==
    /\ boot \in ToSet(Steps) \union {"certificate", "serving", "failed"}
    /\ walk.at \in Directories /\ walk.hops <= MaxSymlinkHops
    /\ waiting \subseteq Approvals
    /\ Len(ring) <= Capacity

(* What a failed or killed start leaves behind misleads nobody: no record  *)
(* of a degraded key by a gateway that never served (gateway's comment at  *)
(* the record), and no CA file a later start would serve with a key that   *)
(* is not its certificate's (load_or_generate's "key first").  A directory *)
(* that held a certificate without its key is the exception.               *)
FailedStartIsHarmless ==
    /\ \A s \in noted : s = starts /\ boot = "serving"
    /\ boot = "serving" /\ ~load.lone => held.cert = held.key
=============================================================================
