------------------------------ MODULE Isolation -------------------------------
(***************************************************************************)
(* `honmoon run`: it binds its two proxies on loopback, asks what the host *)
(* can confine, and starts the command in an empty network namespace with  *)
(* a bridge out of it (isolate/linux.rs), under a Seatbelt profile         *)
(* (isolate/macos.rs), or, saying so, unconfined (main.rs).  What the      *)
(* command then says goes through the bridge's pumps, of which the one the *)
(* supervisor runs for the first proxy is followed (module Pump).          *)
(***************************************************************************)
EXTENDS Sequences, Pump

CONSTANTS LoopbackAttempts, \* LOOPBACK_PORT_ATTEMPTS
          ScratchAttempts   \* names tried for the bridge's directory
\* Of a workload:
\*   platform, "linux", "macos" or "other"
\*   v6,       is there an IPv6 loopback
\*   taken,    bound: names and ports that turn out to be taken
\*   faults,   bound: steps that fail
\*   leaked,   descriptors inherited without close-on-exec, "low" or "high":
\*             below the soft descriptor limit or, since it was lowered, above it
\*   sweep,    what the kernel offers to find them: "close_range", "proc",
\*             "limit" or, without a finite limit, "none"
\*   loses,    was it started with SIGCHLD ignored: the kernel reaps every child, and
\*             a wait for it finds nobody

ASSUME IsolationAssumption == LoopbackAttempts \in Nat \ {0} /\ ScratchAttempts \in Nat \ {0}

Conversations == [greets : BOOLEAN, asks : Nat, answers : Nat]
Loads(talks) ==
    [platform : {"linux", "macos", "other"}, v6 : BOOLEAN, taken : Nat, faults : Nat,
     leaked : SUBSET {"low", "high"}, sweep : {"close_range", "proc", "limit", "none"},
     loses : BOOLEAN, talks : {talks}, broken : BOOLEAN,
     pressure : Nat, upsets : Nat, mishaps : Nat]

ASSUME WorkloadAssumption ==
    /\ IsFiniteSet(Conns)
    /\ \A w \in Workloads :
          /\ w \in Loads(w.talks) /\ DOMAIN w.talks \subseteq Conns
          /\ \A c \in DOMAIN w.talks : w.talks[c] \in Conversations

Proxies == {"connect", "socks"}
Families == {"v4", "v6"}

VARIABLES at,     \* the next step of `run`
          tries,  \* attempts of the step that is being repeated
          told,   \* was the operator warned that policy is advisory
          answer, \* run_confined: "none", "ok" or "err"
          proxy,  \* the proxy's thread: "none", "serving" or "down"
          port,   \* who holds each proxy's port: "free", "run", "other" or "absent"
          dir,    \* the bridge's directory: "none", "bare", "private", "removed", "left"
          bridge, \* [host, inner] of each proxy: "none", "bound", "parked", "serving", "gone"
          sup,    \* the supervisor: its next step, "none", "running", "failed" or "over"
          net,    \* what network it is in: "host", "dark" (lo is down) or "empty"
          held,   \* leaked descriptors it holds
          cmd     \* the command: [starts, step, where, held, told]

runVars == <<at, tries, told, answer, proxy, port>>
bridgeVars == <<dir, bridge>>
childVars == <<sup, net, held, cmd>>
launchVars == <<runVars, bridgeVars, childVars>>
vars == <<launchVars, pumpVars>>

Init ==
    /\ load \in Workloads /\ PumpInit
    /\ at = "bindConnect" /\ tries = 0 /\ told = FALSE /\ answer = "none"
    /\ proxy = "none"
    /\ port = [p \in Proxies |->
                  [f \in Families |-> IF f = "v6" /\ ~load.v6 THEN "absent" ELSE "free"]]
    /\ dir = "none" /\ bridge = [s \in {"host", "inner"} |-> [p \in Proxies |-> "none"]]
    /\ sup = "none" /\ net = "host" /\ held = load.leaked
    /\ cmd = [starts |-> 0, step |-> "none", where |-> "none", held |-> {}, told |-> FALSE]

Fault == Spend("faults")

Released == [p \in Proxies |-> [f \in Families |-> IF port[p][f] = "run" THEN "free"
                                                   ELSE port[p][f]]]

(* `run` ends: its threads and sockets go with it.                         *)
Exit ==
    /\ at' = "exited" /\ proxy' = "down" /\ port' = Released
    /\ bridge' = [bridge EXCEPT !.host = [p \in Proxies |-> "gone"]]

-----------------------------------------------------------------------------
(* bind_loopback_pair, once per proxy.                                     *)
Binding(p) == at = (IF p = "connect" THEN "bindConnect" ELSE "bindSocks")
Bound(p) == /\ at' = (IF p = "connect" THEN "bindSocks" ELSE "serve")
            /\ tries' = 0

\* As if the command's address were all there is to bind.
BindV4Only(p) ==
    /\ Binding(p)
    /\ port' = [port EXCEPT ![p]["v4"] = "run"] /\ Bound(p)
    /\ UNCHANGED <<load, told, answer, proxy, bridgeVars, childVars>>

BindPair(p) ==
    /\ Binding(p)
    /\ port' = [port EXCEPT ![p] = [f \in Families |-> IF @[f] = "absent" THEN "absent"
                                                       ELSE "run"]]
    /\ Bound(p)
    /\ UNCHANGED <<load, told, answer, proxy, bridgeVars, childVars>>

(* ::1 is held by another at that number: let go, and have another chosen. *)
BindTaken(p) ==
    /\ Binding(p) /\ load.v6 /\ Spend("taken")
    /\ IF tries + 1 < LoopbackAttempts
       THEN tries' = tries + 1 /\ UNCHANGED <<at, proxy, port, bridge>>
       ELSE Exit /\ UNCHANGED tries
    /\ UNCHANGED <<told, answer, dir, childVars>>

(* Any other failure to bind, or the runtime cannot be built.              *)
StartFails ==
    /\ at \in {"bindConnect", "bindSocks", "serve"} /\ Fault
    /\ Exit
    /\ UNCHANGED <<tries, told, answer, dir, childVars>>

(* One thread, one task, one state behind all the listeners.               *)
Serve ==
    /\ at = "serve" /\ at' = "probe" /\ proxy' = "serving"
    /\ UNCHANGED <<load, tries, told, answer, port, bridgeVars, childVars>>

(* An accept loop panics: select! takes the others down with it.           *)
ProxyDies ==
    /\ proxy = "serving" /\ at # "exited" /\ Fault
    /\ proxy' = "down" /\ port' = Released
    /\ UNCHANGED <<at, tries, told, answer, bridgeVars, childVars>>

(* Another process takes a port nobody holds.                              *)
StrangerBinds(p, f) ==
    /\ at \notin {"bindConnect", "bindSocks"} /\ port[p][f] = "free"
    /\ port' = [port EXCEPT ![p][f] = "other"]
    /\ UNCHANGED <<load, at, tries, told, answer, proxy, bridgeVars, childVars>>

Confines(platform) == load.platform = platform

\* As if it asked what there is and not whether it works.
ProbeTheFiles ==
    /\ at = "probe"
    /\ \/ Confines("linux") /\ at' = "directory"
       \/ Confines("macos") /\ at' = "sweep"
       \/ at' = "warn"
    /\ UNCHANGED <<load, tries, told, answer, proxy, port, bridgeVars, childVars>>

(* Isolation::probe: the mechanism is tried in a throwaway child, and one  *)
(* whose status cannot be had counts as one that failed.                   *)
Probe ==
    /\ at = "probe"
    /\ \/ ~load.loses /\ Confines("linux") /\ at' = "directory"
       \/ ~load.loses /\ Confines("macos") /\ at' = "sweep"
       \/ at' = "warn"
    /\ UNCHANGED <<load, tries, told, answer, proxy, port, bridgeVars, childVars>>

-----------------------------------------------------------------------------
(* HostBridge::open.                                                       *)
OpenSteps == <<"directory", "mode", "bind1", "bind2", "thread1", "thread2",
               "gates", "spawn">>
After(s) == LET i == CHOOSE k \in DOMAIN OpenSteps : OpenSteps[k] = s IN OpenSteps[i + 1]
Opens(s) == at = s /\ at' = After(s)

(* run_confined returns an error.  A HostBridge that exists is dropped; a  *)
(* thread parked on a gate nobody can open any more ends.                  *)
Unconfined ==
    /\ answer' = "err" /\ at' = "warn"
    /\ dir' = IF dir = "none" THEN "none" ELSE "removed"
    /\ bridge' = [bridge EXCEPT !.host = [p \in Proxies |->
                    IF @[p] \in {"bound", "parked"} THEN "gone" ELSE @[p]]]

\* private_scratch_dir: a random name, and the mode whatever the umask left.
MakeDirectory ==
    /\ at = "directory"
    /\ \/ at' = "mode" /\ tries' = 0 /\ dir' = "bare" /\ UNCHANGED <<load, answer, bridge>>
       \/ /\ Spend("taken")
          /\ IF tries + 1 < ScratchAttempts
             THEN tries' = tries + 1 /\ UNCHANGED <<at, answer, dir, bridge>>
             ELSE Unconfined /\ UNCHANGED tries
    /\ UNCHANGED <<told, proxy, port, childVars>>

SetMode ==
    /\ Opens("mode") /\ dir' = "private"
    /\ UNCHANGED <<load, tries, told, answer, proxy, port, bridge, childVars>>

PumpAt(side, p, s) == bridge' = [bridge EXCEPT ![side][p] = s]

BindSocket(p) ==
    /\ Opens(IF p = "connect" THEN "bind1" ELSE "bind2")
    /\ PumpAt("host", p, "bound")
    /\ UNCHANGED <<load, tries, told, answer, proxy, port, dir, childVars>>

StartPump(p) ==
    /\ Opens(IF p = "connect" THEN "thread1" ELSE "thread2")
    /\ PumpAt("host", p, "parked")
    /\ UNCHANGED <<load, tries, told, answer, proxy, port, dir, childVars>>

OpenGates ==
    /\ Opens("gates")
    /\ bridge' = [bridge EXCEPT !.host = [p \in Proxies |-> "serving"]]
    /\ UNCHANGED <<load, tries, told, answer, proxy, port, dir, childVars>>

(* Any of them fails, the directory's mode included, which cleans up for   *)
(* itself; the gates cannot.                                               *)
OpenFails ==
    /\ \E i \in DOMAIN OpenSteps : OpenSteps[i] = at /\ at \notin {"gates", "spawn"}
    /\ Fault /\ Unconfined
    /\ UNCHANGED <<tries, told, proxy, port, childVars>>

-----------------------------------------------------------------------------
(* spawn: fork, enter_empty_namespace, exec; then supervise.               *)
PreExec == <<"unshare", "setgroups", "gid_map", "uid_map", "loopback", "exec">>
Supervise == <<"descriptors", "listen1", "listen2", "thread1", "thread2", "gates",
               "command">>
SupSteps == PreExec \o Supervise
AfterStep(s) == LET i == CHOOSE k \in DOMAIN SupSteps : SupSteps[k] = s IN
                IF i = Len(SupSteps) THEN "running" ELSE SupSteps[i + 1]
Before(s) == \E i \in DOMAIN PreExec : PreExec[i] = s
Inside(s) == \E i \in DOMAIN Supervise : Supervise[i] = s
Advances(s) == sup = s /\ sup' = AfterStep(s)

Fork ==
    /\ at = "spawn" /\ sup = "none" /\ sup' = "unshare"
    /\ UNCHANGED <<load, runVars, bridgeVars, net, held, cmd>>

(* The namespace's own loopback is down until it is brought up.            *)
EnterNamespace ==
    /\ Before(sup) /\ Advances(sup)
    /\ net' = CASE sup = "unshare" -> "dark" [] sup = "loopback" -> "empty" [] OTHER -> net
    /\ IF sup = "exec" /\ at = "spawn" THEN at' = "wait" ELSE UNCHANGED at
    /\ UNCHANGED <<load, tries, told, answer, proxy, port, bridgeVars, held, cmd>>

(* spawn reports it through its pipe, and `run` has nothing to wait for.   *)
SpawnFails ==
    /\ at = "spawn" /\ (sup = "none" \/ Before(sup)) /\ Fault
    /\ sup' = "none" /\ net' = "host"
    /\ Unconfined
    /\ UNCHANGED <<tries, told, proxy, port, held, cmd>>

\* close_inherited_descriptors: by whichever means the kernel offers.
Swept == CASE load.sweep \in {"close_range", "proc"} -> {}
           [] load.sweep = "limit" -> held \ {"low"}

CloseDescriptors ==
    /\ load.sweep # "none" /\ Advances("descriptors")
    /\ held' = Swept
    /\ UNCHANGED <<load, runVars, bridgeVars, net, cmd>>

Listen(p) ==
    /\ Advances(IF p = "connect" THEN "listen1" ELSE "listen2") /\ net = "empty"
    /\ PumpAt("inner", p, "bound")
    /\ UNCHANGED <<load, runVars, dir, net, held, cmd>>

StartInner(p) ==
    /\ Advances(IF p = "connect" THEN "thread1" ELSE "thread2")
    /\ PumpAt("inner", p, "parked")
    /\ UNCHANGED <<load, runVars, dir, net, held, cmd>>

\* As if only the first gate were opened.
OpenOneGate ==
    /\ Advances("gates") /\ GateOpens
    /\ PumpAt("inner", "connect", "serving")
    /\ UNCHANGED <<load, runVars, dir, net, held, cmd>>

OpenInnerGates ==
    /\ Advances("gates") /\ GateOpens
    /\ bridge' = [bridge EXCEPT !.inner = [p \in Proxies |-> "serving"]]
    /\ UNCHANGED <<load, runVars, dir, net, held, cmd>>

Starts(where, descriptors) ==
    cmd' = [starts |-> cmd.starts + 1, step |-> "running", where |-> where,
            held |-> descriptors, told |-> told]

StartCommand ==
    /\ Advances("command")
    /\ Starts(IF net = "host" THEN "host" ELSE "namespace", held)
    /\ UNCHANGED <<load, runVars, bridgeVars, net, held>>

InnerGone == /\ bridge' = [bridge EXCEPT !.inner = [p \in Proxies |-> "gone"]]
             /\ PumpGone

(* A step of supervise fails, the command's own start included: the        *)
(* supervisor ends with a failing status of its own.                       *)
SuperviseFails ==
    /\ Inside(sup)
    /\ IF sup = "descriptors" /\ load.sweep = "none" THEN UNCHANGED load
       ELSE sup # "gates" /\ Fault
    /\ sup' = "failed" /\ InnerGone
    /\ UNCHANGED <<runVars, dir, net, held, cmd>>

(* The supervisor is killed, and the command left without its bridge.      *)
SupervisorKilled ==
    /\ (sup = "running" \/ Inside(sup)) /\ Fault
    /\ sup' = "failed" /\ InnerGone
    /\ UNCHANGED <<runVars, dir, net, held, cmd>>

CommandEnds ==
    /\ cmd.step = "running"
    /\ cmd' = [cmd EXCEPT !.step = "ended"]
    /\ UNCHANGED <<load, runVars, bridgeVars, sup, net, held>>

\* As if it waited for its pumps as well, which serve for ever.
SupervisorJoinsPumps ==
    /\ sup = "running" /\ cmd.step = "ended"
    /\ \A p \in Proxies : bridge.inner[p] = "gone"
    /\ sup' = "over"
    /\ UNCHANGED <<pumpVars, runVars, bridgeVars, net, held, cmd>>

SupervisorEnds ==
    /\ sup = "running" /\ cmd.step = "ended"
    /\ sup' = "over" /\ InnerGone
    /\ UNCHANGED <<load, runVars, dir, net, held, cmd>>

(* child.wait, whose failure is a failing status and no error; then the    *)
(* bridge is dropped and the status is what `run` exits with.              *)
WaitLinux ==
    /\ at = "wait" /\ sup \in {"failed", "over"}
    /\ Exit /\ answer' = "ok" /\ dir' = "removed"
    /\ UNCHANGED <<load, tries, told, childVars>>

-----------------------------------------------------------------------------
(* macos.rs.  close_inherited_descriptors_on_exec marks every descriptor   *)
(* there is; one it cannot mark is an error.                               *)
Sweep ==
    /\ at = "sweep"
    /\ \/ at' = "seatbelt" /\ held' = {} /\ UNCHANGED <<load, answer, bridgeVars>>
       \/ Fault /\ Unconfined /\ UNCHANGED held
    /\ UNCHANGED <<tries, told, proxy, port, sup, net, cmd>>

(* Command::status: sandbox-exec cannot be started, refuses the profile,   *)
(* or becomes the command.                                                 *)
Seatbelt ==
    /\ at = "seatbelt"
    /\ \/ /\ Starts("seatbelt", held) /\ at' = "status"
          /\ UNCHANGED <<load, proxy, port, answer, bridgeVars>>
       \/ Fault /\ Unconfined /\ UNCHANGED <<cmd, proxy, port>>
       \/ Fault /\ Exit /\ answer' = "ok" /\ UNCHANGED <<cmd, dir>>
    /\ UNCHANGED <<tries, told, sup, net, held>>

(* Its wait, whose failure is an error like that of its spawn.             *)
SeatbeltStatus ==
    /\ at = "status" /\ cmd.step = "ended"
    /\ \/ ~load.loses /\ Exit /\ answer' = "ok" /\ UNCHANGED dir
       \/ load.loses /\ Unconfined /\ UNCHANGED <<proxy, port>>
    /\ UNCHANGED <<load, tries, told, childVars>>

-----------------------------------------------------------------------------
(* The advisory path: told first, then started with nothing but variables. *)
Warn ==
    /\ at = "warn" /\ at' = "plain" /\ told' = TRUE
    /\ UNCHANGED <<load, tries, answer, proxy, port, bridgeVars, childVars>>

Plain ==
    /\ at = "plain"
    /\ \/ /\ Starts("host", held) /\ at' = "advisory"
          /\ UNCHANGED <<load, proxy, port, bridge>>
       \/ Fault /\ Exit /\ UNCHANGED cmd
    /\ UNCHANGED <<tries, told, answer, dir, sup, net, held>>

PlainStatus ==
    /\ at = "advisory" /\ cmd.step = "ended" /\ Exit
    /\ UNCHANGED <<load, tries, told, answer, dir, childVars>>

(* `run` is killed: nothing is dropped, the directory stays behind, and    *)
(* its child goes on.                                                      *)
RunKilled ==
    /\ at # "exited" /\ Fault /\ Exit
    /\ dir' = IF dir \in {"bare", "private"} THEN "left" ELSE dir
    /\ UNCHANGED <<tries, told, answer, childVars>>

-----------------------------------------------------------------------------
Run ==
    \/ \E p \in Proxies : BindPair(p) \/ BindTaken(p) \/ BindSocket(p) \/ StartPump(p)
    \/ StartFails \/ Serve \/ Probe \/ MakeDirectory \/ SetMode \/ OpenGates \/ OpenFails
    \/ Fork \/ EnterNamespace \/ SpawnFails \/ WaitLinux
    \/ Sweep \/ Seatbelt \/ SeatbeltStatus \/ Warn \/ Plain \/ PlainStatus

Setup ==
    \/ CloseDescriptors \/ StartCommand
    \/ \E p \in Proxies : Listen(p) \/ StartInner(p)
Supervisor == (Setup /\ UNCHANGED talkVars) \/ OpenInnerGates \/ SuperviseFails \/ SupervisorEnds

(* What no pump takes part in, and what only pumps do.                     *)
Apart ==
    \/ Run \/ CommandEnds \/ ProxyDies \/ RunKilled
    \/ \E p \in Proxies, f \in Families : StrangerBinds(p, f)
Carrying ==
    \/ PumpNext
    \/ /\ cmd.step = "running" /\ cmd.where = "namespace"
       /\ \E c \in Conns : Connects(c)

Next ==
    \/ Apart /\ UNCHANGED talkVars
    \/ Supervisor \/ SupervisorKilled
    \/ Carrying /\ UNCHANGED launchVars

(* `run`, the supervisor and its pump go on; a command may run for ever.   *)
Spec == Init /\ [][Next]_vars /\ WF_launchVars(Run) /\ WF_launchVars(Supervisor) /\ PumpFairness

-----------------------------------------------------------------------------
(* What a command that runs can reach: a proxy's policy, or "elsewhere".   *)
Bridged(p) == /\ bridge.inner[p] = "serving" /\ bridge.host[p] = "serving"
              /\ proxy = "serving"
Holds(owner) == \E p \in Proxies, f \in Families : port[p][f] = owner
Reach ==
    (CASE cmd.where = "namespace" -> {p \in Proxies : Bridged(p)}
       [] cmd.where = "seatbelt" -> {p \in Proxies : proxy = "serving"}
                                     \union (IF Holds("other") THEN {"elsewhere"} ELSE {})
       [] OTHER -> Proxies \union {"elsewhere"})
    \union (IF cmd.held # {} THEN {"elsewhere"} ELSE {})

\* Out of the promise: a descriptor above a limit that was lowered, when the limit is
\* all there is to go by (close_up_to_the_descriptor_limit), and a port that the profile
\* still excepts and another process has taken since `run` let go of it (macos.rs says
\* so of a descendant that outlives `run`; a proxy that died has let go of it as well).
Excepted == \/ "high" \in cmd.held /\ load.sweep = "limit"
            \/ cmd.where = "seatbelt" /\ proxy # "serving" /\ Holds("other")

(* A command nobody was warned about reaches nothing but this run's        *)
(* proxies, whatever fails before it starts or dies while it runs, and     *)
(* whoever else is on the host; no address of an exception made for the    *)
(* proxies is anybody else's.                                              *)
ToldOrConfined ==
    cmd.step = "running" /\ ~cmd.told /\ ~Excepted => Reach \subseteq Proxies

(* The fallback never starts a command that has been started: an error of  *)
(* run_confined means that it has not run.  On macOS, where a wait that    *)
(* failed is such an error too, this is the probe's doing, whose own wait  *)
(* fails for the same reason and leaves no run_confined to fall back from. *)
RunsOnce == cmd.starts <= 1

(* Falling back or ending by itself, `run` has removed the directory of    *)
(* its bridge, and a bridge that could not be opened whole serves nobody.  *)
NothingLeftBehind ==
    /\ at \in {"warn", "plain", "advisory", "exited"} => dir \notin {"bare", "private"}
    /\ answer = "err" =>
            Cardinality({p \in Proxies : bridge.host[p] = "serving"}) \in {0, Cardinality(Proxies)}

(* A command in the namespace starts with both its routes open end to end, *)
(* and keeps them while nobody is killed and the proxy serves.             *)
CommandHasItsRoutes ==
    cmd.step = "running" /\ cmd.where = "namespace" /\ sup = "running"
        /\ at = "wait" /\ proxy = "serving" => Proxies \subseteq Reach

(* The bridge is there whole or not at all.                                *)
WholeOrGone == NothingLeftBehind /\ CommandHasItsRoutes

(* A sandbox that is up keeps its route, and the route carries whole       *)
(* answers: the pump's cap counts what runs, its accept loop outlives what *)
(* passes, and the end of a question does not end the answer.              *)
RouteIsSound ==
    SlotsTellTheTruth /\ StopsOnlyWhenBroken(sup = "running") /\ EofMeansAll

(* `run` comes to the command or to an end, and ends once it has.          *)
RunEnds ==
    /\ <>(cmd.starts > 0 \/ at = "exited")
    /\ cmd.step = "ended" ~> at = "exited"
=============================================================================
