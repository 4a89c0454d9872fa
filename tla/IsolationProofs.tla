--------------------------- MODULE IsolationProofs ---------------------------
(***************************************************************************)
(* What `honmoon run` guarantees for every workload: whatever fails, dies   *)
(* or is taken, in whichever order `run`, its supervisor, the pump and      *)
(* strangers move, for any number of connections and any limits.  The       *)
(* launcher and the pump have an inductive invariant each; what they share  *)
(* is the supervisor's step.                                                *)
(***************************************************************************)
EXTENDS Isolation, FiniteSetTheorems, TLAPS

-----------------------------------------------------------------------------
(* The launcher.                                                            *)

PreSteps == {"unshare", "setgroups", "gid_map", "uid_map", "loopback", "exec"}
InSteps == {"descriptors", "listen1", "listen2", "thread1", "thread2", "gates", "command"}
Opening == {"directory", "mode", "bind1", "bind2", "thread1", "thread2", "gates"}
Starting == {"bindConnect", "bindSocks", "serve"}
RunSteps == Starting \union {"probe"} \union Opening \union {"spawn", "wait"}
              \union {"sweep", "seatbelt", "status"} \union {"warn", "plain", "advisory", "exited"}
Places == {"none", "host", "namespace", "seatbelt"}
BridgeSteps == {"none", "bound", "parked", "serving", "gone"}

LoadTyped == load \in Loads(load.talks)
LaunchTyped ==
    /\ at \in RunSteps /\ told \in BOOLEAN /\ answer \in {"none", "ok", "err"}
    /\ proxy \in {"none", "serving", "down"}
    /\ port \in [Proxies -> [Families -> {"free", "run", "other", "absent"}]]
    /\ dir \in {"none", "bare", "private", "removed", "left"}
    /\ bridge \in [{"host", "inner"} -> [Proxies -> BridgeSteps]]
    /\ sup \in {"none", "running", "failed", "over"} \union PreSteps \union InSteps
    /\ net \in {"host", "dark", "empty"} /\ held \subseteq {"low", "high"}
    /\ cmd \in [starts : Nat, step : {"none", "running", "ended"}, where : Places,
                held : SUBSET {"low", "high"}, told : BOOLEAN]

(* The supervisor exists only between spawn and its end, and nothing has    *)
(* started the command before it or the steps that start it; each platform  *)
(* takes its own way there.                                                 *)
StartedBy ==
    /\ at \in Opening \union {"spawn", "wait"} => load.platform = "linux"
    /\ at \in {"sweep", "seatbelt", "status"} => load.platform = "macos" /\ ~load.loses
    /\ at \notin {"spawn", "wait", "exited"} => sup = "none"
    /\ at = "spawn" => sup = "none" \/ sup \in PreSteps
    /\ at = "wait" => sup \in InSteps \union {"running", "failed", "over"}
    /\ sup \in PreSteps \union InSteps => cmd.starts = 0
    /\ cmd.starts <= 1
    /\ at \notin {"wait", "status", "advisory", "exited"} => cmd.starts = 0

(* What is left of the inherited descriptors once they have been swept.     *)
Swept1(h) == h = {} \/ (load.sweep = "limit" /\ h \subseteq {"high"})
Ours(p) == \A f \in Families : port[p][f] \in {"run", "absent"}

(* Whoever starts the command unconfined has told, and whoever confines it  *)
(* has swept and is in a network of its own; the proxies' ports are this    *)
(* run's while they are served.                                             *)
Confined ==
    /\ at \in {"plain", "advisory"} => told
    /\ sup \in {"exec"} \union InSteps => net = "empty"
    /\ sup \in InSteps \ {"descriptors"} => Swept1(held)
    /\ at = "seatbelt" => held = {}
    /\ cmd.step = "running" => cmd.where # "none"
    /\ cmd.where = "host" => cmd.told
    /\ cmd.where = "namespace" => Swept1(cmd.held)
    /\ cmd.where = "seatbelt" => cmd.held = {}
    /\ at \in Starting => proxy = "none"
    /\ at = "exited" => proxy = "down"
    /\ at = "bindSocks" => Ours("connect")
    /\ at \notin {"bindConnect", "bindSocks"} /\ proxy # "down" => \A p \in Proxies : Ours(p)

Serving(side) == \A p \in Proxies : bridge[side][p] = "serving"
Silent(side) == \A p \in Proxies : bridge[side][p] # "serving"

(* The bridge's directory outlives no ordinary end, and each side of it     *)
(* serves both proxies or neither.                                          *)
Bridges ==
    /\ at \in Starting \union {"probe", "directory", "sweep", "seatbelt", "status"} => dir = "none"
    /\ at \in {"warn", "plain", "advisory", "exited"} => dir \notin {"bare", "private"}
    /\ Serving("host") \/ Silent("host")
    /\ at \in Starting \union {"probe"} \union Opening => Silent("host")
    /\ at \in {"spawn", "wait"} => Serving("host")
    /\ sup \in {"command", "running"} => Serving("inner")

LaunchInv == LaunchTyped /\ StartedBy /\ Confined /\ Bridges

-----------------------------------------------------------------------------
(* The pump.                                                                *)

ConnSteps == {"away", "queued", "dialling", "spliced"} \union Over
Ends == {"client", "server"}
PumpStates == [at : {"parked", "accept", "admit", "retreat", "thread", "stopped"},
               inbound : Conns \union {"none"}, failures : Nat]
StreamStates == [said : Nat, shut : BOOLEAN, carried : Nat,
                 copier : {"none", "copying", "done"}, eof : BOOLEAN]
PumpTyped ==
    /\ pump \in PumpStates
    /\ live \in Nat /\ upset \in Nat
    /\ conn \in [Conns -> ConnSteps] /\ gone \subseteq Conns \X Ends
    /\ stream \in [Conns -> [Directions -> StreamStates]]

Running == {c \in Conns : conn[c] \in {"dialling", "spliced"}}
Deciding == pump.at \in {"thread", "retreat"}

(* The count is of the connections that have a thread and the one being     *)
(* decided on, which is still queued, and for which there is room if it is  *)
(* to have one.                                                             *)
Slots ==
    /\ live = Cardinality(Running) + (IF Deciding THEN 1 ELSE 0)
    /\ Cardinality(Running) <= MaxConnections
    /\ pump.at = "thread" => Cardinality(Running) < MaxConnections
    /\ pump.at \in {"admit", "thread", "retreat"} =>
            pump.inbound \in Conns /\ conn[pump.inbound] = "queued"

(* The loop waits for its gate.  Unless the listener is broken, its failures *)
(* are among those since the last delivery, and it has stopped only because  *)
(* its process did.                                                          *)
Stops ==
    /\ sup \notin {"command", "running", "failed", "over"} => pump.at = "parked"
    /\ ~load.broken => /\ pump.failures <= upset
                       /\ pump.at = "stopped" => sup \in {"failed", "over"}

(* A direction that has ended has been copied; before the splice, none is.  *)
Streams ==
    /\ \A c \in Conns : conn[c] \in {"away", "queued", "dialling"} =>
            \A d \in Directions : stream[c][d].copier = "none"
    /\ \A c \in Conns, d \in Directions : stream[c][d].eof =>
            /\ stream[c][d].copier = "done"
            /\ \/ stream[c][d].shut /\ stream[c][d].carried = stream[c][d].said
               \/ \E end \in Ends : <<c, end>> \in gone

PumpInv == PumpTyped /\ Slots /\ Stops /\ Streams

-----------------------------------------------------------------------------
(* What a step takes from the workload is one of its bounds.                *)
Budgets == {"taken", "faults", "pressure", "upsets", "mishaps"}
Spending == UNCHANGED load \/ \E budget \in Budgets : Spend(budget)
Lasting == /\ load'.platform = load.platform /\ load'.sweep = load.sweep
           /\ load'.loses = load.loses /\ load'.broken = load.broken
           /\ load'.talks = load.talks

(* No step takes more than that.                                            *)
LEMMA EveryStepSpends ==
    ASSUME [Next]_vars
    PROVE  Spending
<1>1. CASE UNCHANGED vars
  BY <1>1 DEF vars, pumpVars, Spending
<1>2. CASE Run
  <2>1. CASE \E p \in Proxies : BindPair(p) \/ BindTaken(p) \/ BindSocket(p) \/ StartPump(p)
    BY <2>1 DEF BindPair, BindTaken, BindSocket, StartPump, Spending, Budgets
  <2>2. CASE StartFails \/ Serve \/ Probe \/ MakeDirectory \/ SetMode \/ OpenGates \/ OpenFails
    BY <2>2 DEF StartFails, Serve, Probe, MakeDirectory, SetMode, OpenGates, OpenFails, Fault,
                Spending, Budgets
  <2>3. CASE Fork \/ EnterNamespace \/ SpawnFails \/ WaitLinux
    BY <2>3 DEF Fork, EnterNamespace, SpawnFails, WaitLinux, Fault, Spending, Budgets
  <2>4. CASE Sweep \/ Seatbelt \/ SeatbeltStatus \/ Warn \/ Plain \/ PlainStatus
    BY <2>4 DEF Sweep, Seatbelt, SeatbeltStatus, Warn, Plain, PlainStatus, Fault,
                Spending, Budgets
  <2> QED
    BY <1>2, <2>1, <2>2, <2>3, <2>4 DEF Run
<1>3. CASE CommandEnds \/ ProxyDies \/ RunKilled
            \/ \E p \in Proxies, f \in Families : StrangerBinds(p, f)
  BY <1>3 DEF CommandEnds, ProxyDies, RunKilled, StrangerBinds, Fault, Spending, Budgets
<1>4. CASE Supervisor \/ SupervisorKilled
  BY <1>4 DEF Supervisor, Setup, CloseDescriptors, StartCommand, Listen, StartInner,
              OpenInnerGates, SuperviseFails, SupervisorEnds, SupervisorKilled, Fault,
              Spending, Budgets
<1>5. CASE Carrying
  <2>1. CASE Loop \/ AcceptFails \/ AcceptUnderPressure
    BY <2>1 DEF Loop, Admit, Retreat, StartThread, ThreadFails, AcceptFails,
                AcceptUnderPressure, Spending, Budgets
  <2>2. CASE \E c \in Conns : Accepts(c) \/ Thread(c) \/ Connects(c)
    BY <2>2 DEF Accepts, Thread, Dial, DialFails, Finish, Connects, Spending, Budgets
  <2>3. CASE \E c \in Conns : ClientMoves(c) \/ ServerMoves(c)
    BY <2>3 DEF ClientMoves, ServerMoves, Spending
  <2>4. CASE \E c \in Conns, d \in Directions : Carry(c, d) \/ CopyEnds(c, d)
    BY <2>4 DEF Carry, CopyEnds, Spending
  <2>5. CASE \E c \in Conns, end \in {"client", "server"} : Vanishes(c, end)
    BY <2>5 DEF Vanishes, Spending, Budgets
  <2> QED
    BY <1>5, <2>1, <2>2, <2>3, <2>4, <2>5 DEF Carrying, PumpNext, Working
<1> QED
  BY <1>1, <1>2, <1>3, <1>4, <1>5 DEF Next, Apart

(* So the rest of a workload describes the run from its first step to its   *)
(* last.                                                                    *)
LEMMA LoadLasts ==
    ASSUME LoadTyped, [Next]_vars
    PROVE  LoadTyped' /\ Lasting
<1>1. CASE UNCHANGED load
  BY <1>1 DEF LoadTyped, Lasting
<1>2. CASE \E budget \in Budgets : Spend(budget)
  <2>1. PICK budget \in Budgets : Spend(budget)
    BY <1>2
  <2>2. load' = [load EXCEPT ![budget] = @ - 1] /\ load[budget] > 0
    BY <2>1 DEF Spend
  <2>3. Lasting
    BY <2>2 DEF LoadTyped, Loads, Budgets, Lasting
  <2>4. load' \in Loads(load.talks)
    BY <2>2 DEF LoadTyped, Loads, Budgets
  <2> QED
    BY <2>3, <2>4 DEF Lasting, LoadTyped
<1> QED
  BY <1>1, <1>2, EveryStepSpends DEF Spending

(* Where the bridge's opening goes.                                         *)
LEMMA OpensInOrder ==
    /\ After("mode") = "bind1" /\ After("bind1") = "bind2" /\ After("bind2") = "thread1"
    /\ After("thread1") = "thread2" /\ After("thread2") = "gates" /\ After("gates") = "spawn"
    /\ \A i \in DOMAIN OpenSteps : OpenSteps[i] \in Opening \union {"spawn"}
<1>1. /\ DOMAIN OpenSteps = 1 .. 8
      /\ OpenSteps[1] = "directory" /\ OpenSteps[2] = "mode" /\ OpenSteps[3] = "bind1"
      /\ OpenSteps[4] = "bind2" /\ OpenSteps[5] = "thread1" /\ OpenSteps[6] = "thread2"
      /\ OpenSteps[7] = "gates" /\ OpenSteps[8] = "spawn"
  BY DEF OpenSteps
<1>2. \A k \in 1 .. 8 : k \in {1, 2, 3, 4, 5, 6, 7, 8}
  OBVIOUS
<1> HIDE DEF OpenSteps
<1>3. \A k, l \in DOMAIN OpenSteps : OpenSteps[k] = OpenSteps[l] => k = l
  BY <1>1, <1>2
<1>4. \A k \in DOMAIN OpenSteps : After(OpenSteps[k]) = OpenSteps[k + 1]
  <2> SUFFICES ASSUME NEW k \in DOMAIN OpenSteps
               PROVE  After(OpenSteps[k]) = OpenSteps[k + 1]
    OBVIOUS
  <2>1. (CHOOSE j \in DOMAIN OpenSteps : OpenSteps[j] = OpenSteps[k]) = k
    BY <1>3
  <2> QED
    BY <2>1 DEF After
<1>5. /\ After(OpenSteps[2]) = OpenSteps[3] /\ After(OpenSteps[3]) = OpenSteps[4]
      /\ After(OpenSteps[4]) = OpenSteps[5] /\ After(OpenSteps[5]) = OpenSteps[6]
      /\ After(OpenSteps[6]) = OpenSteps[7] /\ After(OpenSteps[7]) = OpenSteps[8]
  BY <1>1, <1>4
<1> QED
  BY <1>1, <1>2, <1>5 DEF Opening

(* Where the supervisor goes.                                               *)
LEMMA StepsInOrder ==
    /\ AfterStep("unshare") = "setgroups" /\ AfterStep("setgroups") = "gid_map"
    /\ AfterStep("gid_map") = "uid_map" /\ AfterStep("uid_map") = "loopback"
    /\ AfterStep("loopback") = "exec" /\ AfterStep("exec") = "descriptors"
    /\ AfterStep("descriptors") = "listen1" /\ AfterStep("listen1") = "listen2"
    /\ AfterStep("listen2") = "thread1" /\ AfterStep("thread1") = "thread2"
    /\ AfterStep("thread2") = "gates" /\ AfterStep("gates") = "command"
    /\ AfterStep("command") = "running"
<1>2. /\ DOMAIN SupSteps = 1 .. 13 /\ Len(SupSteps) = 13
      /\ SupSteps[1] = "unshare" /\ SupSteps[2] = "setgroups" /\ SupSteps[3] = "gid_map"
      /\ SupSteps[4] = "uid_map" /\ SupSteps[5] = "loopback" /\ SupSteps[6] = "exec"
      /\ SupSteps[7] = "descriptors" /\ SupSteps[8] = "listen1" /\ SupSteps[9] = "listen2"
      /\ SupSteps[10] = "thread1" /\ SupSteps[11] = "thread2" /\ SupSteps[12] = "gates"
      /\ SupSteps[13] = "command"
  BY DEF SupSteps, PreExec, Supervise
<1>3. \A k \in 1 .. 13 : k \in {1, 2, 3, 4, 5, 6, 7, 8, 9, 10, 11, 12, 13}
  OBVIOUS
<1>4. \A k, l \in DOMAIN SupSteps : SupSteps[k] = SupSteps[l] => k = l
  BY <1>2, <1>3
<1>5. \A k \in DOMAIN SupSteps :
        AfterStep(SupSteps[k]) = IF k = 13 THEN "running" ELSE SupSteps[k + 1]
  <2> SUFFICES ASSUME NEW k \in DOMAIN SupSteps
               PROVE  AfterStep(SupSteps[k]) = IF k = 13 THEN "running" ELSE SupSteps[k + 1]
    OBVIOUS
  <2>1. (CHOOSE j \in DOMAIN SupSteps : SupSteps[j] = SupSteps[k]) = k
    BY <1>4
  <2> QED
    BY <1>2, <2>1 DEF AfterStep
<1>6. /\ AfterStep(SupSteps[1]) = SupSteps[2] /\ AfterStep(SupSteps[2]) = SupSteps[3]
      /\ AfterStep(SupSteps[3]) = SupSteps[4] /\ AfterStep(SupSteps[4]) = SupSteps[5]
      /\ AfterStep(SupSteps[5]) = SupSteps[6] /\ AfterStep(SupSteps[6]) = SupSteps[7]
      /\ AfterStep(SupSteps[7]) = SupSteps[8] /\ AfterStep(SupSteps[8]) = SupSteps[9]
      /\ AfterStep(SupSteps[9]) = SupSteps[10] /\ AfterStep(SupSteps[10]) = SupSteps[11]
      /\ AfterStep(SupSteps[11]) = SupSteps[12] /\ AfterStep(SupSteps[12]) = SupSteps[13]
      /\ AfterStep(SupSteps[13]) = "running"
  BY <1>2, <1>5
<1> QED
  BY <1>2, <1>6

(* Binding the proxies, and serving them.                                   *)
LEMMA StartKeeps ==
    ASSUME LaunchInv, Lasting,
           \/ \E p \in Proxies : BindPair(p)
           \/ \E p \in Proxies : BindTaken(p)
           \/ StartFails
           \/ Serve
           \/ Probe
    PROVE  LaunchInv'
<1> USE DEF LaunchInv, LaunchTyped, StartedBy, Lasting, Confined, Swept1, Ours, Bridges,
            Serving, Silent, PreSteps, InSteps, Opening, Starting, RunSteps, Places,
            BridgeSteps, Proxies, Families
<1>1. CASE \E p \in Proxies : BindPair(p)
  BY <1>1 DEF BindPair, Binding, Bound, bridgeVars, childVars
<1>2. CASE \E p \in Proxies : BindTaken(p)
  BY <1>2 DEF BindTaken, Binding, Exit, Released, childVars
<1>3. CASE StartFails
  BY <1>3 DEF StartFails, Exit, Released, childVars
<1>4. CASE Serve
  BY <1>4 DEF Serve, bridgeVars, childVars
<1>5. CASE Probe
  BY <1>5 DEF Probe, Confines, bridgeVars, childVars
<1> QED
  BY <1>1, <1>2, <1>3, <1>4, <1>5

(* What happens around `run`: its proxies die, strangers bind what is free, *)
(* the command ends, `run` is killed.                                       *)
LEMMA OthersKeep ==
    ASSUME LaunchInv, Lasting,
           \/ ProxyDies
           \/ \E p \in Proxies, f \in Families : StrangerBinds(p, f)
           \/ CommandEnds
           \/ RunKilled
    PROVE  LaunchInv'
<1> USE DEF LaunchInv, LaunchTyped, StartedBy, Lasting, Confined, Swept1, Ours, Bridges,
            Serving, Silent, PreSteps, InSteps, Opening, Starting, RunSteps, Places,
            BridgeSteps, Proxies, Families
<1>1. CASE ProxyDies
  BY <1>1 DEF ProxyDies, Released, bridgeVars, childVars
<1>2. CASE \E p \in Proxies, f \in Families : StrangerBinds(p, f)
  BY <1>2 DEF StrangerBinds, bridgeVars, childVars
<1>3. CASE CommandEnds
  BY <1>3 DEF CommandEnds, runVars, bridgeVars
<1>4. CASE RunKilled
  BY <1>4 DEF RunKilled, Exit, Released, childVars
<1> QED
  BY <1>1, <1>2, <1>3, <1>4

(* Opening the bridge.                                                      *)
LEMMA OpeningKeeps ==
    ASSUME LaunchInv, Lasting,
           \/ MakeDirectory
           \/ SetMode
           \/ \E p \in Proxies : BindSocket(p)
           \/ \E p \in Proxies : StartPump(p)
           \/ OpenGates
           \/ OpenFails
    PROVE  LaunchInv'
<1> USE DEF LaunchInv, LaunchTyped, StartedBy, Lasting, Confined, Swept1, Ours, Bridges,
            Serving, Silent, PreSteps, InSteps, Opening, Starting, RunSteps, Places,
            BridgeSteps, Proxies, Families
<1>1. CASE MakeDirectory
  BY <1>1 DEF MakeDirectory, Unconfined, childVars
<1>2. CASE SetMode
  BY <1>2, OpensInOrder DEF SetMode, Opens, childVars
<1>3. CASE \E p \in Proxies : BindSocket(p)
  BY <1>3, OpensInOrder DEF BindSocket, Opens, PumpAt, childVars
<1>4. CASE \E p \in Proxies : StartPump(p)
  BY <1>4, OpensInOrder DEF StartPump, Opens, PumpAt, childVars
<1>5. CASE OpenGates
  BY <1>5, OpensInOrder DEF OpenGates, Opens, childVars
<1>6. CASE OpenFails
  BY <1>6, OpensInOrder DEF OpenFails, Unconfined, childVars
<1> QED
  BY <1>1, <1>2, <1>3, <1>4, <1>5, <1>6

(* Forking the supervisor and waiting for it.                               *)
LEMMA SpawnKeeps ==
    ASSUME LaunchInv, Lasting,
           \/ Fork
           \/ EnterNamespace
           \/ SpawnFails
           \/ WaitLinux
    PROVE  LaunchInv'
<1> USE DEF LaunchInv, LaunchTyped, StartedBy, Lasting, Confined, Swept1, Ours, Bridges,
            Serving, Silent, PreSteps, InSteps, Opening, Starting, RunSteps, Places,
            BridgeSteps, Proxies, Families
<1>1. CASE Fork
  BY <1>1 DEF Fork, runVars, bridgeVars
<1>2. CASE EnterNamespace
  BY <1>2, StepsInOrder DEF EnterNamespace, Before, PreExec, Advances, bridgeVars
<1>3. CASE SpawnFails
  BY <1>3 DEF SpawnFails, Unconfined, Before, PreExec
<1>4. CASE WaitLinux
  BY <1>4 DEF WaitLinux, Exit, Released, childVars
<1> QED
  BY <1>1, <1>2, <1>3, <1>4

(* The Seatbelt path.                                                       *)
LEMMA OnMacosKeeps ==
    ASSUME LaunchInv, Lasting,
           \/ Sweep
           \/ Seatbelt
           \/ SeatbeltStatus
    PROVE  LaunchInv'
<1> USE DEF LaunchInv, LaunchTyped, StartedBy, Lasting, Confined, Swept1, Ours, Bridges,
            Serving, Silent, PreSteps, InSteps, Opening, Starting, RunSteps, Places,
            BridgeSteps, Proxies, Families
<1>1. CASE Sweep
  BY <1>1 DEF Sweep, Unconfined, bridgeVars
<1>2. CASE Seatbelt
  BY <1>2 DEF Seatbelt, Starts, Exit, Released, Unconfined, bridgeVars
<1>3. CASE SeatbeltStatus
  BY <1>3 DEF SeatbeltStatus, Exit, Released, Unconfined, childVars
<1> QED
  BY <1>1, <1>2, <1>3

(* The advisory path.                                                       *)
LEMMA AdvisoryKeeps ==
    ASSUME LaunchInv, Lasting,
           \/ Warn
           \/ Plain
           \/ PlainStatus
    PROVE  LaunchInv'
<1> USE DEF LaunchInv, LaunchTyped, StartedBy, Lasting, Confined, Swept1, Ours, Bridges,
            Serving, Silent, PreSteps, InSteps, Opening, Starting, RunSteps, Places,
            BridgeSteps, Proxies, Families
<1>1. CASE Warn
  BY <1>1 DEF Warn, bridgeVars, childVars
<1>2. CASE Plain
  <2>1. at = "plain" /\ told = TRUE
    BY <1>2 DEF Plain
  <2>2. CASE Starts("host", held) /\ at' = "advisory" /\ UNCHANGED <<load, proxy, port, bridge>>
    BY <1>2, <2>1, <2>2 DEF Plain, Starts
  <2>3. CASE Exit /\ UNCHANGED cmd
    BY <1>2, <2>1, <2>3 DEF Plain, Exit, Released
  <2> QED
    BY <1>2, <2>2, <2>3 DEF Plain
<1>3. CASE PlainStatus
  BY <1>3 DEF PlainStatus, Exit, Released, childVars
<1> QED
  BY <1>1, <1>2, <1>3

(* The supervisor's steps, and its ends.                                    *)
LEMMA SupervisorKeeps ==
    ASSUME LoadTyped, LaunchInv, Lasting,
           \/ CloseDescriptors
           \/ \E p \in Proxies : Listen(p)
           \/ \E p \in Proxies : StartInner(p)
           \/ OpenInnerGates
           \/ StartCommand
           \/ SuperviseFails
           \/ SupervisorKilled
           \/ SupervisorEnds
    PROVE  LaunchInv'
<1> USE DEF LaunchInv, LaunchTyped, StartedBy, Lasting, Confined, Swept1, Ours, Bridges,
            Serving, Silent, PreSteps, InSteps, Opening, Starting, RunSteps, Places,
            BridgeSteps, Proxies, Families
<1>1. CASE CloseDescriptors
  <2>1. Swept = {} \/ (load.sweep = "limit" /\ Swept = held \ {"low"})
    BY <1>1 DEF CloseDescriptors, Swept, LoadTyped, Loads
  <2>2. held' \subseteq {"low", "high"} /\ Swept1(held')
    BY <1>1, <2>1 DEF CloseDescriptors
  <2>3. sup = "descriptors" /\ sup' = "listen1" /\ UNCHANGED <<runVars, bridgeVars, net, cmd>>
    BY <1>1, StepsInOrder DEF CloseDescriptors, Advances
  <2> QED
    BY <2>2, <2>3 DEF runVars, bridgeVars
<1>2. CASE \E p \in Proxies : Listen(p)
  BY <1>2, StepsInOrder DEF Listen, Advances, PumpAt, runVars
<1>3. CASE \E p \in Proxies : StartInner(p)
  BY <1>3, StepsInOrder DEF StartInner, Advances, PumpAt, runVars
<1>4. CASE OpenInnerGates
  BY <1>4, StepsInOrder DEF OpenInnerGates, Advances, runVars
<1>5. CASE StartCommand
  BY <1>5, StepsInOrder DEF StartCommand, Starts, Advances, runVars, bridgeVars
<1>6. CASE SuperviseFails
  BY <1>6 DEF SuperviseFails, InnerGone, Inside, Supervise, runVars
<1>7. CASE SupervisorKilled
  BY <1>7 DEF SupervisorKilled, InnerGone, Inside, Supervise, runVars
<1>8. CASE SupervisorEnds
  BY <1>8 DEF SupervisorEnds, InnerGone, runVars
<1> QED
  BY <1>1, <1>2, <1>3, <1>4, <1>5, <1>6, <1>7, <1>8

(* Every step, the pump's included, preserves the launcher's invariant.     *)
LEMMA LaunchKept ==
    ASSUME LoadTyped, LaunchInv, [Next]_vars
    PROVE  LaunchInv'
<1>1. Lasting
  BY LoadLasts
<1>2. CASE UNCHANGED launchVars
  BY <1>1, <1>2 DEF LaunchInv, LaunchTyped, StartedBy, Lasting, Confined, Swept1, Ours,
                    Bridges, Serving, Silent, launchVars, runVars, bridgeVars, childVars
<1>3. CASE Run
  BY <1>1, <1>3, StartKeeps, OpeningKeeps, SpawnKeeps, OnMacosKeeps, AdvisoryKeeps DEF Run
<1>4. CASE CommandEnds \/ ProxyDies \/ RunKilled
            \/ \E p \in Proxies, f \in Families : StrangerBinds(p, f)
  BY <1>1, <1>4, OthersKeep
<1>5. CASE Supervisor \/ SupervisorKilled
  BY <1>1, <1>5, SupervisorKeeps DEF Supervisor, Setup
<1> QED
  BY <1>2, <1>3, <1>4, <1>5 DEF Next, Apart, vars

(* It holds of every workload before the first step.                        *)
LEMMA LaunchInitHolds ==
    ASSUME Init
    PROVE  LoadTyped /\ LaunchInv
<1>1. LoadTyped
  BY WorkloadAssumption DEF Init, LoadTyped
<1>2. LaunchTyped
  BY <1>1 DEF Init, LoadTyped, Loads, LaunchTyped, RunSteps, Starting, Places, BridgeSteps, Proxies,
              Families
<1>3. StartedBy /\ Confined /\ Bridges
  BY DEF Init, StartedBy, Confined, Bridges, Silent, Serving, Opening, Starting,
         PreSteps, InSteps, Proxies, Families
<1> QED
  BY <1>1, <1>2, <1>3 DEF LaunchInv

(* The launcher's state always is what its invariant describes.             *)
THEOREM LaunchInductive == Spec => [](LoadTyped /\ LaunchInv)
<1>1. Init => LoadTyped /\ LaunchInv
  BY LaunchInitHolds
<1>2. LoadTyped /\ LaunchInv /\ [Next]_vars => LoadTyped' /\ LaunchInv'
  BY LoadLasts, LaunchKept
<1> QED
  BY <1>1, <1>2, PTL DEF Spec

(* Nothing starts the command a second time, whatever fails: an error of    *)
(* run_confined means that the command has not run, on macOS because no run *)
(* whose waits find nobody has passed the probe.                            *)
THEOREM CommandRunsOnce == Spec => []RunsOnce
<1>1. LaunchInv => RunsOnce
  BY DEF LaunchInv, StartedBy, RunsOnce
<1> QED
  BY <1>1, LaunchInductive, PTL

(* A command nobody was warned about reaches this run's proxies and nothing *)
(* else, but for the exceptions the code states.                            *)
THEOREM CommandIsConfined == Spec => []ToldOrConfined
<1>1. LaunchInv => ToldOrConfined
  <2> SUFFICES ASSUME LaunchInv, cmd.step = "running", ~cmd.told, ~Excepted
               PROVE  Reach \subseteq Proxies
    BY DEF ToldOrConfined
  <2>1. cmd.where \in {"namespace", "seatbelt"}
    BY DEF LaunchInv, LaunchTyped, Confined, Places
  <2>2. cmd.held = {}
    BY <2>1 DEF LaunchInv, LaunchTyped, Confined, Swept1, Excepted
  <2>3. CASE cmd.where = "namespace"
    BY <2>2, <2>3 DEF Reach
  <2>4. CASE cmd.where = "seatbelt"
    <3>1. ~Holds("other")
      BY <2>4 DEF LaunchInv, LaunchTyped, Confined, Ours, Starting, Excepted, Holds
    <3> QED
      BY <2>2, <2>4, <3>1 DEF Reach
  <2> QED
    BY <2>1, <2>3, <2>4
<1> QED
  BY <1>1, LaunchInductive, PTL

(* The bridge is there whole or not at all: each side of it serves both of  *)
(* the proxies or neither, its directory survives no ordinary end, and a    *)
(* command in the namespace has both its routes.                            *)
THEOREM BridgeIsWhole == Spec => []WholeOrGone
<1>1. LaunchInv => NothingLeftBehind
  <2> SUFFICES ASSUME LaunchInv
               PROVE  NothingLeftBehind
    OBVIOUS
  <2> DEFINE S == {p \in Proxies : bridge.host[p] = "serving"}
  <2>1. S = Proxies \/ S = {}
    BY DEF LaunchInv, LaunchTyped, Bridges, Serving, Silent
  <2>2. Cardinality({}) = 0
    BY FS_EmptySet
  <2>3. Cardinality(S) \in {0, Cardinality(Proxies)}
    BY <2>1, <2>2
  <2> QED
    BY <2>3 DEF NothingLeftBehind, LaunchInv, Bridges
<1>2. LaunchInv => CommandHasItsRoutes
  BY DEF LaunchInv, LaunchTyped, Bridges, Serving, CommandHasItsRoutes, Reach, Bridged
<1> QED
  BY <1>1, <1>2, LaunchInductive, PTL DEF WholeOrGone

-----------------------------------------------------------------------------
(* The pump's steps.                                                        *)

(* Of finitely many connections finitely many have a thread.                 *)
LEMMA RunningCounts ==
    ASSUME PumpTyped
    PROVE  IsFiniteSet(Running) /\ Cardinality(Running) \in Nat
<1>1. IsFiniteSet(Running)
  BY WorkloadAssumption, FS_Subset DEF Running
<1> QED
  BY <1>1, FS_CardinalityType

(* A connection that moves on changes how many have a thread by itself.     *)
LEMMA MovingCounts ==
    ASSUME PumpTyped, NEW c \in Conns, NEW step \in ConnSteps, conn' = [conn EXCEPT ![c] = step]
    PROVE  /\ (c \in Running <=> step \in {"dialling", "spliced"}) =>
                  Cardinality(Running') = Cardinality(Running)
           /\ c \notin Running /\ step \in {"dialling", "spliced"} =>
                  Cardinality(Running') = Cardinality(Running) + 1
           /\ c \in Running /\ step \notin {"dialling", "spliced"} =>
                  Cardinality(Running') = Cardinality(Running) - 1
<1>1. /\ conn'[c] = step /\ conn' \in [Conns -> ConnSteps]
      /\ \A other \in Conns : other # c => conn'[other] = conn[other]
  BY DEF PumpTyped
<1>2. CASE c \in Running <=> step \in {"dialling", "spliced"}
  <2>1. Running' = Running
    BY <1>1, <1>2 DEF Running
  <2> QED
    BY <1>2, <2>1
<1>3. CASE c \notin Running /\ step \in {"dialling", "spliced"}
  <2>1. Running' = Running \union {c}
    BY <1>1, <1>3 DEF Running
  <2> QED
    BY <1>3, <2>1, RunningCounts, FS_AddElement
<1>4. CASE c \in Running /\ step \notin {"dialling", "spliced"}
  <2>1. Running' = Running \ {c}
    BY <1>1, <1>4 DEF Running
  <2> QED
    BY <1>4, <2>1, RunningCounts, FS_RemoveElement
<1> QED
  BY <1>2, <1>3, <1>4

(* The connection the loop has decided on gets its thread, or is let go     *)
(* with its slot.                                                           *)
LEMMA SettledKeeps ==
    ASSUME PumpInv, Lasting, UNCHANGED launchVars, UNCHANGED <<gone, stream, upset>>, Deciding,
           NEW step \in {"dropped", "dialling"}, Settled(pump.inbound, step),
           step = "dropped" => live' = live - 1,
           step = "dialling" => pump.at = "thread" /\ live' = live
    PROVE  PumpInv'
<1> DEFINE c == pump.inbound
<1>1. /\ c \in Conns /\ conn[c] = "queued" /\ conn' = [conn EXCEPT ![c] = step]
      /\ pump' = [pump EXCEPT !.at = "accept", !.inbound = "none"]
  BY DEF PumpInv, Slots, Settled, Deciding
<1>2. /\ live = Cardinality(Running) + 1 /\ Cardinality(Running) <= MaxConnections
      /\ pump.at = "thread" => Cardinality(Running) < MaxConnections
  BY DEF PumpInv, Slots
<1>3. Cardinality(Running) \in Nat /\ PumpTyped /\ step \in ConnSteps
  BY RunningCounts DEF PumpInv, ConnSteps, Over
<1>4. c \notin Running
  BY <1>1 DEF Running
<1>5. Cardinality(Running') = IF step = "dialling" THEN Cardinality(Running) + 1
                              ELSE Cardinality(Running)
  BY <1>1, <1>3, <1>4, MovingCounts
<1>6. live' = Cardinality(Running')
  BY <1>2, <1>3, <1>5
<1>7. Cardinality(Running') \in Nat /\ Cardinality(Running') <= MaxConnections
  BY <1>2, <1>3, <1>5, PumpAssumption
<1>8. /\ pump'.at = "accept" /\ pump'.inbound = "none" /\ pump'.failures = pump.failures
      /\ pump' \in PumpStates
  BY <1>1, <1>3 DEF PumpTyped, PumpStates
<1> HIDE DEF c
<1>9. PumpTyped'
  BY <1>1, <1>3, <1>6, <1>7, <1>8 DEF PumpTyped
<1>10. Slots'
  BY <1>6, <1>7, <1>8 DEF Slots, Deciding
<1>11. Stops'
  BY <1>8 DEF PumpInv, Stops, Deciding, Lasting, launchVars, childVars
<1>12. Streams'
  BY <1>1, <1>3 DEF PumpInv, PumpTyped, Streams
<1> QED
  BY <1>9, <1>10, <1>11, <1>12 DEF PumpInv

(* A listener that fails, and at the limit for good.                        *)
LEMMA AcceptFailsKeeps ==
    ASSUME PumpInv, Lasting, UNCHANGED launchVars, AcceptFails
    PROVE  PumpInv'
<1>1. /\ pump.at = "accept" /\ UNCHANGED <<live, gone, stream>>
      /\ load.broken \/ upset + 1 < AcceptFailureLimit
      /\ load.broken => upset' = upset
      /\ ~load.broken => upset' = upset + 1
  BY DEF AcceptFails
<1>2. PumpTyped /\ pump.failures \in Nat /\ pump.failures + 1 \in Nat /\ upset' \in Nat
  BY <1>1 DEF PumpInv, PumpTyped, PumpStates
<1>3. CASE pump.failures + 1 < AcceptFailureLimit
  <2>1. pump' = [pump EXCEPT !.failures = @ + 1] /\ UNCHANGED conn
    BY <1>3 DEF AcceptFails
  <2>2. /\ pump'.at = "accept" /\ pump'.failures = pump.failures + 1
        /\ pump'.inbound = pump.inbound /\ pump' \in PumpStates
    BY <1>1, <1>2, <2>1 DEF PumpTyped, PumpStates
  <2>3. PumpTyped'
    BY <1>1, <1>2, <2>1, <2>2 DEF PumpTyped
  <2>4. Slots'
    BY <1>1, <2>1, <2>2 DEF PumpInv, Slots, Running, Deciding
  <2>5. Stops'
    BY <1>1, <1>2, <2>2 DEF PumpInv, PumpTyped, Stops, Lasting, launchVars, childVars
  <2>6. Streams'
    BY <1>1, <2>1 DEF PumpInv, Streams
  <2> QED
    BY <2>3, <2>4, <2>5, <2>6 DEF PumpInv
<1>4. CASE ~(pump.failures + 1 < AcceptFailureLimit)
  <2>1. /\ pump' = [pump EXCEPT !.failures = @ + 1, !.at = "stopped"]
        /\ conn' = [c \in Conns |-> IF conn[c] = "queued" THEN "dropped" ELSE conn[c]]
    BY <1>4 DEF AcceptFails
  <2>2. /\ pump'.at = "stopped" /\ pump' \in PumpStates
        /\ conn' \in [Conns -> ConnSteps] /\ Running' = Running
    BY <1>2, <2>1 DEF PumpTyped, PumpStates, ConnSteps, Over, Running
  <2>3. PumpTyped'
    BY <1>1, <1>2, <2>2 DEF PumpTyped
  <2>4. Slots'
    BY <1>1, <2>2 DEF PumpInv, Slots, Deciding
  <2>5. ~load.broken => pump.failures <= upset
    BY DEF PumpInv, Stops
  <2>6. load.broken
    BY <1>1, <1>2, <1>4, <2>5, PumpAssumption DEF PumpTyped
  <2>7. Stops'
    BY <1>1, <2>6 DEF PumpInv, Stops, Lasting, launchVars, childVars
  <2>8. Streams'
    BY <1>1, <1>2, <2>1 DEF PumpInv, PumpTyped, Streams
  <2> QED
    BY <2>3, <2>4, <2>7, <2>8 DEF PumpInv
<1> QED
  BY <1>3, <1>4

(* Accepting and deciding.                                                  *)
LEMMA LoopKeeps ==
    ASSUME PumpInv, Lasting, UNCHANGED launchVars,
           Loop \/ AcceptUnderPressure \/ AcceptFails \/ \E c \in Conns : Accepts(c)
    PROVE  PumpInv'
<1>1. CASE AcceptUnderPressure
  BY <1>1 DEF AcceptUnderPressure, PumpInv, PumpTyped, ConnSteps, Over, Slots, Running, Deciding,
              Stops, Streams, Lasting, launchVars, childVars
<1>2. CASE \E c \in Conns : Accepts(c)
  <2>1. PICK c \in Conns : Accepts(c)
    BY <1>2
  <2>2. /\ pump'.at = "admit" /\ pump'.inbound = c /\ pump'.failures = 0
        /\ pump' \in PumpStates /\ upset' = 0
        /\ pump.at = "accept" /\ conn[c] = "queued" /\ UNCHANGED <<live, conn, gone, stream>>
    BY <2>1 DEF Accepts, PumpStates
  <2>3. PumpTyped' /\ Slots'
    BY <2>2 DEF PumpInv, PumpTyped, Slots, Running, Deciding
  <2>4. Stops'
    BY <2>2 DEF PumpInv, Stops, Lasting, launchVars, childVars
  <2>5. Streams'
    BY <2>2 DEF PumpInv, Streams
  <2> QED
    BY <2>3, <2>4, <2>5 DEF PumpInv
<1>3. CASE AcceptFails
  BY <1>3, AcceptFailsKeeps
<1>4. CASE Admit
  <2>1. /\ pump.at = "admit" /\ live' = live + 1 /\ UNCHANGED <<conn, gone, stream, upset>>
        /\ pump' = [pump EXCEPT !.at = IF live >= MaxConnections THEN "retreat" ELSE "thread"]
    BY <1>4 DEF Admit
  <2>2. /\ pump'.at = IF live >= MaxConnections THEN "retreat" ELSE "thread"
        /\ pump'.inbound = pump.inbound /\ pump'.failures = pump.failures
        /\ pump' \in PumpStates
    BY <2>1 DEF PumpInv, PumpTyped, PumpStates
  <2>3. live = Cardinality(Running) /\ live \in Nat
    BY <2>1, RunningCounts DEF PumpInv, PumpTyped, Slots, Deciding
  <2>4. Running' = Running
    BY <2>1 DEF Running
  <2>5. Slots'
    BY <2>1, <2>2, <2>3, <2>4, PumpAssumption DEF PumpInv, Slots, Deciding
  <2>6. PumpTyped' /\ Streams'
    BY <2>1, <2>2, <2>3 DEF PumpInv, PumpTyped, Streams
  <2>7. Stops'
    BY <2>1, <2>2 DEF PumpInv, Stops, Lasting, launchVars, childVars
  <2> QED
    BY <2>5, <2>6, <2>7 DEF PumpInv
<1>5. CASE Retreat
  BY <1>5, SettledKeeps DEF Retreat, Deciding
<1>6. CASE StartThread
  BY <1>6, SettledKeeps DEF StartThread, Deciding
<1>7. CASE ThreadFails
  BY <1>7, SettledKeeps DEF ThreadFails, Deciding
<1> QED
  BY <1>1, <1>2, <1>3, <1>4, <1>5, <1>6, <1>7 DEF Loop

(* A connection arrives, is spliced, or ends, and its slot with it.         *)
LEMMA ConnectionKeeps ==
    ASSUME PumpInv, Lasting, UNCHANGED launchVars, NEW c \in Conns, Connects(c) \/ Thread(c)
    PROVE  PumpInv'
<1>1. PumpTyped /\ Slots /\ Stops /\ Streams /\ Cardinality(Running) \in Nat
  BY RunningCounts DEF PumpInv
<1>2. CASE Connects(c)
  <2>1. PICK step \in {"refused", "queued"} : conn' = [conn EXCEPT ![c] = step]
    BY <1>2 DEF Connects
  <2>2. conn[c] = "away" /\ UNCHANGED <<pump, live, gone, stream, upset>>
    BY <1>2 DEF Connects
  <2>3. step \in ConnSteps /\ c \notin Running
    BY <2>2 DEF ConnSteps, Over, Running
  <2>4. Cardinality(Running') = Cardinality(Running)
    BY <1>1, <2>1, <2>3, MovingCounts
  <2>5. PumpTyped'
    BY <1>1, <2>1, <2>2, <2>3 DEF PumpTyped
  <2>6. Slots'
    BY <1>1, <2>1, <2>2, <2>4 DEF PumpTyped, Slots, Deciding
  <2>7. Stops'
    BY <1>1, <2>2 DEF Stops, Lasting, launchVars, childVars
  <2>8. Streams'
    BY <1>1, <2>1, <2>2 DEF PumpTyped, Streams
  <2> QED
    BY <2>5, <2>6, <2>7, <2>8 DEF PumpInv
<1>3. CASE Dial(c)
  <2>1. /\ conn[c] = "dialling" /\ conn' = [conn EXCEPT ![c] = "spliced"]
        /\ UNCHANGED <<pump, live, gone, upset>>
        /\ stream' = [stream EXCEPT ![c] = [d \in Directions |->
                                                [stream[c][d] EXCEPT !.copier = "copying"]]]
    BY <1>3 DEF Dial
  <2>2. Cardinality(Running') = Cardinality(Running)
    BY <1>1, <2>1, MovingCounts DEF ConnSteps, Running
  <2>3. PumpTyped'
    <3>1. /\ stream[c] \in [Directions -> StreamStates]
          /\ stream'[c] = [d \in Directions |-> [stream[c][d] EXCEPT !.copier = "copying"]]
          /\ \A other \in Conns : other # c => stream'[other] = stream[other]
      BY <1>1, <2>1 DEF PumpTyped
    <3>2. \A d \in Directions : stream'[c][d] \in StreamStates
      BY <3>1 DEF StreamStates
    <3>3. stream' \in [Conns -> [Directions -> StreamStates]]
      BY <1>1, <2>1, <3>1, <3>2 DEF PumpTyped
    <3> QED
      BY <1>1, <2>1, <3>3 DEF PumpTyped, ConnSteps
  <2>4. Slots'
    BY <1>1, <2>1, <2>2 DEF PumpTyped, Slots, Deciding
  <2>5. Stops'
    BY <1>1, <2>1 DEF Stops, Lasting, launchVars, childVars
  <2>6. Streams'
    <3>1. \A d \in Directions : /\ stream[c][d] \in StreamStates /\ ~stream[c][d].eof
                               /\ stream'[c][d] = [stream[c][d] EXCEPT !.copier = "copying"]
      BY <1>1, <2>1 DEF PumpTyped, Streams
    <3>2. \A d \in Directions : ~stream'[c][d].eof
      BY <3>1 DEF StreamStates
    <3>3. /\ conn'[c] = "spliced"
          /\ \A other \in Conns : other # c => /\ stream'[other] = stream[other]
                                             /\ conn'[other] = conn[other]
      BY <1>1, <2>1 DEF PumpTyped
    <3> QED
      BY <1>1, <2>1, <3>2, <3>3 DEF Streams
  <2> QED
    BY <2>3, <2>4, <2>5, <2>6 DEF PumpInv
<1>4. CASE DialFails(c) \/ Finish(c)
  <2>1. PICK step \in {"dropped", "closed"} : conn' = [conn EXCEPT ![c] = step]
    BY <1>4 DEF DialFails, Finish
  <2>2. /\ conn[c] \in {"dialling", "spliced"} /\ live' = live - 1
        /\ UNCHANGED <<pump, gone, stream, upset>>
    BY <1>4 DEF DialFails, Finish
  <2>3. step \in ConnSteps /\ c \in Running
    BY <2>2 DEF ConnSteps, Over, Running
  <2>4. Cardinality(Running') = Cardinality(Running) - 1 /\ Cardinality(Running') \in Nat
    <3>1. Cardinality(Running') = Cardinality(Running) - 1
      BY <1>1, <2>1, <2>3, MovingCounts
    <3>2. Cardinality(Running) > 0
      BY <2>3, <1>1, RunningCounts, FS_EmptySet
    <3> QED
      BY <1>1, <3>1, <3>2
  <2>5. live' \in Nat /\ live' = Cardinality(Running') + (IF Deciding' THEN 1 ELSE 0)
    BY <1>1, <2>2, <2>4 DEF PumpTyped, Slots, Deciding
  <2>6. PumpTyped'
    BY <1>1, <2>1, <2>2, <2>3, <2>5 DEF PumpTyped
  <2>7. Slots'
    BY <1>1, <2>1, <2>2, <2>4, <2>5, PumpAssumption DEF PumpTyped, Slots, Deciding
  <2>8. Stops' /\ Streams'
    BY <1>1, <2>1, <2>2 DEF PumpTyped, Stops, Streams, Lasting, launchVars, childVars
  <2> QED
    BY <2>6, <2>7, <2>8 DEF PumpInv
<1> QED
  BY <1>2, <1>3, <1>4 DEF Thread

(* What is said and carried.  A stream that has ended changes no more,      *)
(* except that an end of its connection may vanish.                         *)
LEMMA StreamKeeps ==
    ASSUME PumpInv, Lasting, UNCHANGED launchVars, UNCHANGED <<pump, live, conn, gone, upset>>,
           NEW c \in Conns, NEW d \in Directions, NEW s \in StreamStates, Set(c, d, s),
           conn[c] \in {"away", "queued", "dialling"} => s.copier = "none",
           s.eof => /\ s.copier = "done"
                    /\ \/ s.shut /\ s.carried = s.said
                       \/ \E end \in Ends : <<c, end>> \in gone
    PROVE  PumpInv'
<1>1. PumpTyped
  BY DEF PumpInv
<1>2. stream' = [stream EXCEPT ![c] = [stream[c] EXCEPT ![d] = s]]
  BY DEF Set
<1>3. /\ stream'[c][d] = s
      /\ \A other \in Conns, way \in Directions :
            <<other, way>> # <<c, d>> => stream'[other][way] = stream[other][way]
      /\ stream' \in [Conns -> [Directions -> StreamStates]]
  BY <1>1, <1>2 DEF PumpTyped
<1>4. PumpTyped'
  BY <1>1, <1>3 DEF PumpTyped
<1>5. Slots'
  BY DEF PumpInv, Slots, Running, Deciding
<1>6. Stops'
  BY DEF PumpInv, Stops, Lasting, launchVars, childVars
<1>7. Streams'
  BY <1>3 DEF PumpInv, Streams
<1> QED
  BY <1>4, <1>5, <1>6, <1>7 DEF PumpInv

(* What the two ends and the copying threads do keeps the pump sound.        *)
LEMMA TalkKeeps ==
    ASSUME PumpInv, Lasting, UNCHANGED launchVars, NEW c \in Conns,
           \/ ClientMoves(c) \/ ServerMoves(c)
           \/ \E d \in Directions : Carry(c, d) \/ CopyEnds(c, d)
           \/ \E end \in {"client", "server"} : Vanishes(c, end)
    PROVE  PumpInv'
<1>1. PumpTyped /\ Streams
  BY DEF PumpInv
<1>2. \A d \in Directions : On(c, d) = stream[c][d] /\ stream[c][d] \in StreamStates
  BY <1>1 DEF PumpTyped, On
<1>3. ASSUME NEW d \in Directions, Says(c, d), ~On(c, d).shut,
             UNCHANGED <<pump, live, conn, gone, upset>>
      PROVE  PumpInv'
  <2> DEFINE s == [stream[c][d] EXCEPT !.said = @ + 1]
  <2>1. /\ s \in StreamStates /\ s.copier = stream[c][d].copier /\ s.eof = stream[c][d].eof
        /\ ~stream[c][d].shut
    BY <1>2, <1>3 DEF StreamStates
  <2>2. Set(c, d, s)
    BY <1>2, <1>3 DEF Says
  <2> HIDE DEF s
  <2>3. s.eof => s.copier = "done" /\ \E end \in Ends : <<c, end>> \in gone
    BY <1>1, <2>1 DEF Streams
  <2>4. conn[c] \in {"away", "queued", "dialling"} => s.copier = "none"
    BY <1>1, <2>1 DEF Streams
  <2> QED
    BY <1>3, <2>1, <2>2, <2>3, <2>4, StreamKeeps
<1>4. ASSUME NEW d \in Directions, Shuts(c, d), ~On(c, d).shut,
             UNCHANGED <<pump, live, conn, gone, upset>>
      PROVE  PumpInv'
  <2> DEFINE s == [stream[c][d] EXCEPT !.shut = TRUE]
  <2>1. /\ s \in StreamStates /\ s.copier = stream[c][d].copier /\ s.eof = stream[c][d].eof
        /\ ~stream[c][d].shut
    BY <1>2, <1>4 DEF StreamStates
  <2>2. Set(c, d, s)
    BY <1>2, <1>4 DEF Shuts
  <2> HIDE DEF s
  <2>3. s.eof => s.copier = "done" /\ \E end \in Ends : <<c, end>> \in gone
    BY <1>1, <2>1 DEF Streams
  <2>4. conn[c] \in {"away", "queued", "dialling"} => s.copier = "none"
    BY <1>1, <2>1 DEF Streams
  <2> QED
    BY <1>4, <2>1, <2>2, <2>3, <2>4, StreamKeeps
<1>5. CASE ClientMoves(c)
  BY <1>3, <1>4, <1>5 DEF ClientMoves, Directions
<1>6. CASE ServerMoves(c)
  BY <1>3, <1>4, <1>6 DEF ServerMoves, Directions
<1>7. ASSUME NEW d \in Directions, Carry(c, d)
      PROVE  PumpInv'
  <2> DEFINE s == [stream[c][d] EXCEPT !.carried = @ + 1]
  <2>1. /\ s \in StreamStates /\ s.copier = "copying" /\ s.eof = stream[c][d].eof
        /\ stream[c][d].copier = "copying" /\ conn[c] = "spliced"
    BY <1>2, <1>7 DEF StreamStates, Carry, Copying
  <2>2. Set(c, d, s) /\ UNCHANGED <<pump, live, conn, gone, upset>>
    BY <1>2, <1>7 DEF Carry
  <2> HIDE DEF s
  <2>3. ~s.eof
    BY <1>1, <2>1 DEF Streams
  <2> QED
    BY <2>1, <2>2, <2>3, StreamKeeps
<1>8. ASSUME NEW d \in Directions, CopyEnds(c, d)
      PROVE  PumpInv'
  <2> DEFINE s == [stream[c][d] EXCEPT !.copier = "done", !.eof = TRUE]
  <2>1. /\ s \in StreamStates /\ s.copier = "done"
        /\ s.shut = stream[c][d].shut /\ s.carried = stream[c][d].carried
        /\ s.said = stream[c][d].said /\ conn[c] = "spliced"
    BY <1>2, <1>8 DEF StreamStates, CopyEnds, Copying
  <2>2. Set(c, d, s) /\ UNCHANGED <<pump, live, conn, gone, upset>>
    BY <1>2, <1>8 DEF CopyEnds
  <2>3. Origin[d] \in Ends /\ Reader[d] \in Ends
    BY DEF Origin, Reader, Directions, Ends
  <2>4. \/ stream[c][d].shut /\ stream[c][d].carried = stream[c][d].said
        \/ \E end \in Ends : <<c, end>> \in gone
    BY <1>2, <1>8, <2>3 DEF CopyEnds, Vanished
  <2> HIDE DEF s
  <2> QED
    BY <2>1, <2>2, <2>4, StreamKeeps
<1>9. ASSUME NEW end \in {"client", "server"}, Vanishes(c, end)
      PROVE  PumpInv'
  <2>1. UNCHANGED <<pump, live, conn, stream, upset>> /\ gone' = gone \union {<<c, end>>}
    BY <1>9 DEF Vanishes
  <2>2. PumpTyped'
    BY <1>1, <2>1 DEF PumpTyped, Ends
  <2>3. Slots' /\ Stops'
    BY <2>1 DEF PumpInv, Slots, Running, Deciding, Stops, Lasting, launchVars, childVars
  <2>4. Streams'
    BY <1>1, <2>1 DEF Streams
  <2> QED
    BY <2>2, <2>3, <2>4 DEF PumpInv
<1> QED
  BY <1>5, <1>6, <1>7, <1>8, <1>9

(* The launcher moves, and no pump with it: before the supervisor has        *)
(* opened the gates, or from the command's start to its end.                *)
LEMMA PumpStandsStill ==
    ASSUME PumpInv, Lasting, UNCHANGED talkVars,
           \/ sup' = sup
           \/ /\ sup \notin {"command", "running", "failed", "over"}
              /\ sup' \notin {"command", "running", "failed", "over"}
           \/ sup = "command" /\ sup' = "running"
    PROVE  PumpInv'
<1>1. PumpTyped' /\ Slots' /\ Streams'
  BY DEF PumpInv, PumpTyped, Slots, Running, Deciding, Streams, talkVars
<1>2. Stops'
  BY DEF PumpInv, Stops, Lasting, talkVars
<1> QED
  BY <1>1, <1>2 DEF PumpInv

(* It opens the pump's gate once, while the pump is parked.                 *)
LEMMA GateKeeps ==
    ASSUME PumpInv, Lasting, GateOpens, sup = "gates", sup' = "command"
    PROVE  PumpInv'
<1>1. /\ pump.at = "parked" /\ pump' = [pump EXCEPT !.at = "accept"]
      /\ UNCHANGED <<live, conn, gone, stream, upset>>
  BY DEF PumpInv, Stops, GateOpens
<1>2. pump'.at = "accept" /\ pump'.failures = pump.failures /\ pump' \in PumpStates
  BY <1>1 DEF PumpInv, PumpTyped, PumpStates
<1>3. PumpTyped' /\ Slots' /\ Streams'
  BY <1>1, <1>2 DEF PumpInv, PumpTyped, Slots, Running, Deciding, Streams
<1>4. Stops'
  BY <1>1, <1>2 DEF PumpInv, Stops, Lasting
<1> QED
  BY <1>3, <1>4 DEF PumpInv

(* It ends, and everything the pump carried with it.                        *)
LEMMA PumpGoneKeeps ==
    ASSUME PumpInv, PumpGone, sup' \in {"failed", "over"}
    PROVE  PumpInv'
<1>1. /\ pump' = [at |-> "stopped", inbound |-> "none", failures |-> 0]
      /\ conn' = [c \in Conns |-> IF conn[c] \in Over \union {"away"} THEN conn[c] ELSE "cut"]
      /\ stream' = [c \in Conns |-> [d \in Directions |-> Quiet]]
      /\ live' = 0 /\ upset' = 0 /\ gone' = {}
  BY DEF PumpGone
<1>2. Quiet \in StreamStates /\ ~Quiet.eof /\ Quiet.copier = "none"
  BY DEF Quiet, StreamStates
<1>3. pump' \in PumpStates /\ pump'.at = "stopped" /\ pump'.failures = 0
  BY <1>1 DEF PumpStates
<1>4. conn' \in [Conns -> ConnSteps] /\ Running' = {}
  BY <1>1 DEF PumpInv, PumpTyped, ConnSteps, Over, Running
<1>5. Cardinality(Running') = 0
  BY <1>4, FS_EmptySet
<1>6. PumpTyped'
  BY <1>1, <1>2, <1>3, <1>4 DEF PumpTyped
<1>7. Slots'
  BY <1>1, <1>3, <1>5, PumpAssumption DEF Slots, Deciding
<1>8. Stops'
  BY <1>1, <1>3 DEF Stops
<1>9. Streams'
  BY <1>1, <1>2 DEF Streams
<1> QED
  BY <1>6, <1>7, <1>8, <1>9 DEF PumpInv

(* Every step preserves the pump's invariant.                               *)
LEMMA PumpKept ==
    ASSUME LoadTyped, LaunchInv, PumpInv, [Next]_vars
    PROVE  PumpInv'
<1>1. Lasting
  BY LoadLasts
<1>2. CASE UNCHANGED vars
  BY <1>1, <1>2, PumpStandsStill DEF vars, launchVars, childVars, pumpVars
<1>3. CASE Apart /\ UNCHANGED talkVars
  <2>1. CASE Fork
    BY <1>1, <1>3, <2>1, PumpStandsStill DEF Fork
  <2>2. CASE EnterNamespace
    BY <1>1, <1>3, <2>2, StepsInOrder, PumpStandsStill
       DEF EnterNamespace, Before, PreExec, Advances
  <2>3. CASE SpawnFails
    <3>1. sup \notin {"command", "running", "failed", "over"} /\ sup' = "none"
      BY <2>3 DEF SpawnFails, Before, PreExec
    <3> QED
      BY <1>1, <1>3, <3>1, PumpStandsStill
  <2>4. CASE \E p \in Proxies : BindPair(p) \/ BindTaken(p) \/ BindSocket(p) \/ StartPump(p)
    <3>1. sup' = sup
      BY <2>4 DEF BindPair, BindTaken, BindSocket, StartPump, childVars
    <3> QED
      BY <1>1, <1>3, <3>1, PumpStandsStill
  <2>5. CASE StartFails \/ Serve \/ Probe \/ MakeDirectory \/ SetMode \/ OpenGates \/ OpenFails
    <3>1. sup' = sup
      BY <2>5 DEF StartFails, Serve, Probe, MakeDirectory, SetMode, OpenGates, OpenFails, childVars
    <3> QED
      BY <1>1, <1>3, <3>1, PumpStandsStill
  <2>6. CASE \/ WaitLinux \/ Sweep \/ Seatbelt \/ SeatbeltStatus
             \/ Warn \/ Plain \/ PlainStatus
    <3>1. sup' = sup
      BY <2>6 DEF WaitLinux, Sweep, Seatbelt, SeatbeltStatus, Warn, Plain, PlainStatus, childVars
    <3> QED
      BY <1>1, <1>3, <3>1, PumpStandsStill
  <2>7. CASE CommandEnds \/ ProxyDies \/ RunKilled
               \/ \E p \in Proxies, f \in Families : StrangerBinds(p, f)
    <3>1. sup' = sup
      BY <2>7 DEF CommandEnds, ProxyDies, RunKilled, StrangerBinds, childVars
    <3> QED
      BY <1>1, <1>3, <3>1, PumpStandsStill
  <2> QED
    BY <1>3, <2>1, <2>2, <2>3, <2>4, <2>5, <2>6, <2>7 DEF Apart, Run
<1>4. CASE Setup /\ UNCHANGED talkVars
  <2>1. \/ /\ sup \in {"descriptors", "listen1", "listen2", "thread1", "thread2"}
           /\ sup' \in {"listen1", "listen2", "thread1", "thread2", "gates"}
        \/ sup = "command" /\ sup' = "running"
    BY <1>4, StepsInOrder
       DEF Setup, CloseDescriptors, StartCommand, Listen, StartInner, Advances
  <2> QED
    BY <1>1, <1>4, <2>1, PumpStandsStill
<1>5. CASE OpenInnerGates
  BY <1>1, <1>5, StepsInOrder, GateKeeps DEF OpenInnerGates, Advances
<1>6. CASE SuperviseFails \/ SupervisorEnds \/ SupervisorKilled
  BY <1>6, PumpGoneKeeps DEF SuperviseFails, SupervisorEnds, SupervisorKilled, InnerGone
<1>7. CASE Carrying /\ UNCHANGED launchVars
  BY <1>1, <1>7, LoopKeeps, ConnectionKeeps, TalkKeeps DEF Carrying, PumpNext, Working
<1> QED
  BY <1>2, <1>3, <1>4, <1>5, <1>6, <1>7 DEF Next, Supervisor

(* It holds before the first step, when nothing has arrived.                *)
LEMMA PumpInitHolds ==
    ASSUME Init
    PROVE  PumpInv
<1>1. /\ pump = [at |-> "parked", inbound |-> "none", failures |-> 0]
      /\ live = 0 /\ upset = 0 /\ gone = {} /\ sup = "none"
      /\ conn = [c \in Conns |-> "away"]
      /\ stream = [c \in Conns |-> [d \in Directions |-> Quiet]]
  BY DEF Init, PumpInit
<1>2. Quiet \in StreamStates /\ ~Quiet.eof /\ Quiet.copier = "none"
  BY DEF Quiet, StreamStates
<1>3. Running = {} /\ Cardinality(Running) = 0
  BY <1>1, FS_EmptySet DEF Running
<1>4. PumpTyped
  BY <1>1, <1>2 DEF PumpTyped, PumpStates, ConnSteps
<1>5. Slots /\ Stops
  BY <1>1, <1>3, PumpAssumption DEF Slots, Deciding, Stops
<1>6. Streams
  BY <1>1, <1>2 DEF Streams
<1> QED
  BY <1>4, <1>5, <1>6 DEF PumpInv

(* The pump's state always is what its invariant describes.                 *)
THEOREM PumpInductive == Spec => []PumpInv
<1>1. Init => PumpInv
  BY PumpInitHolds
<1>2. LoadTyped /\ LaunchInv /\ PumpInv /\ [Next]_vars => PumpInv'
  BY PumpKept
<1> QED
  BY <1>1, <1>2, LaunchInductive, PTL DEF Spec

(* The sandbox keeps its route: the cap counts what runs, the accept loop   *)
(* outlives every failure but that of its listener, and the end of a        *)
(* question does not end the answer, for any number of connections.         *)
THEOREM RouteHolds == Spec => []RouteIsSound
<1>1. PumpInv => SlotsTellTheTruth
  BY DEF PumpInv, Slots, Deciding, Running, SlotsTellTheTruth
<1>2. PumpInv => StopsOnlyWhenBroken(sup = "running")
  BY DEF PumpInv, Stops, StopsOnlyWhenBroken
<1>3. PumpInv => EofMeansAll
  BY DEF PumpInv, Streams, Ends, EofMeansAll, On, Vanished
<1> QED
  BY <1>1, <1>2, <1>3, PumpInductive, PTL DEF RouteIsSound
=============================================================================
