----------------------------- MODULE MCControl ------------------------------
EXTENDS Control

\* An absolute path /log/audit through a root-owned link, a directory every
\* user writes (tmp), one of another user's (theirs), and the gateway's own.
Dir(d) == [kind |-> "directory", to |-> d]
Link(absolute, target) == [kind |-> "link", absolute |-> absolute, target |-> target]
File(owner, exposed, links) ==
    [kind |-> "file", owner |-> owner, exposed |-> exposed, links |-> links]

MCDirectories == {"root", "log", "tmp", "etc", "home", "bait"}
MCOwner == [d \in MCDirectories |-> CASE d \in {"root", "log", "tmp", "etc"} -> "root"
                                      [] d = "home" -> "self" [] OTHER -> "other"]
MCParentOf == [d \in MCDirectories |-> "root"]

Plain == [root |-> "var" :> Link(FALSE, <<"log">>) @@ "log" :> Dir("log")
                    @@ "tmp" :> Dir("tmp") @@ "etc" :> Dir("etc") @@ "home" :> Dir("home")
                    @@ "bait" :> Dir("bait"),
          log  |-> "current" :> Link(TRUE, <<"home">>) @@ "audit" :> File("self", FALSE, 1),
          tmp  |-> "run" :> Dir("home"),
          etc  |-> "loop" :> Link(FALSE, <<"loop">>) @@ "run" :> Link(FALSE, <<"..", "log">>),
          home |-> "x" :> [kind |-> "fifo"],
          bait |-> "audit" :> File("other", TRUE, 1)]
Readable == [Plain EXCEPT !["log"] = "audit" :> File("self", TRUE, 1)]
Exposed == [Plain EXCEPT !["log"] = "audit" :> File("other", TRUE, 2)]

At(name, entry) == [name |-> name, entry |-> entry]
MCPlaced == [d \in MCDirectories |->
    CASE d \in {"tmp", "etc"} -> {At("run", Link(TRUE, <<"home">>)), At("run", [kind |-> "none"]),
                                  At("run", Dir("home")), At("audit", File("other", TRUE, 1)),
                                  At("audit", Link(TRUE, <<"bait", "audit">>)), At("run", Link(TRUE, <<"bait">>)),
                                  At("run", Link(TRUE, <<"tmp", "nest">>)),
                                  At("nest", Dir("home"))}
      [] OTHER -> {}]

Path(absolute, walked, final) == [absolute |-> absolute, walked |-> walked, final |-> final]
MCPaths == {Path(TRUE, <<"var">>, "audit"), Path(TRUE, <<"tmp", "run">>, "audit"),
            Path(TRUE, <<"etc", "run">>, "audit"), Path(TRUE, <<"log", "current">>, "audit"),
            Path(TRUE, <<"etc", "loop">>, "audit"), Path(FALSE, <<"..", "tmp">>, "audit"),
            Path(FALSE, <<>>, "x"), Path(TRUE, <<"tmp">>, ".")}

Acl(of) == [d \in MCDirectories |-> IF d = "etc" THEN of ELSE "none"]
Quiet == [trees |-> {Plain}, paths |-> {Path(TRUE, <<"var">>, "audit")}, swaps |-> 0,
          platform |-> "macos", acl |-> Acl("none"),
          events |-> 0, ticks |-> 0, turns |-> 0, faults |-> 0, intercept |-> FALSE, lone |-> FALSE,
          starts |-> 1, opens |-> FALSE]
Starting == [Quiet EXCEPT !.trees = {Plain, Exposed}, !.paths = MCPaths, !.swaps = 2, !.starts = 1,
                          !.acl = Acl("grants")]
\* The ways through /etc, which others write if its ACL lets them, on every platform.
Granting == {[Starting EXCEPT !.trees = {Plain}, !.swaps = 1, !.platform = p, !.acl = Acl(a),
                              !.paths = {Path(TRUE, <<"var">>, "audit"), Path(TRUE, <<"etc", "run">>, "audit")}] :
                p \in {"macos", "linux", "other"}, a \in {"none", "denies", "grants"}}
Restarting == [Quiet EXCEPT !.intercept = TRUE, !.starts = 3]
LoneCert == [Restarting EXCEPT !.lone = TRUE]
Recording == [Quiet EXCEPT !.events = 3, !.ticks = 1, !.faults = 1]
Turning == [Quiet EXCEPT !.events = 2, !.ticks = 1, !.turns = 1]
Failing == [Quiet EXCEPT !.events = 2, !.faults = 2]
Paging == [Quiet EXCEPT !.opens = TRUE]
Reusing == [Quiet EXCEPT !.trees = {Readable}, !.starts = 2, !.events = 2, !.ticks = 1]
\* A sink that observes two things and refuses to take some of them.
Unwritable == [Quiet EXCEPT !.trees = {Exposed}, !.events = 1, !.faults = 1]
MCWorkloads == {Starting, Restarting, LoneCert, Recording, Turning, Failing, Unwritable, Reusing, Paging} \union Granting

MCFragments == {[shape |-> "hex64", secret |-> "session"], [shape |-> "hex64", secret |-> "stale"],
                [shape |-> "other"]}
=============================================================================
