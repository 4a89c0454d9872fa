------------------------------ MODULE MCSocks -------------------------------
EXTENDS Socks, TLC

F(kind, size, text, verdict) == [kind |-> kind, size |-> size, text |-> text, verdict |-> verdict]
Start == F("StartupMessage", 1, "none", "none")
Paused(size) == F("Q", size, "one", "pause")

MCStreams ==
    {<<F("SSLRequest", 1, "none", "none"), Start, Paused(2), F("P", 2, "one", "allow"),
       F("S", 1, "none", "none"), Paused(1), F("Q", 2, "one", "allow")>>,
     <<Start, Paused(1), Paused(2), F("H", 2, "none", "none"), F("Q", 1, "multiple", "allow")>>,
     <<Start, F("Q", 4, "one", "allow"), F("P", 1, "do block", "allow"), F("Q", 1, "one", "deny"),
       F("P", 1, "multiple", "allow"), F("X", 1, "none", "none")>>,
     <<F("CancelRequest", 2, "none", "none"), Paused(1)>>,
     <<F("SSLRequest", 2, "none", "none")>>}

Ask(host) == [silent |-> FALSE, version |-> 5, noAuth |-> TRUE, command |-> "connect",
              reserved |-> 0, atyp |-> "domain", utf8 |-> TRUE, host |-> host, port |-> 443]
MCHosts == {"open", "shut", "asks", "cluster", "database", "dark", "down"}
Good == {Ask(h) : h \in MCHosts \ {"database"}}
Bad == {[Ask("open") EXCEPT !.silent = TRUE], [Ask("open") EXCEPT !.version = 4],
        [Ask("open") EXCEPT !.noAuth = FALSE], [Ask("open") EXCEPT !.command = "bind"],
        [Ask("open") EXCEPT !.reserved = 1], [Ask("open") EXCEPT !.atyp = "other"],
        [Ask("open") EXCEPT !.utf8 = FALSE]}
MCTargets == MCHosts \X {443}
MCProtocol == [t \in MCTargets |-> CASE t[1] = "cluster" -> "kubernetes"
                                     [] t[1] = "database" -> "postgres" [] OTHER -> "none"]
MCVerdict == [t \in MCTargets |-> CASE t[1] = "asks" -> "pause" [] t[1] = "shut" -> "deny"
                                    [] OTHER -> "allow"]
MCAnswer == [t \in MCTargets |-> CASE t[1] = "dark" -> "silent" [] t[1] = "down" -> "refuses"
                                   [] OTHER -> "accepts"]

Crowd == [clients |-> {"a", "b", "c"}, requests |-> {Ask("open"), Ask("asks"), Ask("dark")},
          streams |-> {<<Start>>}]
Oddities == [clients |-> {"a", "b"}, requests |-> Good \union Bad, streams |-> {<<Start>>}]
OneSession == [clients |-> {"a"}, requests |-> {Ask("database")}, streams |-> MCStreams]
MCWorkloads == {Crowd, Oddities, OneSession}
=============================================================================
