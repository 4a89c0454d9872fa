----------------------------- MODULE MCIsolation -----------------------------
EXTENDS Isolation

Conversation(greets, asks, answers) == [greets |-> greets, asks |-> asks, answers |-> answers]

\* c1 is greeted, asks and is answered; c2 is only answered; c3 says nothing.
MCTalks == [c \in Conns |-> CASE c = "c1" -> Conversation(TRUE, 1, 1)
                              [] c = "c2" -> Conversation(FALSE, 0, 1)
                              [] OTHER -> Conversation(FALSE, 0, 0)]

Load(platform, v6, taken, faults, leaked, sweep, loses) ==
    [platform |-> platform, v6 |-> v6, taken |-> taken, faults |-> faults,
     leaked |-> leaked, sweep |-> sweep, loses |-> loses,
     talks |-> <<>>, broken |-> FALSE, pressure |-> 0, upsets |-> 0, mishaps |-> 0]

Talking(broken, pressure, upsets, mishaps) ==
    [Load("linux", FALSE, 0, 0, {}, "close_range", FALSE) EXCEPT
        !.talks = MCTalks, !.broken = broken, !.pressure = pressure,
        !.upsets = upsets, !.mishaps = mishaps]

MCWorkloads ==
    {Load("linux", v6, 2, 2, leaked, sweep, FALSE) : v6 \in BOOLEAN,
        leaked \in {{}, {"low", "high"}}, sweep \in {"close_range", "proc", "limit", "none"}}
    \union {Load("macos", v6, 2, 2, {"low", "high"}, "none", FALSE) : v6 \in BOOLEAN}
    \union {Load("other", TRUE, 0, 1, {"low"}, "none", FALSE)}
    \union {Load(platform, TRUE, 0, 1, {}, "close_range", TRUE) : platform \in {"linux", "macos"}}
    \union {Talking(FALSE, 0, 0, 1), Talking(FALSE, 1, 2, 0), Talking(TRUE, 1, 0, 0)}
=============================================================================
