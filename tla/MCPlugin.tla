------------------------------- MODULE MCPlugin -------------------------------
EXTENDS Plugin, TLC

MCCalls == {"c1", "c2"}
MCGateway == "gateway"
MCProcs == {"c1 pre", "c1 post", "c2 pre", "c2 post", MCGateway}
MCProcOf == [c \in MCCalls |->
    IF c = "c1" THEN ("pre" :> "c1 pre") @@ ("post" :> "c1 post")
    ELSE ("pre" :> "c2 pre") @@ ("post" :> "c2 post")]
MCSecrets == {"key"}
MCLonger == [p \in Prefixes |-> CASE p = "id_ed25519" -> {"id_ed25519_old"}
                                  [] p = "credentials" -> {"credentials2"} [] OTHER -> {}]
MCPii == ("rrn" :> 3) @@ ("mail" :> 2) @@ ("ip" :> 1)

-----------------------------------------------------------------------------
(* What a process may find.                                                 *)

File(bytes, loose, readable, writable, owned, stats) ==
    [exists |-> TRUE, bytes |-> bytes, loose |-> loose, readable |-> readable,
     writable |-> writable, owned |-> owned, stats |-> stats]
NoFile == [Fresh(NoProc) EXCEPT !.exists = FALSE, !.bytes = Short]
Good == Fresh(NoProc)

World(file0, disk, sink) == [file |-> file0, disk |-> disk, sink |-> sink]
Calm == {World(Good, "works", "works")}
Rough ==
    {World(f, "works", s) :
        s \in {"works", "none", "flaky", "refuses"},
        f \in {NoFile, Good, Fresh(Short), File(NoProc, TRUE, TRUE, TRUE, TRUE, TRUE),
               File(NoProc, TRUE, TRUE, TRUE, FALSE, TRUE),
               File(NoProc, TRUE, TRUE, TRUE, TRUE, FALSE),
               File(NoProc, FALSE, FALSE, TRUE, TRUE, TRUE),
               File(NoProc, TRUE, FALSE, TRUE, FALSE, TRUE),
               File(NoProc, FALSE, FALSE, FALSE, TRUE, TRUE)}}
      \cup {World(f, d, "flaky") : d \in {"noDir", "full", "noLinks"},
              f \in {NoFile, Fresh(Short), File(NoProc, FALSE, FALSE, TRUE, TRUE, TRUE)}}

-----------------------------------------------------------------------------
(* What is called.                                                          *)

Text(surfaces) == Leaf(Str(surfaces, {}))
Other == Leaf([is |-> "other"])
Around(is, parts) ==
    [q \in {<<>>} \cup UNION {{<<k>> \o p : p \in DOMAIN parts[k]} : k \in DOMAIN parts} |->
        IF q = <<>> THEN [is |-> is] ELSE parts[q[1]][Tail(q)]]
Fields(parts) == Around("object", parts)
Items(items) == Around("list", [k \in {ToString(i) : i \in DOMAIN items} |->
                                    items[CHOOSE i \in DOMAIN items : ToString(i) = k]])

Key   == Text({"key"})
Mail  == Text({"mail"})
Ip    == Text({"ip"})
Rrn   == Text({"rrn"})
Plain == Text({})

Path(parts) == [absolute |-> TRUE, parts |-> parts]
Relative(parts) == [absolute |-> FALSE, parts |-> parts]
Notes    == Path(<< <<"notes", "md">> >>)
DotEnv   == Path(<< <<"", "env", "local">> >>)
Example  == Path(<< <<"", "env", "example">> >>)
Aws      == Path(<< <<"", "aws">>, <<"credentials">> >>)
Renamed  == Path(<< <<"id_ed25519_old", "bak">> >>)
AwsSpare == Path(<< <<"", "aws">>, <<"credentials2">> >>)
Public   == Path(<< <<"id_rsa", "pub">> >>)
Alias    == Path(<< <<"todo">> >>)
Dangling == Path(<< <<"gone">> >>)
New      == Relative(<< <<"new">> >>)
MCFiles == (Notes :> [is |-> "file"]) @@ (DotEnv :> [is |-> "file"]) @@ (Example :> [is |-> "file"])
             @@ (Aws :> [is |-> "absent"]) @@ (Public :> [is |-> "file"])
             @@ (Renamed :> [is |-> "file"]) @@ (AwsSpare :> [is |-> "file"])
             @@ (Alias :> [is |-> "link", to |-> Aws])
             @@ (Dangling :> [is |-> "dangling"]) @@ (New :> [is |-> "absent"])

Tool(tool, path, result) ==
    [kind |-> "tool", tool |-> tool, path |-> path, result |-> result, scannable |-> TRUE,
     isError |-> FALSE]
Prompt(text) == [Tool(Absent, NoPath, text) EXCEPT !.kind = "prompt"]
Command(text) == [Tool(Absent, NoPath, text) EXCEPT !.kind = "command"]
Image == [Tool("Read", Notes, Other) EXCEPT !.scannable = FALSE]
Failed(fields) == [Tool("Bash", NoPath, Fields(fields)) EXCEPT !.scannable = FALSE, !.isError = TRUE]

Nested == Fields(("out" :> Items(<<Key, Mail>>)) @@ ("code" :> Other))
Deep == Fields("out" :> Items(<<Items(<<Items(<<Key>>)>>)>>))
Errored == {Failed(("text" :> Key) @@ ("result" :> Mail)), Failed("result" :> Key), Failed("text" :> Ip),
            Failed(("text" :> Key) @@ ("result" :> Nested)), Failed(("text" :> Ip) @@ ("result" :> Nested)),
            Failed("result" :> Nested)}
Odd == {Tool("Read", p, Key) : p \in {Notes, DotEnv, Example, Aws, AwsSpare, Public, Renamed, Alias, Dangling, New}}
         \cup {Tool(t, NoPath, r) : t \in {"Bash", "WebFetch"}, r \in {Nested, Deep, Key, Ip, Other}}
         \cup {Prompt(Key), Prompt(Ip), Command(Rrn), Command(Mail), Image} \cup Errored
Idler == Tool("Grep", NoPath, Key)

-----------------------------------------------------------------------------
(* Replies of something else than honmoon's engine, or than its answer.      *)

Strange ==
    {Status, Empty, [Empty EXCEPT !.body = "empty"], Of([Noop EXCEPT !.foreign = TRUE], {}),
     Of([Noop EXCEPT !.event = "PreToolUse", !.permission = "deny"], {}),
     Of([Noop EXCEPT !.event = "PreToolUse", !.permission = "allow"], {}),
     Of([Noop EXCEPT !.event = "PostToolUse"], {}),
     Of([Noop EXCEPT !.event = "PostToolUse", !.updated = Null], {}),
     Of([Noop EXCEPT !.event = "PostToolUse", !.updated = Items(<<Plain>>)], {}),
     Of([Noop EXCEPT !.decision = "approve"], {}), Of([Noop EXCEPT !.decision = "block"], {})}
       \cup {[Empty EXCEPT !.body = "garbled"]}

Situation(transport, closed, error, one, two, faults, silent, worlds) ==
    [transport |-> transport, failClosed |-> closed, error |-> error, pinned |-> Absent,
     files |-> MCFiles, calls |-> ("c1" :> one) @@ ("c2" :> two), faults |-> faults,
     silent |-> silent, worlds |-> worlds]

\* One odd call against strange replies; and two plain ones that meet at the salt.
MCSituations ==
    {Situation(t, f, FALSE, c, Image, Strange, FALSE, Calm) :
        t \in {"process", "http"}, f \in {TRUE, FALSE}, c \in Odd}
      \cup {Situation("process", TRUE, e, Tool("Read", Alias, Key), Image, {}, TRUE, Calm) :
               e \in {TRUE, FALSE}}
      \cup {Situation("process", TRUE, FALSE, Prompt(Key), Idler, {}, FALSE, Rough)}
      \cup {Situation("http", TRUE, FALSE, Prompt(Key), Command(Rrn), {}, FALSE, Rough)}
MCWorlds == Rough

\* Two hooks that find one file too short to hold a key.
Recovering == {Situation("process", TRUE, FALSE, Prompt(Key), Idler, {}, FALSE,
                         {World(Fresh(Short), "works", "works")})}
=============================================================================
