------------------------------ MODULE MachineKey ------------------------------
(***************************************************************************)
(* The machine key every placeholder is derived from: hook.rs.  Each        *)
(* invocation of `honmoon hook` and each gateway is a process that loads    *)
(* the key from ~/.honmoon/hook-salt, or makes it, while others do the      *)
(* same; what a process could not do properly it reports.                   *)
(***************************************************************************)
EXTENDS Integers, Sequences, FiniteSets

CONSTANTS Procs,     \* the processes
          Daemons,   \* those that are gateways: they answer no event of their own
          Worlds,    \* what the first of them may find: file, disk and sink
          NoProc     \* not a process: who made the bytes the file began with

VARIABLES world,     \* disk: what fails; sink: "none", "works", "flaky", "refuses"
          file,      \* ~/.honmoon/hook-salt
          loader,    \* what each process is doing
          status,    \* the MachineKeyStatus it came to
          recorded,  \* the rules of the events the sink took from it
          message,   \* the rules its response carries as systemMessage
          lost       \* history: what each destroyed in the file: "nothing", the "short"
                     \* bytes it had read, bytes "unread", or the "key" another wrote since

keyVars == <<world, file, loader, status, recorded, message, lost>>

\* The bytes of a salt file: empty or short, or as a process or a provisioner wrote them.
Short == "short"
Bytes == {Short, NoProc} \cup Procs
Fresh(p) == [exists |-> TRUE, bytes |-> p, loose |-> FALSE, readable |-> TRUE,
             writable |-> TRUE, owned |-> TRUE, stats |-> TRUE]

\* Where the file may stand when the first process starts, whoever left it there.
SaltFiles == [exists : BOOLEAN, bytes : Bytes, loose : BOOLEAN, readable : BOOLEAN,
              writable : BOOLEAN, owned : BOOLEAN, stats : BOOLEAN]

ASSUME KeyAssumption ==
    /\ Short \notin Procs
    /\ \A w \in Worlds : w.file \in SaltFiles

NoStatus == [source |-> "none", key |-> NoProc, exposure |-> "none", replaced |-> FALSE]
Idle == [at |-> "start", read |-> Short, unread |-> FALSE, found |-> FALSE]

TypeOK ==
    /\ world \in Worlds
    /\ DOMAIN loader = Procs /\ DOMAIN status = Procs
    /\ file.bytes \in Bytes
    /\ \A p \in Procs : status[p].source \in {"none", "persisted", "unpersisted", "fallback"}

KeyInit ==
    /\ world \in Worlds
    /\ file = world.file
    /\ loader = [p \in Procs |-> Idle]
    /\ status = [p \in Procs |-> NoStatus]
    /\ recorded = [p \in Procs |-> {}]
    /\ message = [p \in Procs |-> {}]
    /\ lost = [p \in Procs |-> "nothing"]

-----------------------------------------------------------------------------
(* The three kinds of status, and what each says of the key.                 *)

Persisted(key, exposure, replaced) ==
    [source |-> "persisted", key |-> key, exposure |-> exposure, replaced |-> replaced]
Unpersisted(p) ==
    [source |-> "unpersisted", key |-> p, exposure |-> "none", replaced |-> FALSE]
Fallback(replaced) ==
    [source |-> "fallback", key |-> NoProc, exposure |-> "none", replaced |-> replaced]

At(p, where) == loader[p].at = where
Goto(p, where) == loader' = [loader EXCEPT ![p].at = where]
Becomes(p, s) ==
    /\ status' = [status EXCEPT ![p] = s]
    /\ Goto(p, "report")

KeyKept == UNCHANGED <<world, recorded, message>>

-----------------------------------------------------------------------------
(* Loading: load_or_create_machine_salt.                                    *)

\* A key long enough is taken as it is; of the others one was read and one was not.
ReadSalt(p) ==
    /\ At(p, "start")
    /\ loader' =
         [loader EXCEPT ![p] =
            IF ~file.exists THEN [@ EXCEPT !.at = "publish"]
            ELSE IF ~file.readable THEN [@ EXCEPT !.at = "truncate", !.unread = TRUE]
            ELSE IF file.bytes = Short THEN [@ EXCEPT !.at = "truncate"]
            ELSE [@ EXCEPT !.at = "find", !.read = file.bytes]]
    /\ UNCHANGED <<file, status, lost>> /\ KeyKept

\* random_bytes and create_dir_all come before anything is written.
CreateFails(p) ==
    /\ loader[p].at \in {"publish", "truncate"}
    /\ world.disk = "noDir"
    /\ Becomes(p, Fallback(FALSE))
    /\ UNCHANGED <<file, lost>> /\ KeyKept

-----------------------------------------------------------------------------
(* Publishing a first key: publish_secret_atomically.                       *)

TempFails(p) ==
    /\ At(p, "publish")
    /\ world.disk = "full"
    /\ Becomes(p, Fallback(FALSE))
    /\ UNCHANGED <<file, lost>> /\ KeyKept

\* As if the key were written into place like a replacement.
LinkOverWinner(p) ==
    /\ At(p, "publish")
    /\ world.disk \notin {"noDir", "full"}
    /\ file' = Fresh(p)
    /\ Becomes(p, Persisted(p, "none", FALSE))
    /\ UNCHANGED lost /\ KeyKept

\* The complete temporary file is linked into place, unless a file is there.
Link(p) ==
    /\ At(p, "publish")
    /\ world.disk \notin {"noDir", "full"}
    /\ IF world.disk = "noLinks" /\ ~file.exists
       THEN Becomes(p, Fallback(FALSE)) /\ UNCHANGED file
       ELSE IF file.exists THEN Goto(p, "winner") /\ UNCHANGED <<file, status>>
       ELSE file' = Fresh(p) /\ Becomes(p, Persisted(p, "none", FALSE))
    /\ UNCHANGED lost /\ KeyKept

\* The race is lost: the winner's key, or one's own for this invocation alone.
ReadWinner(p) ==
    /\ At(p, "winner")
    /\ IF file.readable /\ file.bytes # Short
       THEN loader' = [loader EXCEPT ![p].at = "find", ![p].read = file.bytes] /\ UNCHANGED status
       ELSE Becomes(p, Unpersisted(p))
    /\ UNCHANGED <<file, lost>> /\ KeyKept

-----------------------------------------------------------------------------
(* Replacing a file: write_secret_file.                                     *)

Loss(p) == IF loader[p].unread THEN "unread" ELSE IF file.bytes = Short THEN "short" ELSE "key"

\* What was read may have been replaced since, by a process that recovers the same file.
Truncate(p) ==
    /\ At(p, "truncate")
    /\ world.disk # "noDir"
    /\ IF file.exists /\ ~file.writable
       THEN Becomes(p, Fallback(FALSE)) /\ UNCHANGED <<file, lost>>
       ELSE /\ file' = [file EXCEPT !.bytes = Short]
            /\ lost' = [lost EXCEPT ![p] = Loss(p)]
            /\ Goto(p, "tighten")
            /\ UNCHANGED status
    /\ KeyKept

\* restrict_to_owner_only, between the open and the write: the mode is not looked at first.
Tightened == [file EXCEPT !.loose = @ /\ ~file.owned, !.readable = @ \/ file.owned]
Tighten(p) ==
    /\ At(p, "tighten")
    /\ file' = Tightened
    /\ loader' = [loader EXCEPT ![p].at = "write", ![p].found = file.stats /\ Tightened.loose]
    /\ UNCHANGED <<status, lost>> /\ KeyKept

WriteSalt(p) ==
    /\ At(p, "write")
    /\ IF world.disk = "full"
       THEN Becomes(p, Fallback(loader[p].unread)) /\ UNCHANGED file
       ELSE /\ file' = [file EXCEPT !.bytes = p]
            /\ Becomes(p, Persisted(p, IF loader[p].found THEN "open" ELSE "none",
                                    loader[p].unread))
    /\ UNCHANGED lost /\ KeyKept

-----------------------------------------------------------------------------
(* Adopting a file: restrict_to_owner_only(FromFile), found_exposure.       *)

\* As if the mode were first looked at once it had been corrected.
FindModeLate(p) ==
    /\ At(p, "find")
    /\ loader' = [loader EXCEPT ![p].at = "restrict", ![p].found = FALSE]
    /\ UNCHANGED <<file, status, lost>> /\ KeyKept

FindMode(p) ==
    /\ At(p, "find")
    /\ loader' = [loader EXCEPT ![p].at = "restrict", ![p].found = file.stats /\ file.loose]
    /\ UNCHANGED <<file, status, lost>> /\ KeyKept

Restrict(p) ==
    /\ At(p, "restrict")
    /\ file' = Tightened
    /\ Becomes(p, Persisted(loader[p].read,
                            IF file.stats /\ Tightened.loose THEN "open"
                            ELSE IF loader[p].found THEN "closed" ELSE "none", FALSE))
    /\ UNCHANGED lost /\ KeyKept

-----------------------------------------------------------------------------
(* Reporting: degradations, audit_machine_key_status.                       *)

Degradations(s) ==
    (CASE s.source \in {"unpersisted", "fallback"} -> {"hook-salt-fallback"}
       [] s.source = "persisted" /\ s.exposure = "open" -> {"hook-salt-exposed"}
       [] s.source = "persisted" /\ s.exposure = "closed" -> {"hook-salt-was-exposed"}
       [] OTHER -> {})
      \cup (IF s.replaced THEN {"hook-salt-replaced-unread"} ELSE {})

\* What a sink takes of the events it is asked to record, each on its own.
Taken(owed) == CASE world.sink = "works" -> {owed}
                 [] world.sink = "flaky" -> SUBSET owed
                 [] OTHER -> {{}}

\* The rules a response carries, given those the sink took: the ones it refused.
MessageOf(p, owed, taken) ==
    IF world.sink = "none" \/ p \in Daemons THEN {} ELSE owed \ taken

Report(p) ==
    /\ At(p, "report")
    /\ \E taken \in Taken(Degradations(status[p])) :
          /\ recorded' = [recorded EXCEPT ![p] = taken]
          /\ message' = [message EXCEPT ![p] = MessageOf(p, Degradations(status[p]), taken)]
    /\ Goto(p, "keyed")
    /\ UNCHANGED <<world, file, status, lost>>

Load(p) ==
    \/ ReadSalt(p) \/ CreateFails(p) \/ TempFails(p) \/ Link(p) \/ ReadWinner(p)
    \/ Truncate(p) \/ Tighten(p) \/ WriteSalt(p)
    \/ FindMode(p) \/ Restrict(p) \/ Report(p)

-----------------------------------------------------------------------------
(* What the loader promises.                                                *)

Keyed(p) == loader[p].at = "keyed"
Told(p) == recorded[p] \cup message[p]

\* Invocations that start together on a machine with no key, or with one to adopt, derive
\* their placeholders from one key, the key the file holds, whichever of them made it: only
\* replacing a file nobody can use may set two of them apart.
OneMachineKey ==
    (world.file.exists => world.file.readable /\ world.file.bytes # Short) =>
        \A p \in Procs : status[p].source = "persisted" => status[p].key = file.bytes

\* Nothing a process knows to weaken redaction goes unsaid: the event or the message of a
\* hook tells of a key that is not the machine's, of bytes it destroyed because it could not
\* read them, and of the loose mode it found or left, and of no loss that did not happen.
DegradationLeavesTrace ==
    \A p \in Procs \ Daemons : Keyed(p) /\ world.sink # "none" =>
        /\ "hook-salt-replaced-unread" \in Told(p) <=> lost[p] = "unread"
        /\ status[p].source # "persisted" <=> "hook-salt-fallback" \in Told(p)

\* What no process can know: that the key it calls persisted is no longer the file's.  It
\* takes two processes that both replace an unusable file, the second over the key of the
\* first, which hook.rs calls negligible.
TwoReplace == \E p, q \in Procs : p # q /\ lost[p] # "nothing" /\ lost[q] # "nothing"
StaleKeyTakesTwo ==
    \A p \in Procs : status[p].source = "persisted" /\ status[p].key # file.bytes => TwoReplace

\* A key others could read is told of by somebody: once the processes that began have
\* their keys from a file that was loose, one of them says so, although the first corrects the mode that
\* the others then see.
ExposureIsTold ==
    /\ world.file.exists /\ world.file.loose /\ world.file.stats /\ world.sink # "none"
    /\ world.file.readable /\ world.file.bytes # Short
    /\ \A p \in Procs : loader[p].at \in {"start", "keyed"}
    /\ \E p \in Procs : Keyed(p)
    /\ \A p \in Daemons : loader[p].at = "start"
    => \E p \in Procs :
          Told(p) \cap {"hook-salt-exposed", "hook-salt-was-exposed"} # {}

\* Whatever is weaker than it looks is told to somebody, and what goes untold takes two
\* recoveries of one file beside each other.
WeaknessIsTold == DegradationLeavesTrace /\ StaleKeyTakesTwo /\ ExposureIsTold

\* A key its process calls persisted is read back by every other process, once nobody is
\* loading one: what LoadedSalt::persisted says of it.
PersistedIsReadBack ==
    (\A p \in Procs : loader[p].at \in {"start", "keyed"})
        => \A p \in Procs : status[p].source = "persisted" => status[p].key = file.bytes
=============================================================================
