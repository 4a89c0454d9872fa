----------------------------- MODULE AuditSink ------------------------------
(***************************************************************************)
(* The walk by which the audit log opens its file (`open_sink`).  The      *)
(* configured path is resolved one component at a time with `openat`, each *)
(* directory refusing to be a symlink and pinned by the descriptor the     *)
(* next step resolves against.  Between any two system calls another user  *)
(* of the host may change the entries of a directory that user can write.  *)
(***************************************************************************)
EXTENDS Naturals, Sequences, FiniteSets

CONSTANTS
    Directories,      \* the directories of the host, by inode
    Root, Cwd,        \* where an absolute and a relative walk start
    Owner,            \* Directories -> {"root", "self", "other"}
    Shared,           \* those with a group or other write bit
    Elsewhere,        \* directories only another user's link leads to
    ParentOf,         \* Directories -> Directories
    Placed,           \* Directories -> the entries another user may place there
    MaxSymlinkHops,   \* MAX_SYMLINK_HOPS
    SinkOpenAttempts, \* SINK_OPEN_ATTEMPTS
    Workloads         \* what a behaviour exercises, with its bounds: here
                      \*   trees, what a start may find: [Directories -> [names -> entries]]
                      \*   paths, what --audit-log may name
                      \*   platform, "macos", "linux" or another Unix
                      \*   acl,   the ACL of each directory that its mode does not show:
                      \*          "none", one that "denies", one that "grants" others to write
                      \*   swaps, bound: how many entries another user changes

IsEntry(e) ==
    /\ e.kind = "directory" => e.to \in Directories
    /\ e.kind = "link" => e.target \in Seq(STRING)

ASSUME HostAssumption ==
    /\ Root \in Directories /\ Cwd \in Directories
    /\ ParentOf \in [Directories -> Directories]
    /\ MaxSymlinkHops \in Nat
    /\ \A d \in Directories : \A new \in Placed[d] : IsEntry(new.entry)
    /\ \A w \in Workloads :
        /\ \A t \in w.trees : /\ DOMAIN t = Directories
                              /\ \A d \in Directories : \A n \in DOMAIN t[d] : IsEntry(t[d][n])
        /\ \A p \in w.paths : p.walked \in Seq(STRING)

(* What Elsewhere means: it is neither where a walk starts nor above any   *)
(* directory outside it, and no configured path, no link that stands at    *)
(* the start and no directory another user makes leads there.              *)
ASSUME ElsewhereIsApart ==
    /\ Root \notin Elsewhere /\ Cwd \notin Elsewhere
    /\ \A d \in Directories \ Elsewhere : ParentOf[d] \notin Elsewhere
ASSUME ElsewhereIsNamedByOthersOnly ==
    \A w \in Workloads : \A t \in w.trees :
        LET Leads(n) == \E d \in Directories : n \in DOMAIN t[d]
                            /\ t[d][n].kind = "directory" /\ t[d][n].to \in Elsewhere IN
        /\ \A p \in w.paths : \A i \in DOMAIN p.walked : ~Leads(p.walked[i])
        /\ \A d \in Directories : \A n \in DOMAIN t[d] :
            t[d][n].kind = "link" =>
                \A i \in DOMAIN t[d][n].target : ~Leads(t[d][n].target[i])
        /\ \A d \in Directories : \A new \in Placed[d] :
            new.entry.kind = "directory" => new.entry.to \notin Elsewhere

VARIABLES load,    \* the workload
          tree,    \* the directories' entries now
          path,    \* the configured path: [absolute, walked, final]
          walk,    \* [at, pending, hops, attempts, next]: next system call or outcome; and
             \* blind, history: was a link followed whose directory showed too little
          sink,    \* the object the log holds open, or NoSink
          swaps

sinkVars == <<load, tree, path, walk, sink, swaps>>

NoSink == [kind |-> "none"]
NoEntry == [kind |-> "none"]
MadeByLog == [kind |-> "file", owner |-> "self", exposed |-> FALSE, links |-> 1]

\* As if only the owner was asked, and no write bit or ACL.
TrustedByOwner(d) == Owner[d] \in {"root", "self"}

(* macOS tells whether there is one and not what it says; on Linux the     *)
(* mode is taken to say it all; elsewhere nothing is known.                *)
CarriesAnExtendedAcl(d) ==
    \/ load.platform = "macos" /\ load.acl[d] # "none"
    \/ load.platform \notin {"macos", "linux"}

(* Only root or this process's own user can write the directory, as far as *)
(* the mode shows it, and no ACL is seen to say more than the mode.        *)
Trusted(d) == Owner[d] \in {"root", "self"} /\ d \notin Shared /\ ~CarriesAnExtendedAcl(d)

(* What another user can really write.                                     *)
WritableByOthers(d) == Owner[d] = "other" \/ d \in Shared \/ load.acl[d] = "grants"

(* An ACL without a mask, which a Linux host may mount (issue #215).       *)
Unseen(d) == load.platform = "linux" /\ load.acl[d] = "grants"

Placing(entries, n, e) == [m \in DOMAIN entries \union {n} |-> IF m = n THEN e ELSE entries[m]]

Lookup(d, n) == IF n = ".." THEN [kind |-> "directory", to |-> ParentOf[d]]
                ELSE IF n \in DOMAIN tree[d] THEN tree[d][n] ELSE NoEntry

WalkRoot(absolute) == IF absolute THEN Root ELSE Cwd

(* `components()` drops "." and empty segments, so whether the path names  *)
(* a directory is asked of its bytes after the last separator.             *)
Unusable(p) == p.final \in {"", ".", ".."}

WalkFrom(p) ==
    [at |-> WalkRoot(p.absolute), pending |-> p.walked, hops |-> 0,
     attempts |-> 0, next |-> IF Unusable(p) THEN "refused" ELSE "open", blind |-> FALSE]

SinkInit ==
    /\ load \in Workloads
    /\ tree \in load.trees
    /\ path \in load.paths
    /\ walk = WalkFrom(path)
    /\ sink = NoSink
    /\ swaps = 0

Name == Head(walk.pending)
Walking == walk.next \notin {"refused", "opened"}
Refuse == walk' = [walk EXCEPT !.next = "refused"]

(* openat(O_DIRECTORY | O_NOFOLLOW), again with O_TRAVERSE on EACCES.      *)
OpenDirectory ==
    /\ walk.next = "open" /\ walk.pending # <<>>
    /\ LET e == Lookup(walk.at, Name) IN
        IF e.kind = "directory"
        THEN walk' = [walk EXCEPT !.at = e.to, !.pending = Tail(walk.pending)]
        ELSE walk' = [walk EXCEPT !.next = "classify"]
    /\ UNCHANGED <<load, tree, path, sink, swaps>>

(* fstatat of the refused component: not a symlink hands back the error.   *)
IsSymlinkAt ==
    /\ walk.next = "classify"
    /\ IF Lookup(walk.at, Name).kind = "link" /\ walk.hops < MaxSymlinkHops
       THEN walk' = [walk EXCEPT !.hops = @ + 1, !.next = "trust"]
       ELSE Refuse
    /\ UNCHANGED <<load, tree, path, sink, swaps>>

(* fstat and ACL of the directory holding the link.                        *)
RequireTrustedDirectory ==
    /\ walk.next = "trust"
    /\ IF Trusted(walk.at) THEN walk' = [walk EXCEPT !.next = "read"] ELSE Refuse
    /\ UNCHANGED <<load, tree, path, sink, swaps>>

(* readlinkat, the target's components spliced before the rest.            *)
ReadLinkAt ==
    /\ walk.next = "read"
    /\ LET e == Lookup(walk.at, Name) IN
        IF e.kind = "link"
        THEN walk' = [walk EXCEPT
                !.at = IF e.absolute THEN WalkRoot(TRUE) ELSE @,
                !.pending = e.target \o Tail(@), !.next = "open",
                !.blind = @ \/ Unseen(walk.at)]
        ELSE Refuse
    /\ UNCHANGED <<load, tree, path, sink, swaps>>

(* openat(O_CREAT | O_NOFOLLOW | O_NONBLOCK) of the file itself, then the  *)
(* fstat that accepts a regular file only.                                 *)
OpenLeaf ==
    /\ walk.next = "open" /\ walk.pending = <<>>
    /\ LET e == Lookup(walk.at, path.final) IN
        CASE e.kind = "none" ->
                /\ tree' = [tree EXCEPT ![walk.at] = Placing(@, path.final, MadeByLog)]
                /\ sink' = MadeByLog
                /\ walk' = [walk EXCEPT !.next = "opened"]
          [] e.kind = "file" ->
                /\ sink' = e
                /\ walk' = [walk EXCEPT !.next = "opened"]
                /\ UNCHANGED tree
          [] OTHER -> Refuse /\ UNCHANGED <<tree, sink>>
    /\ UNCHANGED <<load, path, swaps>>

(* The creation lost a race with another and says ENOENT: tried again.     *)
LeafVanishes ==
    /\ walk.next = "open" /\ walk.pending = <<>>
    /\ walk' = [walk EXCEPT !.attempts = @ + 1,
                            !.next = IF walk.attempts + 1 >= SinkOpenAttempts
                                     THEN "refused" ELSE "open"]
    /\ UNCHANGED <<load, tree, path, sink, swaps>>

SinkStep == \/ OpenDirectory \/ IsSymlinkAt \/ RequireTrustedDirectory
            \/ ReadLinkAt \/ OpenLeaf \/ LeafVanishes

(* Another user replaces or removes an entry of a directory they can write. *)
OthersPlace ==
    /\ Walking /\ swaps < load.swaps
    /\ \E d \in {x \in Directories : WritableByOthers(x)} :
        \E new \in Placed[d] :
            tree' = [tree EXCEPT ![d] = Placing(@, new.name, new.entry)]
    /\ swaps' = swaps + 1
    /\ UNCHANGED <<load, path, walk, sink>>

(* What the fstat of the opened sink shows, one degradation record each.   *)
SinkExposure(s) == {r \in {"exposed", "foreign-owner", "hard-linked"} :
    CASE r = "exposed" -> s.exposed
      [] r = "foreign-owner" -> s.owner # "self"
      [] OTHER -> s.links > 1}

-----------------------------------------------------------------------------
(* However entries change under the walk, what the log holds is a regular  *)
(* file, and the log never ends in a directory that only another user's    *)
(* link leads to: a link is followed only where no other user could have   *)
(* put it (open_sink: "the resolution never traverses an untrusted link"), *)
(* but for a directory whose ACL Linux does not read and which lets others *)
(* write (carries_an_extended_acl).                                        *)
SinkStaysPut ==
    walk.next = "opened" => sink.kind = "file" /\ (walk.at \in Elsewhere => walk.blind)
=============================================================================
