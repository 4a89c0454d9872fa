---------------------------- MODULE ControlProofs ----------------------------
(***************************************************************************)
(* What the gateway's start and its control surface guarantee on any host,  *)
(* for any path, tree and meddling by other users, any number of starts, of *)
(* threads that record, of approvals and of polls.  The audit log's walk,   *)
(* its writers, the start's files and the dashboard's page share no         *)
(* variable that more than one of them changes but the log's own, so each   *)
(* has an inductive invariant of its own.                                   *)
(***************************************************************************)
EXTENDS Control, FiniteSetTheorems, TLAPS

-----------------------------------------------------------------------------
(* The walk that opens the log's file.                                      *)

Leads(t, n) ==
    \E d \in Directories : /\ n \in DOMAIN t[d] /\ t[d][n].kind = "directory"
                           /\ t[d][n].to \in Elsewhere

WalkTyped ==
    walk \in [at : Directories, pending : Seq(STRING), hops : 0 .. MaxSymlinkHops,
              attempts : Nat,
              next : {"open", "classify", "trust", "read", "opened", "refused"}, blind : BOOLEAN]

TreeTyped ==
    /\ DOMAIN tree = Directories
    /\ \A d \in Directories : \A n \in DOMAIN tree[d] : IsEntry(tree[d][n])

(* Whatever has changed since the walk's tree t was found, nothing the walk *)
(* may still follow leads to Elsewhere: no entry that t did not have does,  *)
(* no link does but one in a directory another user can write, and, until a *)
(* link was followed blindly, no name that is left to resolve does.         *)
OutOfReach(t) ==
    /\ \A d \in Directories : \A n \in DOMAIN tree[d] :
            tree[d][n].kind = "directory" /\ tree[d][n].to \in Elsewhere => Leads(t, n)
    /\ ~walk.blind => \A i \in DOMAIN walk.pending : ~Leads(t, walk.pending[i])
    /\ \A d \in Directories : ~WritableByOthers(d) =>
            \A n \in DOMAIN tree[d] : tree[d][n].kind = "link" =>
                \A i \in DOMAIN tree[d][n].target : ~Leads(t, tree[d][n].target[i])

SinkInv ==
    /\ load \in Workloads /\ path \in load.paths
    /\ WalkTyped /\ TreeTyped
    /\ walk.at \in Elsewhere => walk.blind
    /\ walk.next \in {"classify", "trust", "read"} => walk.pending # <<>>
    /\ walk.next = "read" => Trusted(walk.at)
    /\ walk.next = "opened" => sink.kind = "file"
    /\ \E t \in load.trees : OutOfReach(t)

(* What is left of a path once its first component is resolved.             *)
LEMMA TailIs ==
    ASSUME NEW S, NEW q \in Seq(S), q # <<>>
    PROVE  /\ Tail(q) \in Seq(S) /\ q[1] = Head(q) /\ 1 \in DOMAIN q
           /\ \A i \in DOMAIN Tail(q) : i + 1 \in DOMAIN q /\ Tail(q)[i] = q[i + 1]
OBVIOUS

(* A component looked up in a directory that is not Elsewhere leads to one   *)
(* that is not, if no entry of t by its name did.                           *)
LEMMA LooksUp ==
    ASSUME TreeTyped, NEW t, OutOfReach(t), NEW d \in Directories, NEW n,
           Lookup(d, n).kind = "directory"
    PROVE  /\ Lookup(d, n).to \in Directories
           /\ d \notin Elsewhere /\ ~Leads(t, n) => Lookup(d, n).to \notin Elsewhere
<1>1. CASE n = ".."
  <2>1. Lookup(d, n).to = ParentOf[d]
    BY <1>1 DEF Lookup
  <2> QED
    BY <2>1, HostAssumption, ElsewhereIsApart
<1>2. CASE n # ".." /\ n \in DOMAIN tree[d]
  <2>1. Lookup(d, n) = tree[d][n] /\ IsEntry(tree[d][n])
    BY <1>2 DEF Lookup, TreeTyped
  <2> QED
    BY <1>2, <2>1 DEF OutOfReach, IsEntry
<1>3. CASE n # ".." /\ n \notin DOMAIN tree[d]
  BY <1>3 DEF Lookup, NoEntry
<1> QED
  BY <1>1, <1>2, <1>3

(* A trusted directory is one no other user can write, unless what grants it *)
(* is what Linux does not see.                                              *)
LEMMA TrustedIsOurs ==
    ASSUME NEW d, Trusted(d), ~Unseen(d)
    PROVE  ~WritableByOthers(d)
<1>1. ~CarriesAnExtendedAcl(d) /\ Owner[d] \in {"root", "self"} /\ d \notin Shared
  BY DEF Trusted
<1>2. load.acl[d] # "grants"
  BY <1>1 DEF CarriesAnExtendedAcl, Unseen
<1> QED
  BY <1>1, <1>2 DEF WritableByOthers

(* Who may write a directory does not change while the log is opened.        *)
LEMMA HostStays ==
    ASSUME UNCHANGED load
    PROVE  \A d : Trusted(d)' = Trusted(d) /\ WritableByOthers(d)' = WritableByOthers(d)
BY DEF Trusted, CarriesAnExtendedAcl, WritableByOthers

(* A walk begins at the root or in the working directory, and no link passed.*)
LEMMA SinkInitHolds ==
    ASSUME SinkInit
    PROVE  SinkInv
<1>1. load \in Workloads /\ path \in load.paths /\ tree \in load.trees /\ walk = WalkFrom(path)
  BY DEF SinkInit
<1>2. TreeTyped
  BY <1>1, HostAssumption DEF TreeTyped
<1>3. path.walked \in Seq(STRING)
  BY <1>1, HostAssumption
<1>4. WalkTyped /\ walk.at \notin Elsewhere /\ walk.pending = path.walked
      /\ walk.next \in {"open", "refused"}
  BY <1>1, <1>3, HostAssumption, ElsewhereIsApart DEF WalkTyped, WalkFrom, WalkRoot
<1>5. OutOfReach(tree)
  <2>1. /\ \A i \in DOMAIN path.walked : ~Leads(tree, path.walked[i])
        /\ \A d \in Directories : \A n \in DOMAIN tree[d] :
            tree[d][n].kind = "link" =>
                \A i \in DOMAIN tree[d][n].target : ~Leads(tree, tree[d][n].target[i])
    BY <1>1, ElsewhereIsNamedByOthersOnly DEF Leads
  <2>2. \A d \in Directories : \A n \in DOMAIN tree[d] :
            tree[d][n].kind = "directory" /\ tree[d][n].to \in Elsewhere => Leads(tree, n)
    BY DEF Leads
  <2> QED
    BY <2>1, <2>2, <1>4 DEF OutOfReach
<1> QED
  BY <1>1, <1>2, <1>4, <1>5 DEF SinkInv

(* An opened component is one of the path or of a link that was trusted.     *)
LEMMA OpenDirectoryKeeps ==
    ASSUME SinkInv, OpenDirectory
    PROVE  SinkInv'
<1> DEFINE e == Lookup(walk.at, Name)
<1>1. PICK t \in load.trees : OutOfReach(t)
  BY DEF SinkInv
<1>2. walk.at \in Directories /\ (walk.at \in Elsewhere => walk.blind) /\ walk.pending \in Seq(STRING)
      /\ walk.pending # <<>> /\ walk.next = "open" /\ TreeTyped
  BY DEF SinkInv, OpenDirectory, WalkTyped
<1>3. Name = walk.pending[1] /\ 1 \in DOMAIN walk.pending
  BY <1>2, TailIs DEF Name
<1>4. walk.blind \/ ~Leads(t, Name)
  BY <1>1, <1>3 DEF OutOfReach
<1>5. UNCHANGED <<load, tree, path, sink>>
  BY DEF OpenDirectory
<1>6. CASE e.kind = "directory"
  <2>1. e.to \in Directories /\ (e.to \in Elsewhere => walk.blind)
    BY <1>1, <1>2, <1>4, <1>6, LooksUp
  <2>2. walk' = [walk EXCEPT !.at = e.to, !.pending = Tail(walk.pending)]
    BY <1>6 DEF OpenDirectory
  <2> HIDE DEF e
  <2>3. Tail(walk.pending) \in Seq(STRING)
        /\ \A i \in DOMAIN Tail(walk.pending) : /\ i + 1 \in DOMAIN walk.pending
                                                /\ Tail(walk.pending)[i] = walk.pending[i + 1]
    BY <1>2, TailIs
  <2>4. /\ WalkTyped' /\ walk'.at = e.to /\ walk'.pending = Tail(walk.pending)
        /\ walk'.next = "open" /\ walk'.blind = walk.blind
    BY <1>2, <2>1, <2>2, <2>3 DEF SinkInv, WalkTyped
  <2>5. OutOfReach(t)'
    <3>1. ~walk'.blind => \A i \in DOMAIN walk'.pending : ~Leads(t, walk'.pending[i])
      BY <1>1, <2>3, <2>4 DEF OutOfReach
    <3> QED
      BY <1>1, <1>5, <3>1, HostStays DEF OutOfReach
  <2> QED
    BY <1>5, <2>1, <2>4, <2>5 DEF SinkInv, TreeTyped
<1>7. CASE e.kind # "directory"
  <2>1. walk' = [walk EXCEPT !.next = "classify"]
    BY <1>7 DEF OpenDirectory
  <2>2. WalkTyped' /\ walk'.at = walk.at /\ walk'.pending = walk.pending
        /\ walk'.next = "classify" /\ walk'.blind = walk.blind
    BY <2>1 DEF SinkInv, WalkTyped
  <2>3. OutOfReach(t)'
    BY <1>1, <1>5, <2>2, HostStays DEF OutOfReach
  <2> QED
    BY <1>2, <1>5, <2>2, <2>3 DEF SinkInv, TreeTyped
<1> QED
  BY <1>6, <1>7

(* A step that leaves the tree alone, and of the walk only how it goes on.   *)
LEMMA OnlyNextChanges ==
    ASSUME SinkInv, UNCHANGED <<load, tree, path, sink>>, WalkTyped',
           walk'.at = walk.at, walk'.pending = walk.pending, walk'.blind = walk.blind,
           walk'.next \in {"classify", "trust", "read"} => walk.pending # <<>>,
           walk'.next = "read" => Trusted(walk.at), walk'.next # "opened"
    PROVE  SinkInv'
<1>1. PICK t \in load.trees : OutOfReach(t)
  BY DEF SinkInv
<1>2. OutOfReach(t)'
  BY <1>1, HostStays DEF OutOfReach
<1> QED
  BY <1>2, HostStays DEF SinkInv, TreeTyped

(* A link that is followed was no name in a directory of others.             *)
LEMMA IsSymlinkAtKeeps ==
    ASSUME SinkInv, IsSymlinkAt
    PROVE  SinkInv'
<1>1. walk.pending # <<>> /\ WalkTyped
  BY DEF SinkInv, IsSymlinkAt
<1>2. /\ UNCHANGED <<load, tree, path, sink>>
      /\ \/ /\ walk.hops < MaxSymlinkHops
            /\ walk' = [walk EXCEPT !.hops = walk.hops + 1, !.next = "trust"]
         \/ walk' = [walk EXCEPT !.next = "refused"]
  BY DEF IsSymlinkAt, Refuse
<1>3. WalkTyped' /\ walk'.at = walk.at /\ walk'.pending = walk.pending
      /\ walk'.next \in {"trust", "refused"} /\ walk'.blind = walk.blind
  <2>1. walk.hops < MaxSymlinkHops => walk.hops + 1 \in 0 .. MaxSymlinkHops
    BY <1>1, HostAssumption DEF WalkTyped
  <2> QED
    BY <1>1, <1>2, <2>1 DEF WalkTyped
<1> QED
  BY <1>1, <1>2, <1>3, OnlyNextChanges

(* A directory is walked through only if it is trusted.                      *)
LEMMA RequireTrustedKeeps ==
    ASSUME SinkInv, RequireTrustedDirectory
    PROVE  SinkInv'
<1>1. walk.pending # <<>> /\ WalkTyped
  BY DEF SinkInv, RequireTrustedDirectory
<1>2. /\ UNCHANGED <<load, tree, path, sink>>
      /\ \/ Trusted(walk.at) /\ walk' = [walk EXCEPT !.next = "read"]
         \/ walk' = [walk EXCEPT !.next = "refused"]
  BY DEF RequireTrustedDirectory, Refuse
<1>3. WalkTyped' /\ walk'.at = walk.at /\ walk'.pending = walk.pending /\ walk'.blind = walk.blind
      /\ walk'.next \in {"read", "refused"} /\ (walk'.next = "read" => Trusted(walk.at))
  BY <1>1, <1>2 DEF WalkTyped
<1> QED
  BY <1>1, <1>2, <1>3, OnlyNextChanges

(* The link was read from a directory that was trusted, so its target names  *)
(* nothing that leads Elsewhere.                                            *)
LEMMA ReadLinkKeeps ==
    ASSUME SinkInv, ReadLinkAt
    PROVE  SinkInv'
<1> DEFINE e == Lookup(walk.at, Name)
           rest == Tail(walk.pending)
<1>1. PICK t \in load.trees : OutOfReach(t)
  BY DEF SinkInv
<1>2. walk.at \in Directories /\ (walk.at \in Elsewhere => walk.blind) /\ walk.pending \in Seq(STRING)
      /\ walk.pending # <<>> /\ walk.next = "read" /\ TreeTyped /\ WalkTyped /\ Trusted(walk.at)
  BY DEF SinkInv, ReadLinkAt, WalkTyped
<1>3. UNCHANGED <<load, tree, path, sink>>
  BY DEF ReadLinkAt
<1>4. CASE e.kind # "link"
  <2>1. walk' = [walk EXCEPT !.next = "refused"]
    BY <1>4 DEF ReadLinkAt, Refuse
  <2>2. WalkTyped' /\ walk'.at = walk.at /\ walk'.pending = walk.pending /\ walk'.next = "refused"
        /\ walk'.blind = walk.blind
    BY <1>2, <2>1 DEF WalkTyped
  <2> QED
    BY <1>3, <2>2, OnlyNextChanges
<1>5. CASE e.kind = "link"
  <2>1. Name \in DOMAIN tree[walk.at] /\ e = tree[walk.at][Name]
    BY <1>5 DEF Lookup, NoEntry
  <2>2. e.target \in Seq(STRING)
    BY <1>2, <1>5, <2>1 DEF TreeTyped, IsEntry
  <2>3. Unseen(walk.at) \/ \A i \in DOMAIN e.target : ~Leads(t, e.target[i])
    BY <1>1, <1>2, <1>5, <2>1, TrustedIsOurs DEF OutOfReach
  <2>4. walk' = [walk EXCEPT !.at = IF e.absolute THEN Root ELSE walk.at,
                             !.pending = e.target \o rest, !.next = "open",
                             !.blind = walk.blind \/ Unseen(walk.at)]
    BY <1>5 DEF ReadLinkAt, WalkRoot
  <2>5. rest \in Seq(STRING)
        /\ \A i \in DOMAIN rest : i + 1 \in DOMAIN walk.pending /\ rest[i] = walk.pending[i + 1]
    BY <1>2, TailIs
  <2>6. walk.blind \/ \A i \in DOMAIN rest : ~Leads(t, rest[i])
    BY <1>1, <2>5 DEF OutOfReach
  <2> HIDE DEF e, rest
  <2>7. /\ e.target \o rest \in Seq(STRING)
        /\ \A i \in DOMAIN (e.target \o rest) :
              \/ i \in DOMAIN e.target /\ (e.target \o rest)[i] = e.target[i]
              \/ /\ i - Len(e.target) \in DOMAIN rest
                 /\ (e.target \o rest)[i] = rest[i - Len(e.target)]
    BY <2>2, <2>5
  <2>8. \/ walk.blind \/ Unseen(walk.at)
        \/ \A i \in DOMAIN (e.target \o rest) : ~Leads(t, (e.target \o rest)[i])
    BY <2>3, <2>6, <2>7
  <2>9. WalkTyped' /\ walk'.at \in {Root, walk.at} /\ walk'.pending = e.target \o rest
        /\ walk'.next = "open" /\ walk'.blind = (walk.blind \/ Unseen(walk.at))
    <3>1. walk'.blind = (walk.blind \/ Unseen(walk.at)) /\ walk'.blind \in BOOLEAN
      BY <1>2, <2>4 DEF WalkTyped
    <3> QED
      BY <1>2, <2>4, <2>7, <3>1, HostAssumption DEF WalkTyped
  <2>10. OutOfReach(t)'
    <3>1. ~walk'.blind => \A i \in DOMAIN walk'.pending : ~Leads(t, walk'.pending[i])
      BY <2>8, <2>9
    <3> QED
      BY <1>1, <1>3, <3>1, HostStays DEF OutOfReach
  <2> QED
    BY <1>2, <1>3, <2>9, <2>10, ElsewhereIsApart DEF SinkInv, TreeTyped
<1> QED
  BY <1>4, <1>5

(* An entry placed where other users may, or by the log itself, keeps the    *)
(* tree out of reach: the log makes files, and what others make that is a   *)
(* directory is not Elsewhere.                                              *)
LEMMA PlacingKeeps ==
    ASSUME SinkInv, NEW d \in Directories, NEW n, NEW e, IsEntry(e),
           e.kind = "directory" => e.to \notin Elsewhere,
           WritableByOthers(d) \/ e.kind # "link",
           tree' = [tree EXCEPT ![d] = Placing(@, n, e)],
           UNCHANGED <<load, path>>, WalkTyped',
           walk'.at = walk.at, walk'.pending = walk.pending, walk'.blind = walk.blind,
           walk'.next \in {"classify", "trust", "read"} => walk.pending # <<>>,
           walk'.next = "read" => Trusted(walk.at),
           walk'.next = "opened" => sink'.kind = "file"
    PROVE  SinkInv'
<1>1. PICK t \in load.trees : OutOfReach(t)
  BY DEF SinkInv
<1>2. DOMAIN tree = Directories /\ TreeTyped
  BY DEF SinkInv, TreeTyped
<1>3. DOMAIN tree' = Directories /\ \A x \in Directories : x # d => tree'[x] = tree[x]
  BY <1>2
<1>4. tree'[d] = Placing(tree[d], n, e)
  BY <1>2
<1>5. /\ \A m \in DOMAIN tree'[d] : m = n \/ m \in DOMAIN tree[d]
      /\ tree'[d][n] = e
      /\ \A m \in DOMAIN tree'[d] : m # n => m \in DOMAIN tree[d] /\ tree'[d][m] = tree[d][m]
  BY <1>4 DEF Placing
<1>6. \A x \in Directories : \A m \in DOMAIN tree'[x] :
          \/ x = d /\ m = n /\ tree'[x][m] = e
          \/ m \in DOMAIN tree[x] /\ tree'[x][m] = tree[x][m]
  BY <1>3, <1>5
<1>7. TreeTyped'
  BY <1>2, <1>3, <1>6 DEF TreeTyped
<1>8. OutOfReach(t)'
  <2>1. \A x \in Directories : \A m \in DOMAIN tree'[x] :
            tree'[x][m].kind = "directory" /\ tree'[x][m].to \in Elsewhere => Leads(t, m)
    BY <1>1, <1>6 DEF OutOfReach
  <2>2. \A x \in Directories : ~WritableByOthers(x) =>
            \A m \in DOMAIN tree'[x] : tree'[x][m].kind = "link" =>
                \A i \in DOMAIN tree'[x][m].target : ~Leads(t, tree'[x][m].target[i])
    BY <1>1, <1>6 DEF OutOfReach
  <2>3. ~walk'.blind => \A i \in DOMAIN walk'.pending : ~Leads(t, walk'.pending[i])
    BY <1>1 DEF OutOfReach
  <2> QED
    BY <2>1, <2>2, <2>3, HostStays DEF OutOfReach
<1> QED
  BY <1>7, <1>8, HostStays DEF SinkInv

(* What is opened or created is where the walk stands.                       *)
LEMMA OpenLeafKeeps ==
    ASSUME SinkInv, OpenLeaf
    PROVE  SinkInv'
<1> DEFINE e == Lookup(walk.at, path.final)
<1>1. walk.at \in Directories /\ WalkTyped
  BY DEF SinkInv, WalkTyped
<1>2. UNCHANGED <<load, path>>
  BY DEF OpenLeaf
<1>3. CASE e.kind = "none"
  <2>1. /\ tree' = [tree EXCEPT ![walk.at] = Placing(@, path.final, MadeByLog)]
        /\ sink' = MadeByLog /\ walk' = [walk EXCEPT !.next = "opened"]
    BY <1>3 DEF OpenLeaf
  <2>2. WalkTyped' /\ walk'.at = walk.at /\ walk'.pending = walk.pending
        /\ walk'.next = "opened" /\ walk'.blind = walk.blind
    BY <1>1, <2>1 DEF WalkTyped
  <2>3. MadeByLog.kind = "file" /\ IsEntry(MadeByLog)
    BY DEF MadeByLog, IsEntry
  <2> QED
    BY <1>1, <1>2, <2>1, <2>2, <2>3, PlacingKeeps
<1>4. CASE e.kind = "file"
  <2>1. sink' = e /\ walk' = [walk EXCEPT !.next = "opened"] /\ tree' = tree
    BY <1>4 DEF OpenLeaf
  <2>2. WalkTyped' /\ walk'.at = walk.at /\ walk'.pending = walk.pending
        /\ walk'.next = "opened" /\ sink'.kind = "file" /\ walk'.blind = walk.blind
    BY <1>1, <1>4, <2>1 DEF WalkTyped
  <2>3. PICK t \in load.trees : OutOfReach(t)
    BY DEF SinkInv
  <2>4. OutOfReach(t)'
    BY <1>2, <2>1, <2>2, <2>3, HostStays DEF OutOfReach
  <2> QED
    BY <1>2, <2>1, <2>2, <2>4 DEF SinkInv, TreeTyped
<1>5. CASE e.kind \notin {"none", "file"}
  <2>1. walk' = [walk EXCEPT !.next = "refused"] /\ UNCHANGED <<tree, sink>>
    BY <1>5 DEF OpenLeaf, Refuse
  <2>2. WalkTyped' /\ walk'.at = walk.at /\ walk'.pending = walk.pending
        /\ walk'.next = "refused" /\ walk'.blind = walk.blind
    BY <1>1, <2>1 DEF WalkTyped
  <2> QED
    BY <1>2, <2>1, <2>2, OnlyNextChanges
<1> QED
  BY <1>3, <1>4, <1>5

(* A leaf that goes away between the checks ends the start.                  *)
LEMMA LeafVanishesKeeps ==
    ASSUME SinkInv, LeafVanishes
    PROVE  SinkInv'
<1>1. WalkTyped
  BY DEF SinkInv
<1>2. /\ UNCHANGED <<load, tree, path, sink>>
      /\ \E next \in {"refused", "open"} :
            walk' = [walk EXCEPT !.attempts = walk.attempts + 1, !.next = next]
  BY DEF LeafVanishes
<1>3. WalkTyped' /\ walk'.at = walk.at /\ walk'.pending = walk.pending
      /\ walk'.next \in {"refused", "open"} /\ walk'.blind = walk.blind
  <2>1. walk.attempts + 1 \in Nat
    BY <1>1 DEF WalkTyped
  <2> QED
    BY <1>1, <1>2, <2>1 DEF WalkTyped
<1> QED
  BY <1>2, <1>3, OnlyNextChanges

(* Others place what they like, but not where a walk of honmoon's may be.    *)
LEMMA OthersPlaceKeeps ==
    ASSUME SinkInv, OthersPlace
    PROVE  SinkInv'
<1>0. PICK d \in Directories : /\ WritableByOthers(d)
                               /\ \E new \in Placed[d] :
                                    tree' = [tree EXCEPT ![d] = Placing(@, new.name, new.entry)]
  BY DEF OthersPlace
<1>1. PICK new \in Placed[d] : tree' = [tree EXCEPT ![d] = Placing(@, new.name, new.entry)]
  BY <1>0
<1>2. UNCHANGED <<load, path, walk, sink>>
  BY DEF OthersPlace
<1>3. PICK t \in load.trees : OutOfReach(t)
  BY DEF SinkInv
<1>4. IsEntry(new.entry) /\ (new.entry.kind = "directory" => new.entry.to \notin Elsewhere)
  BY <1>3, HostAssumption, ElsewhereIsNamedByOthersOnly DEF SinkInv
<1>5. WalkTyped' /\ walk.next # "opened"
  BY <1>2 DEF SinkInv, WalkTyped, OthersPlace, Walking
<1> QED
  BY <1>0, <1>1, <1>2, <1>4, <1>5, PlacingKeeps DEF SinkInv

(* A start again walks from the path again, in the tree as it is by now.    *)
LEMMA RestartWalksAgain ==
    ASSUME SinkInv, UNCHANGED <<load, tree, path>>, walk' = WalkFrom(path)
    PROVE  SinkInv'
<1>1. PICK t \in load.trees : OutOfReach(t)
  BY DEF SinkInv
<1>2. load \in Workloads /\ path \in load.paths
  BY DEF SinkInv
<1>3. path.walked \in Seq(STRING) /\ \A i \in DOMAIN path.walked : ~Leads(t, path.walked[i])
  BY <1>1, <1>2, HostAssumption, ElsewhereIsNamedByOthersOnly DEF Leads
<1>4. WalkTyped' /\ walk'.at \notin Elsewhere /\ walk'.pending = path.walked
      /\ walk'.next \in {"open", "refused"}
  BY <1>3, HostAssumption, ElsewhereIsApart DEF WalkTyped, WalkFrom, WalkRoot
<1>5. OutOfReach(t)'
  BY <1>1, <1>3, <1>4, HostStays DEF OutOfReach
<1> QED
  BY <1>4, <1>5 DEF SinkInv, TreeTyped

(* No step of the start, of the log or of the page moves the sink.           *)
LEMMA SinkKept ==
    ASSUME SinkInv, [Next]_vars
    PROVE  SinkInv'
<1>1. CASE SinkStep
  BY <1>1, OpenDirectoryKeeps, IsSymlinkAtKeeps, RequireTrustedKeeps, ReadLinkKeeps,
     OpenLeafKeeps, LeafVanishesKeeps DEF SinkStep
<1>2. CASE OthersPlace
  BY <1>2, OthersPlaceKeeps
<1>3. CASE Restart
  BY <1>3, RestartWalksAgain DEF Restart
<1>4. CASE UNCHANGED sinkVars
  BY <1>4, HostStays DEF sinkVars, SinkInv, WalkTyped, TreeTyped, OutOfReach
<1>5. SinkStep \/ OthersPlace \/ Restart \/ UNCHANGED sinkVars
  BY DEF Next, Start, Serve, OpenSink, OthersChange, PlainStep, StepFails, EphemeralCa, LoadCa,
     WriteCaKey, WriteCaCert, ReadKey, RecordKey, Dies, TimePasses, vars
<1> QED
  BY <1>1, <1>2, <1>3, <1>4, <1>5

(* However entries change under the walk, over any number of starts and on  *)
(* any platform, the log never ends in a directory that only another user's *)
(* link leads to, but through a directory of a Linux host whose ACL grants  *)
(* what its mode does not show (open_sink).                                 *)
THEOREM SinkNeverStrays == Spec => []SinkStaysPut
<1>1. Init => SinkInv
  BY SinkInitHolds DEF Init
<1>2. SinkInv /\ [Next]_vars => SinkInv'
  BY SinkKept
<1>3. SinkInv => SinkStaysPut
  BY DEF SinkInv, SinkStaysPut
<1> QED
  BY <1>1, <1>2, <1>3, PTL DEF Spec

-----------------------------------------------------------------------------
(* The steps of a start and the files it leaves.                            *)

BootSteps == {"token", "pii", "policy", "audit", "ca", "key", "bind", "record",
              "certificate", "serving", "failed"}

(* While no certificate is without its key, the pair on disk is one pair    *)
(* or has no certificate; the key of a pair being written is its own; and   *)
(* whoever is on record as degraded is the start that serves.               *)
BootInv ==
    /\ boot \in BootSteps
    /\ starts \in Nat /\ ca \in [cert : Nat, key : Nat]
    /\ ~load.lone => /\ held.cert = held.key
                     /\ ca.cert = 0 \/ ca.cert = ca.key
                     /\ boot = "certificate" => ca.key = starts
    /\ \A s \in noted : s = starts /\ boot = "serving"

(* The order of `gateway`'s steps.                                          *)
LEMMA StepsInOrder ==
    /\ After("token") = "pii" /\ After("pii") = "policy" /\ After("policy") = "audit"
    /\ After("audit") = "ca" /\ After("ca") = "key" /\ After("key") = "bind"
    /\ After("bind") = "record" /\ After("record") = "serving"
<1>1. /\ DOMAIN Steps = 1 .. 8 /\ Len(Steps) = 8
      /\ Steps[1] = "token" /\ Steps[2] = "pii" /\ Steps[3] = "policy" /\ Steps[4] = "audit"
      /\ Steps[5] = "ca" /\ Steps[6] = "key" /\ Steps[7] = "bind" /\ Steps[8] = "record"
  BY DEF Steps
<1>2. \A k \in 1 .. 8 : k \in {1, 2, 3, 4, 5, 6, 7, 8}
  OBVIOUS
<1> HIDE DEF Steps
<1>3. \A k, l \in DOMAIN Steps : Steps[k] = Steps[l] => k = l
  BY <1>1, <1>2
<1>4. \A k \in DOMAIN Steps : After(Steps[k]) = IF k = 8 THEN "serving" ELSE Steps[k + 1]
  <2> SUFFICES ASSUME NEW k \in DOMAIN Steps
               PROVE  After(Steps[k]) = IF k = 8 THEN "serving" ELSE Steps[k + 1]
    OBVIOUS
  <2>1. (CHOOSE j \in DOMAIN Steps : Steps[j] = Steps[k]) = k
    BY <1>3
  <2> QED
    BY <1>1, <2>1 DEF After
<1>5. \A k \in 1 .. 8 : After(Steps[k]) = IF k = 8 THEN "serving" ELSE Steps[k + 1]
  BY <1>1, <1>4
<1>6. /\ After(Steps[1]) = Steps[2] /\ After(Steps[2]) = Steps[3] /\ After(Steps[3]) = Steps[4]
      /\ After(Steps[4]) = Steps[5] /\ After(Steps[5]) = Steps[6] /\ After(Steps[6]) = Steps[7]
      /\ After(Steps[7]) = Steps[8] /\ After(Steps[8]) = "serving"
  BY <1>5
<1> QED
  BY <1>1, <1>6

(* A step that neither writes the CA's files nor starts over nor records a   *)
(* key moves on to a step before serving.                                   *)
LEMMA MovesOn ==
    ASSUME BootInv, boot # "serving", boot' \in BootSteps \ {"certificate"},
           UNCHANGED <<load, ca, held, starts, noted>>
    PROVE  BootInv'
BY DEF BootInv

(* What was started stays harmless: each step of a start, and each failure.  *)
LEMMA BootKept ==
    ASSUME BootInv, [Next]_vars
    PROVE  BootInv'
<1>0. load' = load
  BY DEF Next, Start, Serve, PlainStep, StepFails, OpenSink, SinkStep, OpenDirectory,
     IsSymlinkAt, RequireTrustedDirectory, ReadLinkAt, OpenLeaf, LeafVanishes, OthersChange,
     OthersPlace, EphemeralCa, LoadCa, WriteCaKey, WriteCaCert, ReadKey, RecordKey, Dies,
     Restart, TimePasses, vars, sinkVars
<1>1. CASE PlainStep
  <2>1. boot \in {"token", "pii", "policy", "bind"} /\ boot' = After(boot)
        /\ UNCHANGED <<ca, held, starts, noted>>
    BY <1>1 DEF PlainStep, Goes, trailVars
  <2>2. boot' \in {"pii", "policy", "audit", "record"}
    BY <2>1, StepsInOrder
  <2> QED
    BY <1>0, <2>1, <2>2, MovesOn DEF BootSteps
<1>2. CASE StepFails
  BY <1>0, <1>2, MovesOn DEF StepFails, BootSteps, trailVars
<1>3. CASE OpenSink
  <2>1. boot = "audit" /\ boot' \in {After("audit"), "failed", boot}
        /\ UNCHANGED <<ca, held, starts, noted>>
    <3>1. boot = "audit" /\ UNCHANGED <<ca, held, starts, noted>>
      BY <1>3 DEF OpenSink
    <3>2. CASE walk'.next = "opened"
      BY <1>3, <3>2 DEF OpenSink
    <3>3. CASE walk'.next = "refused"
      BY <1>3, <3>3 DEF OpenSink
    <3>4. CASE walk'.next # "opened" /\ walk'.next # "refused"
      BY <1>3, <3>4 DEF OpenSink
    <3> QED
      BY <3>1, <3>2, <3>3, <3>4
  <2> QED
    BY <1>0, <2>1, StepsInOrder, MovesOn DEF BootSteps
<1>4. CASE EphemeralCa
  <2>1. /\ boot = "ca" /\ boot' = "key" /\ held' = [cert |-> starts, key |-> starts]
        /\ UNCHANGED <<ca, starts, noted>>
    BY <1>4, StepsInOrder DEF EphemeralCa, Goes, trailVars
  <2> QED
    BY <1>0, <2>1 DEF BootInv, BootSteps
<1>5. CASE LoadCa
  <2>1. /\ boot = "ca" /\ boot' = "key" /\ held' = ca /\ ca.cert # 0
        /\ UNCHANGED <<ca, starts, noted>>
    BY <1>5, StepsInOrder DEF LoadCa, Goes, trailVars
  <2> QED
    BY <1>0, <2>1 DEF BootInv, BootSteps
<1>6. CASE WriteCaKey
  <2>1. /\ boot = "ca" /\ boot' = "certificate" /\ held' = [cert |-> starts, key |-> starts]
        /\ ca' = [ca EXCEPT !.key = starts] /\ (ca.cert = 0 \/ ca.key = 0)
        /\ UNCHANGED <<starts, noted>>
    BY <1>6 DEF WriteCaKey, trailVars
  <2>2. /\ ca' \in [cert : Nat, key : Nat] /\ ca'.key = starts /\ ca'.cert = ca.cert
        /\ (~load.lone => ca.cert = 0)
    BY <2>1 DEF BootInv
  <2> QED
    BY <1>0, <2>1, <2>2 DEF BootInv, BootSteps
<1>7. CASE WriteCaCert
  <2>1. /\ boot = "certificate" /\ boot' = "key" /\ ca' = [ca EXCEPT !.cert = starts]
        /\ UNCHANGED <<held, starts, noted>>
    BY <1>7, StepsInOrder DEF WriteCaCert, trailVars
  <2>2. ca' \in [cert : Nat, key : Nat] /\ ca'.key = ca.key /\ ca'.cert = starts
    BY <2>1 DEF BootInv
  <2> QED
    BY <1>0, <2>1, <2>2 DEF BootInv, BootSteps
<1>8. CASE ReadKey
  <2>1. boot = "key" /\ boot' = "bind" /\ UNCHANGED <<ca, held, starts, noted>>
    BY <1>8, StepsInOrder DEF ReadKey, Goes, trailVars
  <2> QED
    BY <1>0, <2>1, MovesOn DEF BootSteps
<1>9. CASE RecordKey
  <2>1. /\ boot = "record" /\ boot' = "serving" /\ UNCHANGED <<ca, held, starts>>
        /\ (noted' = noted \union {starts} \/ noted' = noted)
    BY <1>9, StepsInOrder DEF RecordKey, Goes
  <2> QED
    BY <1>0, <2>1 DEF BootInv, BootSteps
<1>10. CASE Dies
  BY <1>0, <1>10, MovesOn DEF Dies, BootSteps, trailVars
<1>11. CASE Restart
  <2>1. /\ boot = "failed" /\ boot' = "token" /\ starts' = starts + 1
        /\ held' = NoPair /\ UNCHANGED <<ca, noted>>
    BY <1>11 DEF Restart
  <2> QED
    BY <1>0, <2>1 DEF BootInv, BootSteps, NoPair
<1>12. CASE UNCHANGED <<bootVars, starts>>
  BY <1>0, <1>12 DEF bootVars, BootInv
<1>13. TrailStep \/ UNCHANGED trailVars => starts' = starts
  BY DEF TrailStep, RecordDurable, AppendJsonl, ShortWrite, WriteFails, Tick, SetBack, ReadAuditFile, trailVars
<1> QED
  BY <1>1, <1>2, <1>3, <1>4, <1>5, <1>6, <1>7, <1>8, <1>9, <1>10, <1>11, <1>12, <1>13
  DEF Next, Start, Serve, OthersChange, TimePasses, TrailStep, vars

(* Before the first start nothing is served and nothing was noted.           *)
LEMMA BootInitHolds ==
    ASSUME Init
    PROVE  BootInv
<1>1. /\ boot = "token" /\ starts = 1 /\ noted = {} /\ held = NoPair
      /\ (ca = NoPair \/ ca = [cert |-> 9, key |-> 9] \/ (load.lone /\ ca = [cert |-> 9, key |-> 0]))
  BY DEF Init, TrailInit
<1> QED
  BY <1>1 DEF BootInv, BootSteps, NoPair

(* What a failed or killed start leaves behind misleads nobody, however     *)
(* often the gateway is started: no record of a degraded key by a gateway   *)
(* that never served, and no CA file that would be served with a key that   *)
(* is not its certificate's (gateway, CaMaterial::load_or_generate).        *)
THEOREM FailedStartsAreHarmless == Spec => []FailedStartIsHarmless
<1>1. Init => BootInv
  BY BootInitHolds
<1>2. BootInv /\ [Next]_vars => BootInv'
  BY BootKept
<1>3. BootInv => FailedStartIsHarmless
  BY DEF BootInv, FailedStartIsHarmless
<1> QED
  BY <1>1, <1>2, <1>3, PTL DEF Spec

-----------------------------------------------------------------------------
(* The log while it is written.                                             *)

Kinds == {"decision", "key", "exposed", "foreign-owner", "hard-linked"}
Events == [by : {"gateway", "hook"}, run : Nat, id : Nat, at : Nat, what : Kinds]
Chunks == [event : Events, part : {"whole", "head", "tail"}]

\* Numbered one after the other, the newest just below n.
InOrder(s, n) ==
    /\ s \in Seq(Events)
    /\ \A i \in DOMAIN s : s[i].id + Len(s) + 1 = n + i

Accounted == {e \in Events : Appended(e) \/ e \in unwritten \/ \E r \in Writers : writing[r].event = e}

TrailTyped ==
    /\ nextId \in [{"gateway", "hook"} -> Nat] /\ clock \in Nat /\ faults \in Nat /\ starts \in Nat
    /\ turned \in Nat /\ unwritten \subseteq Events
    /\ file \in Seq(Chunks)
    /\ writing \in [Writers -> {Nothing} \union [event : Events, left : {"whole", "tail"}]]

RingInOrder == InOrder(ring, nextId["gateway"]) /\ Len(ring) <= Capacity

\* Evicted by now, if this gateway's, or of an earlier one.
Kept(e) ==
    e.by = "gateway" =>
        /\ e.run <= starts
        /\ e.run = starts => InRing(e) \/ e.id + Capacity < nextId["gateway"]

(* What has yet to be written, and what could not be, is in the ring until   *)
(* newer events push it out.                                                *)
AllKept ==
    /\ \A e \in unwritten : Kept(e)
    /\ \A r \in Writers : writing[r] # Nothing => Kept(writing[r].event)

(* Whatever the ring or the file names can be found whole in the file, or    *)
(* could not be written, or has yet to be.                                  *)
AllCovered ==
    /\ \A i \in DOMAIN file : file[i].event \in Accounted
    /\ \A i \in DOMAIN ring : ring[i] \in Accounted

Begun(e) == \E j \in DOMAIN file : file[j].event = e /\ file[j].part = "head"

(* The rest of a line comes after its beginning.                            *)
AllBegun ==
    /\ \A i \in DOMAIN file : file[i].part = "tail" => Begun(file[i].event)
    /\ \A r \in Writers : writing[r].left = "tail" => Begun(writing[r].event)

(* Nothing is in pieces unless a write was cut short.                       *)
AllWhole ==
    faults = 0 => /\ \A i \in DOMAIN file : file[i].part = "whole"
                  /\ \A r \in Writers : writing[r].left # "tail"

TrailInv == TrailTyped /\ RingInOrder /\ AllKept /\ AllCovered /\ AllBegun /\ AllWhole

(* Numbers that go up by one are told apart and are below the next.          *)
LEMMA OrderTells ==
    ASSUME NEW s, NEW n \in Nat, InOrder(s, n)
    PROVE  /\ \A i, j \in DOMAIN s : i < j => s[i].id < s[j].id
           /\ \A i \in DOMAIN s : s[i].id < n
<1>1. s \in Seq(Events) /\ Len(s) \in Nat /\ DOMAIN s = 1 .. Len(s)
  BY DEF InOrder
<1>2. \A i \in DOMAIN s : s[i].id \in Nat /\ s[i].id + Len(s) + 1 = n + i
  <2>1. \A i \in DOMAIN s : s[i] \in Events
    BY <1>1
  <2> QED
    BY <2>1 DEF InOrder, Events
<1> QED
  BY <1>1, <1>2

(* Eviction drops the oldest events, and only those past the capacity.      *)
LEMMA EvictionKeepsOrder ==
    ASSUME NEW s, NEW n \in Nat, InOrder(s, n)
    PROVE  /\ InOrder(Evicted(s), n) /\ Len(Evicted(s)) <= Capacity
           /\ \A i \in DOMAIN Evicted(s) : \E j \in DOMAIN s : Evicted(s)[i] = s[j]
           /\ \A j \in DOMAIN s : \/ \E i \in DOMAIN Evicted(s) : Evicted(s)[i] = s[j]
                                  \/ s[j].id + Capacity < n
<1>1. s \in Seq(Events) /\ Capacity \in Nat /\ Len(s) \in Nat /\ DOMAIN s = 1 .. Len(s)
  BY CapacityAssumption DEF InOrder
<1>2. CASE Len(s) <= Capacity
  <2>1. Evicted(s) = s
    BY <1>1, <1>2 DEF Evicted
  <2> QED
    BY <1>2, <2>1
<1>3. CASE Len(s) > Capacity
  <2> DEFINE k == Len(s) - Capacity
  <2>1. Evicted(s) = SubSeq(s, k + 1, Len(s)) /\ k \in Nat
    BY <1>1, <1>3 DEF Evicted
  <2>2. /\ Evicted(s) \in Seq(Events) /\ Len(Evicted(s)) = Capacity
        /\ DOMAIN Evicted(s) = 1 .. Capacity
        /\ \A i \in 1 .. Capacity : Evicted(s)[i] = s[i + k]
    BY <1>1, <1>3, <2>1
  <2>3. \A i \in DOMAIN Evicted(s) : i \in 1 .. Capacity /\ i + k \in DOMAIN s
    BY <1>1, <1>3, <2>1, <2>2
  <2>4. \A j \in DOMAIN s : s[j].id \in Nat /\ s[j].id + Len(s) + 1 = n + j
    <3>1. \A j \in DOMAIN s : s[j] \in Events
      BY <1>1
    <3>2. \A j \in DOMAIN s : s[j].id \in Nat
      BY <3>1 DEF Events
    <3>3. \A j \in DOMAIN s : s[j].id + Len(s) + 1 = n + j
      BY DEF InOrder
    <3> QED
      BY <3>2, <3>3
  <2>5. ASSUME NEW i \in DOMAIN Evicted(s)
        PROVE  Evicted(s)[i].id + Len(Evicted(s)) + 1 = n + i
    <3>1. i + k \in DOMAIN s /\ Evicted(s)[i] = s[i + k] /\ i \in Nat
      BY <2>2, <2>3
    <3>2. s[i + k].id \in Nat /\ s[i + k].id + Len(s) + 1 = n + (i + k)
      BY <2>4, <3>1
    <3>3. s[i + k].id + Capacity + 1 = n + i
      BY <1>1, <3>1, <3>2
    <3> QED
      BY <2>2, <3>1, <3>3
  <2>6. ASSUME NEW j \in DOMAIN s
        PROVE  \/ \E i \in DOMAIN Evicted(s) : Evicted(s)[i] = s[j]
               \/ s[j].id + Capacity < n
    <3>1. CASE j <= k
      BY <1>1, <1>3, <2>1, <2>4, <3>1
    <3>2. CASE j > k
      <4>1. j - k \in 1 .. Capacity /\ (j - k) + k = j
        BY <1>1, <1>3, <2>1, <3>2
      <4> QED
        BY <2>2, <4>1
    <3> QED
      BY <1>1, <2>1, <3>1, <3>2
  <2> QED
    BY <1>1, <2>2, <2>3, <2>5, <2>6 DEF InOrder
<1> QED
  BY <1>1, <1>2, <1>3

(* The next number is larger than all before it.                            *)
LEMMA NumberingKeepsOrder ==
    ASSUME NEW s, NEW n \in Nat, InOrder(s, n), NEW e \in Events, e.id = n
    PROVE  InOrder(Append(s, e), n + 1)
<1>1. s \in Seq(Events) /\ Len(s) \in Nat
  BY DEF InOrder
<1>2. /\ Append(s, e) \in Seq(Events) /\ Len(Append(s, e)) = Len(s) + 1
      /\ \A i \in 1 .. Len(s) : Append(s, e)[i] = s[i]
      /\ Append(s, e)[Len(s) + 1] = e
  BY <1>1
<1> HIDE DEF Events
<1>3. \A i \in DOMAIN Append(s, e) : \/ i \in DOMAIN s /\ Append(s, e)[i] = s[i]
                                     \/ i = Len(s) + 1 /\ Append(s, e)[i] = e
  BY <1>1, <1>2
<1>4. \A i \in DOMAIN s : s[i].id \in Nat /\ i \in Nat /\ s[i].id + Len(s) + 1 = n + i
  <2>1. \A i \in DOMAIN s : s[i] \in Events /\ i \in Nat
    BY <1>1
  <2> QED
    BY <2>1 DEF Events, InOrder
<1>5. ASSUME NEW i \in DOMAIN Append(s, e)
      PROVE  Append(s, e)[i].id + (Len(s) + 1) + 1 = (n + 1) + i
  BY <1>1, <1>3, <1>4
<1> QED
  BY <1>2, <1>5 DEF InOrder

(* What a gateway numbers goes to the end of the ring, and what it pushes    *)
(* out is past the capacity.                                                *)
LEMMA RingTakes ==
    ASSUME TrailTyped, RingInOrder, NEW e \in Events, e.id = nextId["gateway"],
           ring' = Evicted(Append(ring, e)), nextId'["gateway"] = nextId["gateway"] + 1
    PROVE  /\ RingInOrder'
           /\ \A i \in DOMAIN ring' : ring'[i] = e \/ \E j \in DOMAIN ring : ring'[i] = ring[j]
           /\ \A f : InRing(f) \/ f = e => InRing(f)' \/ f.id + Capacity < nextId["gateway"] + 1
<1> DEFINE n == nextId["gateway"]
<1>1. n \in Nat /\ ring \in Seq(Events) /\ InOrder(ring, n)
  BY DEF TrailTyped, RingInOrder, InOrder
<1>2. InOrder(Append(ring, e), n + 1) /\ n + 1 \in Nat
  BY <1>1, NumberingKeepsOrder
<1> HIDE DEF Events
<1>3. /\ \A i \in DOMAIN Append(ring, e) :
             Append(ring, e)[i] = e \/ \E j \in DOMAIN ring : Append(ring, e)[i] = ring[j]
      /\ \A j \in DOMAIN ring : j \in DOMAIN Append(ring, e) /\ Append(ring, e)[j] = ring[j]
      /\ \E j \in DOMAIN Append(ring, e) : Append(ring, e)[j] = e
  <2>1. /\ Len(Append(ring, e)) = Len(ring) + 1 /\ Len(ring) \in Nat
        /\ DOMAIN ring = 1 .. Len(ring) /\ DOMAIN Append(ring, e) = 1 .. Len(ring) + 1
        /\ \A j \in 1 .. Len(ring) : Append(ring, e)[j] = ring[j]
        /\ Append(ring, e)[Len(ring) + 1] = e
    BY <1>1
  <2>2. \A j \in 1 .. Len(ring) + 1 : j \in 1 .. Len(ring) \/ j = Len(ring) + 1
    BY <2>1
  <2>3. Len(ring) + 1 \in 1 .. Len(ring) + 1 /\ \A j \in 1 .. Len(ring) : j \in 1 .. Len(ring) + 1
    BY <2>1
  <2> QED
    BY <2>1, <2>2, <2>3
<1>4. /\ InOrder(ring', n + 1) /\ Len(ring') <= Capacity
      /\ \A i \in DOMAIN ring' : \E j \in DOMAIN Append(ring, e) : ring'[i] = Append(ring, e)[j]
      /\ \A j \in DOMAIN Append(ring, e) : \/ \E i \in DOMAIN ring' : ring'[i] = Append(ring, e)[j]
                                           \/ Append(ring, e)[j].id + Capacity < n + 1
  BY <1>2, EvictionKeepsOrder
<1>5. ASSUME NEW f, InRing(f) \/ f = e
      PROVE  InRing(f)' \/ f.id + Capacity < n + 1
  <2>1. PICK j \in DOMAIN Append(ring, e) : Append(ring, e)[j] = f
    BY <1>3, <1>5 DEF InRing
  <2> QED
    BY <1>4, <2>1 DEF InRing
<1> QED
  BY <1>3, <1>4, <1>5 DEF RingInOrder

(* What was kept stays so, while the ring only drops what is past the        *)
(* capacity.                                                                *)
LEMMA KeptStays ==
    ASSUME NEW e \in Events, Kept(e), UNCHANGED starts,
           nextId["gateway"] \in Nat, nextId'["gateway"] \in Nat, nextId["gateway"] <= nextId'["gateway"],
           InRing(e) => InRing(e)' \/ e.id + Capacity < nextId'["gateway"]
    PROVE  Kept(e)'
<1>1. e.id \in Nat /\ Capacity \in Nat
  BY CapacityAssumption DEF Events
<1> QED
  BY <1>1 DEF Kept

(* What was covered stays so, while records and chunks are only added, and   *)
(* whoever stops writing has written or has failed to.                      *)
LEMMA CoveredStays ==
    ASSUME NEW e \in Accounted,
           \A i \in DOMAIN file : i \in DOMAIN file' /\ file'[i] = file[i],
           unwritten \subseteq unwritten',
           \A r \in Writers : writing[r].event = e => e \in Accounted'
    PROVE  e \in Accounted'
<1>1. CASE Appended(e)
  BY <1>1 DEF Accounted, Appended
<1>2. CASE e \in unwritten
  BY <1>2 DEF Accounted
<1>3. CASE \E r \in Writers : writing[r].event = e
  BY <1>3
<1> QED
  BY <1>1, <1>2, <1>3 DEF Accounted

(* An append leaves the file's chunks where they are.                       *)
LEMMA FileGrows ==
    ASSUME file \in Seq(Chunks), NEW c \in Chunks, file' = Append(file, c)
    PROVE  /\ file' \in Seq(Chunks)
           /\ \A i \in DOMAIN file : i \in DOMAIN file' /\ file'[i] = file[i]
           /\ \A i \in DOMAIN file' : i \in DOMAIN file \/ file'[i] = c
           /\ \E i \in DOMAIN file' : file'[i] = c
<1> HIDE DEF Chunks
<1>1. /\ file' \in Seq(Chunks) /\ Len(file') = Len(file) + 1 /\ Len(file) \in Nat
      /\ \A i \in 1 .. Len(file) : file'[i] = file[i]
      /\ file'[Len(file) + 1] = c
  OBVIOUS
<1> QED
  BY <1>1

(* A writer that has something to write has an event of the log's.          *)
LEMMA WritersWrite ==
    ASSUME TrailTyped, NEW r \in Writers, writing[r] # Nothing
    PROVE  writing[r].event \in Events /\ writing[r].left \in {"whole", "tail"}
BY DEF TrailTyped

(* Only recorders that have yet to write can name an event that is none.    *)
LEMMA EventsAreNamed ==
    ASSUME TrailTyped, RingInOrder
    PROVE  /\ \A i \in DOMAIN file : file[i].event \in Events
           /\ \A i \in DOMAIN ring : ring[i] \in Events
           /\ Nothing.event \notin Events
<1>1. \A i \in DOMAIN file : file[i] \in Chunks
  BY DEF TrailTyped
<1>2. \A i \in DOMAIN ring : ring[i] \in Events
  BY DEF RingInOrder, InOrder
<1>3. Nothing.event \notin Events
  BY DEF Nothing, Events
<1> QED
  BY <1>1, <1>2, <1>3 DEF Chunks

(* A new event is on its way to the file as soon as it is in the ring.       *)
LEMMA RecordKeeps ==
    ASSUME TrailInv, NEW r \in Writers, RecordDurable(r)
    PROVE  TrailInv'
<1> DEFINE p == ProcessOf(r)
           event == Event(p, nextId[p], "decision")
<1>1. TrailTyped /\ RingInOrder /\ AllKept /\ AllCovered /\ AllBegun /\ AllWhole
  BY DEF TrailInv
<1>2. p \in {"gateway", "hook"} /\ nextId[p] \in Nat /\ clock \in Nat
  BY <1>1 DEF ProcessOf, TrailTyped
<1>3. event \in Events /\ event.id = nextId[p]
  BY <1>1, <1>2 DEF Event, Events, Kinds, TrailTyped
<1>4. /\ writing[r] = Nothing /\ UNCHANGED <<starts, file, unwritten, clock, turned, faults>>
      /\ nextId' = [nextId EXCEPT ![p] = nextId[p] + 1]
      /\ ring' = IF p = "gateway" THEN Evicted(Append(ring, event)) ELSE ring
      /\ writing' = [writing EXCEPT ![r] = [event |-> event, left |-> "whole"]]
  BY DEF RecordDurable, Numbered
<1> HIDE DEF event, p
<1>5. TrailTyped'
  <2>1. nextId' \in [{"gateway", "hook"} -> Nat] /\ clock' \in Nat /\ faults' \in Nat
        /\ file' \in Seq(Chunks) /\ starts' \in Nat /\ turned' \in Nat /\ unwritten' \subseteq Events
    BY <1>1, <1>2, <1>4 DEF TrailTyped
  <2>2. [event |-> event, left |-> "whole"] \in [event : Events, left : {"whole", "tail"}]
    BY <1>3
  <2>3. writing' \in [Writers -> {Nothing} \union [event : Events, left : {"whole", "tail"}]]
    BY <1>1, <1>4, <2>2 DEF TrailTyped
  <2> QED
    BY <2>1, <2>3 DEF TrailTyped
<1>6. r \in DOMAIN writing /\ writing'[r] = [event |-> event, left |-> "whole"]
      /\ \A o \in Writers : o # r => writing'[o] = writing[o]
  BY <1>1, <1>4 DEF TrailTyped
<1>7. event \in Accounted'
  BY <1>3, <1>6 DEF Accounted
<1>8. Accounted \subseteq Accounted'
  <2> SUFFICES ASSUME NEW e \in Accounted PROVE e \in Accounted'
    OBVIOUS
  <2>1. \A o \in Writers : writing[o].event = e => e \in Accounted'
    <3> SUFFICES ASSUME NEW o \in Writers, writing[o].event = e PROVE e \in Accounted'
      OBVIOUS
    <3>1. o # r
      BY <1>1, <1>4, EventsAreNamed DEF Accounted
    <3> QED
      BY <1>6, <3>1 DEF Accounted
  <2> QED
    BY <1>4, <2>1, CoveredStays
<1>9. /\ \A i \in DOMAIN ring' : ring'[i] = event \/ \E j \in DOMAIN ring : ring'[i] = ring[j]
      /\ RingInOrder'
      /\ \A f : InRing(f) \/ (p = "gateway" /\ f = event) =>
                 InRing(f)' \/ f.id + Capacity < nextId'["gateway"]
      /\ nextId'["gateway"] \in Nat /\ nextId["gateway"] \in Nat /\ nextId["gateway"] <= nextId'["gateway"]
  <2>1. CASE p = "gateway"
    <3>1. ring' = Evicted(Append(ring, event)) /\ nextId'["gateway"] = nextId["gateway"] + 1
          /\ event.id = nextId["gateway"] /\ nextId["gateway"] \in Nat
      BY <1>1, <1>2, <1>3, <1>4, <2>1 DEF TrailTyped
    <3>2. /\ RingInOrder'
          /\ \A i \in DOMAIN ring' : ring'[i] = event \/ \E j \in DOMAIN ring : ring'[i] = ring[j]
          /\ \A f : InRing(f) \/ f = event => InRing(f)' \/ f.id + Capacity < nextId["gateway"] + 1
      BY <1>1, <1>3, <3>1, RingTakes
    <3> QED
      BY <3>1, <3>2
  <2>2. CASE p # "gateway"
    <3>1. ring' = ring /\ nextId'["gateway"] = nextId["gateway"]
      BY <1>1, <1>2, <1>4, <2>2 DEF TrailTyped
    <3>2. nextId["gateway"] \in Nat
      BY <1>1 DEF TrailTyped
    <3> QED
      BY <1>1, <2>2, <3>1, <3>2 DEF RingInOrder, InRing
  <2> QED
    BY <2>1, <2>2
<1>10. AllCovered'
  <2>1. \A i \in DOMAIN file' : file'[i].event \in Accounted'
    BY <1>1, <1>4, <1>8, EventsAreNamed DEF AllCovered
  <2>2. \A i \in DOMAIN ring' : ring'[i] \in Accounted'
    BY <1>1, <1>7, <1>8, <1>9, EventsAreNamed DEF AllCovered
  <2> QED
    BY <2>1, <2>2 DEF AllCovered
<1>11. AllWhole'
  BY <1>1, <1>4, <1>6 DEF AllWhole
<1>12. AllKept'
  <2>1. ASSUME NEW e \in Events, Kept(e)
        PROVE  Kept(e)'
    BY <1>4, <1>9, <2>1, KeptStays
  <2>2. \A e \in unwritten' : Kept(e)'
    BY <1>1, <1>4, <2>1 DEF AllKept, TrailTyped
  <2>3. ASSUME NEW e, e = event
        PROVE  Kept(e)'
    <3>1. e.by = p /\ e.run = starts
      BY <2>3 DEF event, Event
    <3>2. starts \in Nat
      BY <1>1 DEF TrailTyped
    <3>3. p = "gateway" => InRing(e)' \/ e.id + Capacity < nextId'["gateway"]
      BY <1>9, <2>3
    <3> QED
      BY <1>4, <3>1, <3>2, <3>3 DEF Kept
  <2>4. ASSUME NEW o \in Writers, writing'[o] # Nothing
        PROVE  Kept(writing[o].event)'
    <3>1. CASE o = r
      BY <1>6, <2>3, <3>1 DEF Kept, InRing
    <3>2. CASE o # r
      <4>1. writing'[o] = writing[o] /\ Kept(writing[o].event) /\ writing[o].event \in Events
        BY <1>1, <1>6, <2>4, <3>2, WritersWrite DEF AllKept
      <4> QED
        BY <2>1, <4>1 DEF Kept, InRing
    <3> QED
      BY <3>1, <3>2
  <2> QED
    BY <2>2, <2>4 DEF AllKept
<1>13. AllBegun'
  BY <1>1, <1>4, <1>6 DEF AllBegun, Begun
<1> QED
  BY <1>5, <1>9, <1>10, <1>11, <1>12, <1>13 DEF TrailInv

(* What a writer's step leaves behind: a chunk of its event, or the word     *)
(* that it could not be written.                                            *)
LEMMA WriterStepKeeps ==
    ASSUME TrailInv, NEW r \in Writers, writing[r] # Nothing,
           UNCHANGED <<starts, ring, nextId, clock, turned>>,
           faults' \in Nat, faults <= faults',
           \/ /\ UNCHANGED unwritten
              /\ \/ /\ file' = Append(file, [event |-> writing[r].event, part |-> writing[r].left])
                    /\ writing' = [writing EXCEPT ![r] = Nothing]
                 \/ /\ file' = Append(file, [event |-> writing[r].event, part |-> "head"])
                    /\ writing' = [writing EXCEPT ![r].left = "tail"]
                    /\ faults' # 0
           \/ /\ UNCHANGED file
              /\ unwritten' = unwritten \union {writing[r].event}
              /\ writing' = [writing EXCEPT ![r] = Nothing]
    PROVE  TrailInv'
<1>1. TrailTyped /\ RingInOrder /\ AllKept /\ AllCovered /\ AllBegun /\ AllWhole
  BY DEF TrailInv
<1> DEFINE event == writing[r].event
<1>2. event \in Events /\ writing[r].left \in {"whole", "tail"}
      /\ writing[r] \in [event : Events, left : {"whole", "tail"}]
  BY <1>1, WritersWrite DEF TrailTyped
<1>3. r \in DOMAIN writing /\ \A o \in Writers : o # r => writing'[o] = writing[o]
  BY <1>1 DEF TrailTyped
<1>4. writing'[r] = Nothing \/ (writing'[r] = [event |-> event, left |-> "tail"] /\ faults' # 0)
  BY <1>1, <1>2 DEF TrailTyped
<1>5. [event |-> event, left |-> "tail"] \in [event : Events, left : {"whole", "tail"}]
  BY <1>2
<1>6. writing' \in [Writers -> {Nothing} \union [event : Events, left : {"whole", "tail"}]]
  <2>1. DOMAIN writing' = Writers /\ writing' = [o \in Writers |-> writing'[o]]
    BY <1>1 DEF TrailTyped
  <2>2. \A o \in Writers : writing'[o] \in {Nothing} \union [event : Events, left : {"whole", "tail"}]
    BY <1>1, <1>3, <1>4, <1>5 DEF TrailTyped
  <2> QED
    BY <2>1, <2>2
<1>7. \E part \in {"whole", "head", "tail"} :
          /\ \/ UNCHANGED file
             \/ file' = Append(file, [event |-> event, part |-> part])
          /\ part = "whole" \/ faults' # 0 \/ file' = file
          /\ part = "tail" => writing[r].left = "tail" \/ file' = file
  <2>1. writing[r].left = "whole" \/ faults' # 0
    BY <1>1, <1>2 DEF AllWhole, TrailTyped
  <2> QED
    BY <1>2, <2>1
<1>8. PICK part \in {"whole", "head", "tail"} :
          /\ \/ UNCHANGED file
             \/ file' = Append(file, [event |-> event, part |-> part])
          /\ part = "whole" \/ faults' # 0 \/ file' = file
          /\ part = "tail" => writing[r].left = "tail" \/ file' = file
  BY <1>7
<1>9. [event |-> event, part |-> part] \in Chunks
  BY <1>2 DEF Chunks
<1> DEFINE chunk == [event |-> event, part |-> part]
<1>10. chunk.event = event /\ chunk.part = part
  OBVIOUS
<1>11. event \in Accounted'
  <2>1. CASE event \in unwritten'
    BY <1>2, <2>1 DEF Accounted
  <2>2. CASE writing'[r] = [event |-> event, left |-> "tail"]
    BY <1>2, <2>2 DEF Accounted
  <2>3. CASE file' = Append(file, [event |-> event, part |-> writing[r].left])
    <3>1. [event |-> event, part |-> writing[r].left] \in Chunks
      BY <1>2 DEF Chunks
    <3>2. \E i \in DOMAIN file' : file'[i] = [event |-> event, part |-> writing[r].left]
      BY <1>1, <2>3, <3>1, FileGrows DEF TrailTyped
    <3> QED
      BY <1>2, <3>2 DEF Accounted, Appended
  <2>4. event \in unwritten' \/ writing'[r] = [event |-> event, left |-> "tail"]
        \/ file' = Append(file, [event |-> event, part |-> writing[r].left])
    BY <1>1, <1>2 DEF TrailTyped
  <2> QED
    BY <2>1, <2>2, <2>3, <2>4
<1> HIDE DEF event, chunk
<1>12. /\ file' \in Seq(Chunks)
       /\ \A i \in DOMAIN file : i \in DOMAIN file' /\ file'[i] = file[i]
       /\ \A i \in DOMAIN file' : (i \in DOMAIN file /\ file'[i] = file[i]) \/ file'[i] = chunk
  <2>1. CASE UNCHANGED file
    BY <1>1, <2>1 DEF TrailTyped
  <2>2. CASE file' = Append(file, chunk)
    BY <1>1, <1>9, <2>2, FileGrows DEF TrailTyped, chunk
  <2> QED
    BY <1>8, <2>1, <2>2 DEF chunk
<1>13. Accounted \subseteq Accounted'
  <2> SUFFICES ASSUME NEW e \in Accounted PROVE e \in Accounted'
    OBVIOUS
  <2>1. \A o \in Writers : writing[o].event = e => e \in Accounted'
    <3> SUFFICES ASSUME NEW o \in Writers, writing[o].event = e PROVE e \in Accounted'
      OBVIOUS
    <3>1. CASE o = r
      BY <1>11, <3>1 DEF event
    <3>2. CASE o # r
      BY <1>3, <3>2 DEF Accounted
    <3> QED
      BY <3>1, <3>2
  <2>2. unwritten \subseteq unwritten'
    OBVIOUS
  <2> QED
    BY <1>12, <2>1, <2>2, CoveredStays
<1>14. AllCovered'
  <2>1. \A i \in DOMAIN file' : file'[i].event \in Accounted'
    BY <1>1, <1>10, <1>11, <1>12, <1>13, EventsAreNamed DEF AllCovered
  <2>2. \A i \in DOMAIN ring' : ring'[i] \in Accounted'
    BY <1>1, <1>13, EventsAreNamed DEF AllCovered
  <2> QED
    BY <2>1, <2>2 DEF AllCovered
<1>15. AllWhole'
  <2> SUFFICES ASSUME faults' = 0
               PROVE  /\ \A i \in DOMAIN file' : file'[i].part = "whole"
                      /\ \A o \in Writers : writing'[o].left # "tail"
    BY DEF AllWhole
  <2>1. faults = 0 /\ Nothing.left = "none"
    BY <1>1 DEF TrailTyped, Nothing
  <2>2. \A i \in DOMAIN file' : file'[i].part = "whole"
    <3>1. CASE UNCHANGED file
      BY <1>1, <2>1, <3>1 DEF AllWhole
    <3>2. CASE part = "whole"
      BY <1>1, <1>10, <1>12, <2>1, <3>2 DEF AllWhole
    <3> QED
      BY <1>8, <3>1, <3>2
  <2>3. \A o \in Writers : writing'[o].left # "tail"
    BY <1>1, <1>3, <1>4, <2>1 DEF AllWhole
  <2> QED
    BY <2>2, <2>3
<1>16. TrailTyped' /\ RingInOrder'
  <2>1. unwritten' \subseteq Events
    BY <1>1, <1>2 DEF TrailTyped, event
  <2> QED
    BY <1>1, <1>6, <1>12, <2>1 DEF TrailTyped, RingInOrder
<1>17. AllKept'
  <2>1. \A e : Kept(e) => Kept(e)'
    BY DEF Kept, InRing
  <2>2. Kept(event)
    BY <1>1 DEF AllKept, event
  <2>3. \A e \in unwritten' : Kept(e)
    BY <1>1, <2>2 DEF AllKept, event
  <2>4. ASSUME NEW o \in Writers, writing'[o] # Nothing
        PROVE  Kept(writing'[o].event)
    <3>1. CASE o = r
      BY <1>4, <2>2, <2>4, <3>1
    <3>2. CASE o # r
      BY <1>1, <1>3, <2>4, <3>2 DEF AllKept
    <3> QED
      BY <3>1, <3>2
  <2> QED
    BY <2>1, <2>3, <2>4 DEF AllKept, Kept, InRing
<1>18. AllBegun'
  <2>1. \A e : Begun(e) => Begun(e)'
    BY <1>12 DEF Begun
  <2>2. writing'[r].left = "tail" => Begun(writing[r].event)'
    <3> SUFFICES ASSUME writing'[r].left = "tail" PROVE Begun(writing[r].event)'
      OBVIOUS
    <3>1. writing'[r] # Nothing
      BY DEF Nothing
    <3>2. file' = Append(file, [event |-> event, part |-> "head"])
      BY <1>2, <1>3, <3>1 DEF event
    <3>3. [event |-> event, part |-> "head"] \in Chunks
      BY <1>2 DEF Chunks
    <3>4. \E i \in DOMAIN file' : file'[i] = [event |-> event, part |-> "head"]
      BY <1>1, <3>2, <3>3, FileGrows DEF TrailTyped
    <3> QED
      BY <1>4, <3>1, <3>4 DEF Begun
  <2>3. part = "tail" => file' = file \/ Begun(event)
    BY <1>1, <1>8 DEF AllBegun, event
  <2>4. \A i \in DOMAIN file' : file'[i].part = "tail" => Begun(file[i].event)'
    <3>1. CASE UNCHANGED file
      BY <1>1, <3>1 DEF AllBegun, Begun
    <3>2. CASE file' # file
      BY <1>1, <1>10, <1>12, <2>1, <2>3, <3>2 DEF AllBegun, Begun
    <3> QED
      BY <3>1, <3>2
  <2>5. \A o \in Writers : writing'[o].left = "tail" => Begun(writing[o].event)'
    <3> SUFFICES ASSUME NEW o \in Writers, writing'[o].left = "tail" PROVE Begun(writing[o].event)'
      OBVIOUS
    <3>1. CASE o = r
      BY <2>2, <3>1
    <3>2. CASE o # r
      BY <1>1, <1>3, <2>1, <3>2 DEF AllBegun, Begun
    <3> QED
      BY <3>1, <3>2
  <2> QED
    BY <2>4, <2>5 DEF AllBegun
<1> QED
  BY <1>14, <1>15, <1>16, <1>17, <1>18 DEF TrailInv

(* Each step of a writer, and each fault of the disk, keeps the trail.       *)
LEMMA TrailStepKeeps ==
    ASSUME TrailInv, TrailStep
    PROVE  TrailInv'
<1>1. faults \in Nat /\ TrailTyped
  BY DEF TrailInv, TrailTyped
<1>2. ASSUME NEW r \in Writers, RecordDurable(r)
      PROVE  TrailInv'
  BY <1>2, RecordKeeps
<1>3. ASSUME NEW r \in Writers, AppendJsonl(r)
      PROVE  TrailInv'
  <2>1. writing[r] # Nothing /\ UNCHANGED <<starts, ring, nextId, unwritten, clock, turned, faults>>
        /\ file' = Append(file, [event |-> writing[r].event, part |-> writing[r].left])
        /\ writing' = [writing EXCEPT ![r] = Nothing]
    BY <1>3 DEF AppendJsonl
  <2>2. faults' \in Nat /\ faults <= faults'
    BY <1>1, <2>1
  <2> QED
    BY <2>1, <2>2, WriterStepKeeps
<1>4. ASSUME NEW r \in Writers, ShortWrite(r)
      PROVE  TrailInv'
  <2>1. writing[r].left = "whole" /\ faults' = faults + 1
        /\ UNCHANGED <<starts, ring, nextId, unwritten, clock, turned>>
        /\ file' = Append(file, [event |-> writing[r].event, part |-> "head"])
        /\ writing' = [writing EXCEPT ![r].left = "tail"]
    BY <1>4 DEF ShortWrite
  <2>2. writing[r] # Nothing
    BY <2>1 DEF Nothing
  <2>3. faults' \in Nat /\ faults <= faults' /\ faults' # 0
    BY <1>1, <2>1
  <2> QED
    BY <2>1, <2>2, <2>3, WriterStepKeeps
<1>5. ASSUME NEW r \in Writers, WriteFails(r)
      PROVE  TrailInv'
  <2>1. writing[r] # Nothing /\ UNCHANGED <<starts, ring, nextId, file, clock, turned>>
        /\ faults' = faults + 1
        /\ unwritten' = unwritten \union {writing[r].event}
        /\ writing' = [writing EXCEPT ![r] = Nothing]
    BY <1>5 DEF WriteFails
  <2>2. faults' \in Nat /\ faults <= faults'
    BY <1>1, <2>1
  <2> QED
    BY <2>1, <2>2, WriterStepKeeps
<1>6. CASE Tick \/ SetBack \/ ReadAuditFile
  <2>1. UNCHANGED <<starts, ring, nextId, writing, file, unwritten, faults>>
        /\ clock' \in Nat /\ turned' \in Nat
    BY <1>1, <1>6 DEF Tick, SetBack, ReadAuditFile, TrailTyped
  <2> QED
    BY <2>1 DEF TrailInv, TrailTyped, RingInOrder, AllKept, AllCovered, AllBegun, AllWhole,
     Kept, InRing, Begun, Accounted, Appended
<1> QED
  BY <1>2, <1>3, <1>4, <1>5, <1>6 DEF TrailStep

(* A finite set can be listed.                                              *)
LEMMA Listed ==
    ASSUME NEW S, IsFiniteSet(S)
    PROVE  /\ SetToSeq(S) \in Seq(S) /\ Len(SetToSeq(S)) \in Nat
           /\ DOMAIN SetToSeq(S) = 1 .. Len(SetToSeq(S))
<1>1. Cardinality(S) \in Nat /\ ExistsBijection(1 .. Cardinality(S), S)
  BY FS_CardinalityType
<1>2. \E f \in [1 .. Cardinality(S) -> S] : IsInjective(f)
  BY <1>1 DEF ExistsBijection, Bijection, Injection, IsInjective
<1>3. SetToSeq(S) \in [1 .. Cardinality(S) -> S]
  BY <1>2 DEF SetToSeq
<1> QED
  BY <1>1, <1>3

(* What an fstat shows of the sink is a few things at most.                 *)
LEMMA ExposureIsFinite ==
    ASSUME NEW s
    PROVE  IsFiniteSet(SinkExposure(s)) /\ SinkExposure(s) \subseteq Kinds
<1>1. SinkExposure(s) \subseteq {"exposed", "foreign-owner", "hard-linked"}
  BY DEF SinkExposure
<1>2. IsFiniteSet({"exposed", "foreign-owner", "hard-linked"})
  <2>1. {"exposed", "foreign-owner", "hard-linked"}
           = (({} \union {"exposed"}) \union {"foreign-owner"}) \union {"hard-linked"}
    OBVIOUS
  <2>2. IsFiniteSet({} \union {"exposed"})
    BY FS_EmptySet, FS_AddElement
  <2>3. IsFiniteSet(({} \union {"exposed"}) \union {"foreign-owner"})
    BY <2>2, FS_AddElement
  <2>4. IsFiniteSet((({} \union {"exposed"}) \union {"foreign-owner"}) \union {"hard-linked"})
    BY <2>3, FS_AddElement
  <2> QED
    BY <2>1, <2>4
<1> QED
  BY <1>1, <1>2, FS_Subset DEF Kinds

(* Records of what a start finds: numbered one after the other, and the       *)
(* first of them in the file, whole.                                        *)
LEMMA ObservedEvents ==
    ASSUME TrailTyped, NEW s, Observed(s)
    PROVE  \E events \in Seq(Events), k \in Nat :
        /\ k <= Len(events)
        /\ \A i \in DOMAIN events :
               /\ events[i].id = nextId["gateway"] + i - 1 /\ events[i].by = "gateway"
               /\ events[i].run = starts /\ events[i].at = clock
        /\ nextId' = [nextId EXCEPT !["gateway"] = nextId["gateway"] + Len(events)]
        /\ ring' = Evicted(ring \o events)
        /\ file' \in Seq(Chunks) /\ Len(file') = Len(file) + k
        /\ \A i \in DOMAIN file : file'[i] = file[i]
        /\ \A i \in 1 .. k : file'[Len(file) + i] = [event |-> events[i], part |-> "whole"]
        /\ unwritten' = unwritten \union {events[i] : i \in k + 1 .. Len(events)}
        /\ faults' \in Nat /\ faults <= faults'
<1> DEFINE rules == SetToSeq(SinkExposure(s))
           n == nextId["gateway"]
           events == [i \in DOMAIN rules |-> Event("gateway", n + i - 1, rules[i])]
<1>1. rules \in Seq(SinkExposure(s)) /\ Len(rules) \in Nat /\ DOMAIN rules = 1 .. Len(rules)
      /\ \A i \in DOMAIN rules : rules[i] \in Kinds
  BY ExposureIsFinite, Listed
<1>2. n \in Nat /\ clock \in Nat /\ starts \in Nat /\ faults \in Nat /\ file \in Seq(Chunks)
  BY DEF TrailTyped
<1>3. PICK k \in 0 .. Len(events) :
          /\ file' = file \o [i \in 1 .. k |-> [event |-> events[i], part |-> "whole"]]
          /\ unwritten' = unwritten \union {events[i] : i \in k + 1 .. Len(events)}
          /\ faults' = faults \/ faults' = faults + 1
  BY DEF Observed
<1>4. /\ nextId' = [nextId EXCEPT !["gateway"] = n + Len(events)]
      /\ ring' = Evicted(ring \o events)
  BY DEF Observed
<1> HIDE DEF rules, n
<1>5. \A i \in DOMAIN rules :
          /\ events[i] \in Events /\ events[i].id = n + i - 1 /\ events[i].by = "gateway"
          /\ events[i].run = starts /\ events[i].at = clock
  <2> SUFFICES ASSUME NEW i \in DOMAIN rules
               PROVE  /\ events[i] \in Events /\ events[i].id = n + i - 1 /\ events[i].by = "gateway"
                      /\ events[i].run = starts /\ events[i].at = clock
    OBVIOUS
  <2>1. n + i - 1 \in Nat /\ rules[i] \in Kinds
    BY <1>1, <1>2
  <2> QED
    BY <1>2, <2>1 DEF Event, Events
<1>6. events \in Seq(Events) /\ Len(events) \in Nat /\ DOMAIN events = 1 .. Len(events)
      /\ DOMAIN events = DOMAIN rules
  BY <1>1, <1>5
<1> HIDE DEF events
<1> DEFINE chunks == [i \in 1 .. k |-> [event |-> events[i], part |-> "whole"]]
<1>7. k \in Nat /\ k <= Len(events)
  BY <1>3, <1>6
<1>8. chunks \in Seq(Chunks) /\ Len(chunks) = k
  <2>1. \A i \in 1 .. k : events[i] \in Events
    BY <1>5, <1>6, <1>7
  <2>2. \A i \in 1 .. k : [event |-> events[i], part |-> "whole"] \in Chunks
    BY <2>1 DEF Chunks
  <2> QED
    BY <1>7, <2>2
<1>9. \A i \in 1 .. k : chunks[i] = [event |-> events[i], part |-> "whole"]
  OBVIOUS
<1> HIDE DEF Chunks, chunks
<1>10. /\ file' \in Seq(Chunks) /\ Len(file') = Len(file) + k
       /\ \A i \in DOMAIN file : file'[i] = file[i]
       /\ \A i \in 1 .. k : file'[Len(file) + i] = chunks[i]
  BY <1>2, <1>3, <1>7, <1>8 DEF chunks
<1>11. faults' \in Nat /\ faults <= faults'
  BY <1>2, <1>3
<1>12. unwritten' = unwritten \union {events[i] : i \in k + 1 .. Len(events)}
  BY <1>3
<1> QED
  BY <1>4, <1>5, <1>6, <1>7, <1>9, <1>10, <1>11, <1>12 DEF n

LEMMA ShiftedBy ==
    ASSUME NEW a \in Nat, NEW l \in Nat, NEW m \in Nat, NEW n \in Nat, NEW i \in Nat,
           a + l + 1 = n + i
    PROVE  a + (l + m) + 1 = (n + m) + i
OBVIOUS

(* So are they in the ring, and what they push out is past the capacity.      *)
LEMMA RingTakesAll ==
    ASSUME TrailTyped, RingInOrder, NEW events \in Seq(Events),
           \A i \in DOMAIN events : events[i].id = nextId["gateway"] + i - 1,
           ring' = Evicted(ring \o events),
           nextId' = [nextId EXCEPT !["gateway"] = nextId["gateway"] + Len(events)]
    PROVE  /\ RingInOrder' /\ nextId' \in [{"gateway", "hook"} -> Nat]
           /\ nextId'["gateway"] = nextId["gateway"] + Len(events)
           /\ \A i \in DOMAIN ring' : \/ \E j \in DOMAIN events : ring'[i] = events[j]
                                      \/ \E j \in DOMAIN ring : ring'[i] = ring[j]
           /\ \A f : InRing(f) \/ (\E j \in DOMAIN events : f = events[j])
                     => InRing(f)' \/ f.id + Capacity < nextId'["gateway"]
<1> DEFINE n == nextId["gateway"]
           both == ring \o events
<1>1. /\ nextId \in [{"gateway", "hook"} -> Nat] /\ n \in Nat /\ Len(events) \in Nat
      /\ ring \in Seq(Events) /\ InOrder(ring, n) /\ Len(ring) \in Nat
      /\ DOMAIN ring = 1 .. Len(ring) /\ DOMAIN events = 1 .. Len(events)
  BY DEF TrailTyped, RingInOrder, InOrder
<1>2. n + Len(events) \in Nat /\ nextId' \in [{"gateway", "hook"} -> Nat]
      /\ nextId'["gateway"] = n + Len(events)
  BY <1>1
<1>3. \A i \in DOMAIN ring : ring[i].id \in Nat /\ ring[i].id + Len(ring) + 1 = n + i
  <2>1. \A i \in DOMAIN ring : ring[i] \in Events
    BY <1>1
  <2>2. \A i \in DOMAIN ring : ring[i].id \in Nat
    BY <2>1 DEF Events
  <2>3. \A i \in DOMAIN ring : ring[i].id + Len(ring) + 1 = n + i
    BY <1>1 DEF InOrder
  <2> QED
    BY <2>2, <2>3
<1> HIDE DEF Events
<1>4. /\ both \in Seq(Events) /\ Len(both) = Len(ring) + Len(events)
      /\ DOMAIN both = 1 .. Len(ring) + Len(events)
      /\ \A i \in DOMAIN ring : both[i] = ring[i]
      /\ \A i \in DOMAIN events : both[Len(ring) + i] = events[i]
  BY <1>1
<1>5. ASSUME NEW i \in DOMAIN both
      PROVE  \/ i \in DOMAIN ring /\ both[i] = ring[i]
             \/ i - Len(ring) \in DOMAIN events /\ both[i] = events[i - Len(ring)]
  <2>1. CASE i <= Len(ring)
    BY <1>1, <1>4, <2>1
  <2>2. CASE i > Len(ring)
    <3>1. i - Len(ring) \in DOMAIN events /\ Len(ring) + (i - Len(ring)) = i
      BY <1>1, <1>4, <2>2
    <3> QED
      BY <1>4, <3>1
  <2> QED
    BY <1>1, <1>4, <2>1, <2>2
<1> HIDE DEF both
<1>6. InOrder(both, n + Len(events))
  <2>1. ASSUME NEW i \in DOMAIN both
        PROVE  both[i].id + Len(both) + 1 = (n + Len(events)) + i
    <3>1. CASE i \in DOMAIN ring /\ both[i] = ring[i]
      <4>1. both[i].id \in Nat /\ both[i].id + Len(ring) + 1 = n + i /\ i \in Nat
        BY <1>1, <1>3, <3>1
      <4>2. both[i].id + (Len(ring) + Len(events)) + 1 = (n + Len(events)) + i
        BY <1>1, <4>1, ShiftedBy
      <4> QED
        BY <1>4, <4>2
    <3>2. CASE i - Len(ring) \in DOMAIN events /\ both[i] = events[i - Len(ring)]
      <4>1. both[i].id = n + (i - Len(ring)) - 1 /\ i \in Nat
        BY <1>1, <1>4, <3>2
      <4> QED
        BY <1>1, <1>4, <4>1
    <3> QED
      BY <1>5, <3>1, <3>2
  <2> QED
    BY <1>4, <2>1 DEF InOrder
<1>7. /\ InOrder(ring', n + Len(events)) /\ Len(ring') <= Capacity
      /\ \A i \in DOMAIN ring' : \E j \in DOMAIN both : ring'[i] = both[j]
      /\ \A j \in DOMAIN both : \/ \E i \in DOMAIN ring' : ring'[i] = both[j]
                                \/ both[j].id + Capacity < n + Len(events)
  BY <1>2, <1>6, EvictionKeepsOrder DEF both
<1>8. \A i \in DOMAIN ring : i \in DOMAIN both
  BY <1>1, <1>4
<1>9. \A i \in DOMAIN events : Len(ring) + i \in DOMAIN both
  BY <1>1, <1>4
<1>10. ASSUME NEW f, InRing(f) \/ \E j \in DOMAIN events : f = events[j]
       PROVE  InRing(f)' \/ f.id + Capacity < n + Len(events)
  <2>1. PICK j \in DOMAIN both : both[j] = f
    BY <1>4, <1>8, <1>9, <1>10 DEF InRing
  <2> QED
    BY <1>7, <2>1 DEF InRing
<1>11. RingInOrder'
  BY <1>2, <1>7 DEF RingInOrder
<1>12. \A i \in DOMAIN ring' : \/ \E j \in DOMAIN events : ring'[i] = events[j]
                               \/ \E j \in DOMAIN ring : ring'[i] = ring[j]
  BY <1>5, <1>7
<1> QED
  BY <1>2, <1>10, <1>11, <1>12

(* They go to the file whole, or into the ring alone.                        *)
LEMMA ObservedKeeps ==
    ASSUME TrailInv, NEW s, UNCHANGED <<starts, writing, clock, turned>>, Observed(s)
    PROVE  TrailInv'
<1>1. TrailTyped /\ RingInOrder /\ AllKept /\ AllCovered /\ AllBegun /\ AllWhole
  BY DEF TrailInv
<1>2. PICK events \in Seq(Events), k \in Nat :
        /\ k <= Len(events)
        /\ \A i \in DOMAIN events :
               /\ events[i].id = nextId["gateway"] + i - 1 /\ events[i].by = "gateway"
               /\ events[i].run = starts /\ events[i].at = clock
        /\ nextId' = [nextId EXCEPT !["gateway"] = nextId["gateway"] + Len(events)]
        /\ ring' = Evicted(ring \o events)
        /\ file' \in Seq(Chunks) /\ Len(file') = Len(file) + k
        /\ \A i \in DOMAIN file : file'[i] = file[i]
        /\ \A i \in 1 .. k : file'[Len(file) + i] = [event |-> events[i], part |-> "whole"]
        /\ unwritten' = unwritten \union {events[i] : i \in k + 1 .. Len(events)}
        /\ faults' \in Nat /\ faults <= faults'
  BY <1>1, ObservedEvents
<1>3. /\ RingInOrder' /\ nextId' \in [{"gateway", "hook"} -> Nat]
      /\ nextId'["gateway"] = nextId["gateway"] + Len(events)
      /\ \A i \in DOMAIN ring' : \/ \E j \in DOMAIN events : ring'[i] = events[j]
                                 \/ \E j \in DOMAIN ring : ring'[i] = ring[j]
      /\ \A f : InRing(f) \/ (\E j \in DOMAIN events : f = events[j])
                => InRing(f)' \/ f.id + Capacity < nextId'["gateway"]
  BY <1>1, <1>2, RingTakesAll
<1>4. /\ file \in Seq(Chunks) /\ Len(file) \in Nat /\ DOMAIN file = 1 .. Len(file)
      /\ DOMAIN file' = 1 .. Len(file) + k /\ Len(events) \in Nat /\ DOMAIN events = 1 .. Len(events)
      /\ nextId["gateway"] \in Nat /\ faults \in Nat /\ starts \in Nat
      /\ \A i \in DOMAIN events : events[i] \in Events
  BY <1>1, <1>2 DEF TrailTyped
<1> HIDE DEF Chunks, Events
<1>5. ASSUME NEW i \in DOMAIN file'
      PROVE  \/ i \in DOMAIN file /\ file'[i] = file[i]
             \/ /\ i - Len(file) \in 1 .. k /\ i - Len(file) \in DOMAIN events
                /\ file'[i] = [event |-> events[i - Len(file)], part |-> "whole"]
  <2>1. CASE i <= Len(file)
    BY <1>2, <1>4, <2>1
  <2>2. CASE i > Len(file)
    <3>1. i - Len(file) \in 1 .. k /\ Len(file) + (i - Len(file)) = i
      BY <1>4, <2>2
    <3>2. i - Len(file) \in DOMAIN events
      BY <1>2, <1>4, <3>1
    <3>3. file'[i] = [event |-> events[i - Len(file)], part |-> "whole"]
      BY <1>2, <3>1
    <3> QED
      BY <3>1, <3>2, <3>3
  <2> QED
    BY <1>4, <2>1, <2>2
<1>6. /\ \A i \in DOMAIN file : i \in DOMAIN file' /\ file'[i] = file[i]
      /\ \A i \in 1 .. k : Len(file) + i \in DOMAIN file'
  BY <1>2, <1>4
<1>7. ASSUME NEW i \in DOMAIN events
      PROVE  events[i] \in Accounted'
  <2>1. CASE i <= k
    <3>1. i \in 1 .. k
      BY <1>4, <2>1
    <3>2. file'[Len(file) + i] = [event |-> events[i], part |-> "whole"]
      BY <1>2, <3>1, Zenon
    <3>3. \E l \in DOMAIN file' : file'[l].event = events[i] /\ file'[l].part # "head"
      BY <1>6, <3>1, <3>2
    <3> QED
      BY <1>4, <3>3 DEF Accounted, Appended
  <2>2. CASE i > k
    <3>1. i \in k + 1 .. Len(events)
      BY <1>2, <1>4, <2>2
    <3> QED
      BY <1>2, <1>4, <3>1 DEF Accounted
  <2> QED
    BY <1>2, <1>4, <2>1, <2>2
<1>8. Accounted \subseteq Accounted'
  <2> SUFFICES ASSUME NEW e \in Accounted PROVE e \in Accounted'
    OBVIOUS
  <2>1. \A o \in Writers : writing[o].event = e => e \in Accounted'
    BY DEF Accounted
  <2> QED
    BY <1>2, <1>6, <2>1, CoveredStays
<1>9. AllCovered'
  <2>1. \A i \in DOMAIN file' : file'[i].event \in Accounted'
    BY <1>1, <1>5, <1>7, <1>8 DEF AllCovered
  <2>2. \A i \in DOMAIN ring' : ring'[i] \in Accounted'
    BY <1>1, <1>3, <1>7, <1>8 DEF AllCovered
  <2> QED
    BY <2>1, <2>2 DEF AllCovered
<1>10. AllWhole'
  <2>1. faults' = 0 => faults = 0
    BY <1>2, <1>4
  <2> QED
    BY <1>1, <1>5, <2>1 DEF AllWhole
<1>11. AllBegun'
  <2>1. \A e : Begun(e) => Begun(e)'
    BY <1>6 DEF Begun
  <2>2. \A i \in DOMAIN file' : file'[i].part = "tail" => i \in DOMAIN file /\ file'[i] = file[i]
    BY <1>5
  <2> QED
    BY <1>1, <2>1, <2>2 DEF AllBegun, Begun
<1>12. unwritten' \subseteq Events
  <2>1. \A i \in k + 1 .. Len(events) : i \in DOMAIN events
    BY <1>2, <1>4
  <2> QED
    BY <1>1, <1>2, <1>4, <2>1 DEF TrailTyped
<1>13. AllKept'
  <2>1. ASSUME NEW e \in Events, Kept(e)
        PROVE  Kept(e)'
    <3>1. nextId["gateway"] <= nextId'["gateway"] /\ nextId'["gateway"] \in Nat
      BY <1>3, <1>4
    <3> QED
      BY <1>3, <1>4, <2>1, <3>1, KeptStays
  <2>2. ASSUME NEW i \in DOMAIN events
        PROVE  Kept(events[i])'
    BY <1>2, <1>3, <1>4 DEF Kept
  <2>3. \A i \in k + 1 .. Len(events) : i \in DOMAIN events
    BY <1>2, <1>4
  <2>4. \A e \in unwritten' : Kept(e)'
    BY <1>1, <1>2, <2>1, <2>2, <2>3 DEF AllKept, TrailTyped
  <2>5. ASSUME NEW o \in Writers, writing[o] # Nothing
        PROVE  Kept(writing[o].event)'
    <3>1. writing[o].event \in Events /\ Kept(writing[o].event)
      BY <1>1, <2>5, WritersWrite DEF AllKept
    <3> QED
      BY <2>1, <3>1 DEF Kept, InRing
  <2> QED
    BY <2>4, <2>5 DEF AllKept
<1>14. TrailTyped'
  BY <1>1, <1>2, <1>3, <1>12 DEF TrailTyped
<1> QED
  BY <1>3, <1>9, <1>10, <1>11, <1>13, <1>14 DEF TrailInv

(* The key's record reaches the file, or the ring alone.                     *)
LEMMA RecordKeyKeeps ==
    ASSUME TrailInv, RecordKey
    PROVE  TrailInv'
<1> DEFINE n == nextId["gateway"]
           event == Event("gateway", n, "key")
           chunk == [event |-> event, part |-> "whole"]
<1>1. TrailTyped /\ RingInOrder /\ AllKept /\ AllCovered /\ AllBegun /\ AllWhole
  BY DEF TrailInv
<1>2. UNCHANGED <<starts, writing, clock, turned, faults>>
  BY DEF RecordKey
<1>3. CASE UNCHANGED <<nextId, ring, file, unwritten>>
  BY <1>1, <1>2, <1>3 DEF TrailInv, TrailTyped, RingInOrder, AllKept, AllCovered, AllBegun, AllWhole,
     Kept, InRing, Begun, Accounted, Appended
<1>4. CASE /\ nextId' = [nextId EXCEPT !["gateway"] = n + 1]
           /\ ring' = Evicted(Append(ring, event))
           /\ \/ file' = Append(file, chunk) /\ UNCHANGED unwritten
              \/ unwritten' = unwritten \union {event} /\ UNCHANGED file
  <2>1. n \in Nat /\ clock \in Nat /\ starts \in Nat
    BY <1>1 DEF TrailTyped
  <2>2. event \in Events /\ event.id = n /\ event.run = starts
    BY <2>1 DEF Event, Events, Kinds
  <2> HIDE DEF n
  <2>3. chunk \in Chunks /\ chunk.event = event /\ chunk.part = "whole"
    BY <2>2 DEF Chunks
  <2> HIDE DEF event, chunk
  <2>4. nextId' \in [{"gateway", "hook"} -> Nat] /\ nextId'["gateway"] = n + 1
    BY <1>1, <1>4, <2>1 DEF TrailTyped
  <2>5. /\ RingInOrder'
        /\ \A i \in DOMAIN ring' : ring'[i] = event \/ \E j \in DOMAIN ring : ring'[i] = ring[j]
        /\ \A f : InRing(f) \/ f = event => InRing(f)' \/ f.id + Capacity < nextId'["gateway"]
    BY <1>1, <1>4, <2>2, <2>4, RingTakes DEF n
  <2>6. /\ file' \in Seq(Chunks)
        /\ \A i \in DOMAIN file : i \in DOMAIN file' /\ file'[i] = file[i]
        /\ \A i \in DOMAIN file' : (i \in DOMAIN file /\ file'[i] = file[i]) \/ file'[i] = chunk
        /\ event \in unwritten' \/ \E i \in DOMAIN file' : file'[i] = chunk
        /\ unwritten \subseteq unwritten'
    <3>1. CASE file' = Append(file, chunk) /\ UNCHANGED unwritten
      BY <1>1, <2>3, <3>1, FileGrows DEF TrailTyped
    <3>2. CASE unwritten' = unwritten \union {event} /\ UNCHANGED file
      BY <1>1, <3>2 DEF TrailTyped
    <3> QED
      BY <1>4, <3>1, <3>2
  <2>7. \A e : Begun(e) => Begun(e)'
    BY <2>6 DEF Begun
  <2>8. AllBegun'
    BY <1>1, <1>2, <2>3, <2>7, <2>6 DEF AllBegun, Begun
  <2>9. event \in Accounted'
    BY <2>2, <2>3, <2>6 DEF Accounted, Appended
  <2>10. Accounted \subseteq Accounted'
    <3> SUFFICES ASSUME NEW e \in Accounted PROVE e \in Accounted'
      OBVIOUS
    <3>1. \A o \in Writers : writing[o].event = e => e \in Accounted'
      BY <1>2 DEF Accounted
    <3> QED
      BY <2>6, <3>1, CoveredStays
  <2>11. AllCovered'
    <3>1. \A i \in DOMAIN file' : file'[i].event \in Accounted'
      BY <1>1, <2>3, <2>6, <2>9, <2>10 DEF AllCovered
    <3>2. \A i \in DOMAIN ring' : ring'[i] \in Accounted'
      BY <1>1, <2>5, <2>9, <2>10 DEF AllCovered
    <3> QED
      BY <3>1, <3>2 DEF AllCovered
  <2>12. AllWhole'
    BY <1>1, <1>2, <2>3, <2>6 DEF AllWhole
  <2>13. TrailTyped'
    BY <1>1, <1>2, <1>4, <2>2, <2>4, <2>6 DEF TrailTyped
  <2>14. AllKept'
    <3>1. ASSUME NEW e \in Events, Kept(e)
          PROVE  Kept(e)'
      <4>1. n <= nextId'["gateway"] /\ nextId'["gateway"] \in Nat
        BY <2>1, <2>4
      <4> QED
        BY <1>2, <2>1, <2>5, <3>1, <4>1, KeptStays DEF n
    <3>2. ASSUME NEW e, e = event
          PROVE  Kept(e)'
      BY <1>2, <2>1, <2>2, <2>5, <3>2 DEF Kept
    <3>3. \A e \in unwritten' : Kept(e)'
      BY <1>1, <1>4, <3>1, <3>2 DEF AllKept, TrailTyped
    <3>4. ASSUME NEW o \in Writers, writing[o] # Nothing
          PROVE  Kept(writing[o].event)'
      <4>1. writing[o].event \in Events /\ Kept(writing[o].event)
        BY <1>1, <3>4, WritersWrite DEF AllKept
      <4> QED
        BY <1>2, <3>1, <4>1 DEF Kept, InRing
    <3> QED
      BY <1>2, <3>3, <3>4 DEF AllKept, Kept, InRing
  <2> QED
    BY <2>5, <2>8, <2>11, <2>12, <2>13, <2>14 DEF TrailInv
<1> QED
  BY <1>3, <1>4 DEF RecordKey

(* So do the steps of the start, which only open the sink or begin again.    *)
LEMMA TrailKept ==
    ASSUME TrailInv, [Next]_vars
    PROVE  TrailInv'
<1>1. CASE TrailStep \/ TimePasses
  BY <1>1, TrailStepKeeps DEF TimePasses, TrailStep
<1>2. CASE OpenSink
  <2>1. UNCHANGED <<starts, writing, clock, turned>>
    BY <1>2 DEF OpenSink
  <2>2. CASE Observed(sink')
    <3>1. PICK s : Observed(s)
      BY <2>2
    <3> QED
      BY <2>1, <3>1, ObservedKeeps
  <2>3. CASE UNCHANGED <<nextId, ring, file, unwritten, faults>>
    BY <2>1, <2>3 DEF TrailInv, TrailTyped, RingInOrder, AllKept, AllCovered, AllBegun, AllWhole,
     Kept, InRing, Begun, Accounted, Appended
  <2>4. Observed(sink') \/ UNCHANGED <<nextId, ring, file, unwritten, faults>>
    <3>1. CASE walk'.next = "opened"
      BY <1>2, <3>1 DEF OpenSink
    <3>2. CASE walk'.next = "refused"
      BY <1>2, <3>2 DEF OpenSink
    <3>3. CASE walk'.next # "opened" /\ walk'.next # "refused"
      BY <1>2, <3>3 DEF OpenSink
    <3> QED
      BY <3>1, <3>2, <3>3
  <2> QED
    BY <2>2, <2>3, <2>4
<1>3. CASE RecordKey
  BY <1>3, RecordKeyKeeps
<1>4. CASE Restart
  <2>1. /\ ring' = <<>> /\ nextId' = [nextId EXCEPT !["gateway"] = 1]
        /\ UNCHANGED <<writing, file, unwritten, clock, turned, faults>> /\ starts' = starts + 1
    BY <1>4 DEF Restart
  <2>2. TrailTyped' /\ AllWhole'
    BY <2>1 DEF TrailInv, TrailTyped, AllWhole
  <2>3. RingInOrder'
    BY <2>1, CapacityAssumption DEF RingInOrder, InOrder
  <2>4. AllCovered'
    BY <2>1 DEF TrailInv, AllCovered, Accounted, Appended
  <2>5. AllBegun'
    BY <2>1 DEF TrailInv, AllBegun, Begun
  <2>6. AllKept'
    <3>1. ASSUME NEW e \in Events, Kept(e)
          PROVE  Kept(e)'
      <4>1. starts \in Nat /\ e.run \in Nat
        BY DEF Events, TrailInv, TrailTyped
      <4>2. e.by = "gateway" => e.run <= starts' /\ e.run # starts'
        BY <2>1, <3>1, <4>1 DEF Kept
      <4> QED
        BY <4>2 DEF Kept
    <3>2. \A e \in unwritten : e \in Events /\ Kept(e)
      BY DEF TrailInv, TrailTyped, AllKept
    <3>3. \A r \in Writers : writing[r] # Nothing => writing[r].event \in Events /\ Kept(writing[r].event)
      BY WritersWrite DEF TrailInv, AllKept
    <3>4. \A e \in unwritten' : Kept(e)'
      BY <2>1, <3>1, <3>2 DEF Kept, InRing
    <3>5. \A r \in Writers : writing'[r] # Nothing => Kept(writing[r].event)'
      BY <2>1, <3>1, <3>3 DEF Kept, InRing
    <3> QED
      BY <3>4, <3>5 DEF AllKept, Kept, InRing
  <2> QED
    BY <2>2, <2>3, <2>4, <2>5, <2>6 DEF TrailInv
<1>5. CASE UNCHANGED trailVars
  BY <1>5 DEF trailVars, TrailInv, TrailTyped, RingInOrder, AllKept, AllCovered, AllBegun, AllWhole,
     Kept, InRing, Begun, Accounted, Appended
<1>6. TrailStep \/ TimePasses \/ OpenSink \/ RecordKey \/ Restart \/ UNCHANGED trailVars
  BY DEF Next, Start, Serve, OthersChange, PlainStep, StepFails, EphemeralCa, LoadCa,
     WriteCaKey, WriteCaCert, ReadKey, Dies, vars
<1> QED
  BY <1>1, <1>2, <1>3, <1>4, <1>5, <1>6

(* An empty trail covers nothing and has lost nothing.                       *)
LEMMA TrailInitHolds ==
    ASSUME Init
    PROVE  TrailInv
<1>1. TrailInit
  BY DEF Init
<1>2. TrailTyped
  BY <1>1 DEF TrailInit, TrailTyped
<1>3. RingInOrder
  BY <1>1, CapacityAssumption DEF TrailInit, RingInOrder, InOrder
<1>4. AllCovered
  BY <1>1 DEF TrailInit, AllCovered
<1>5. AllWhole /\ AllBegun
  BY <1>1 DEF TrailInit, AllWhole, AllBegun, Nothing
<1>6. AllKept
  BY <1>1 DEF TrailInit, AllKept
<1> QED
  BY <1>2, <1>3, <1>4, <1>5, <1>6 DEF TrailInv

(* The ring and the file of any capacity hold what was recorded, in order.   *)
THEOREM TrailInductive == Spec => []TrailInv
<1>1. Init => TrailInv
  BY TrailInitHolds
<1>2. TrailInv /\ [Next]_vars => TrailInv'
  BY TrailKept
<1> QED
  BY <1>1, <1>2, PTL DEF Spec

(* A line that is in the file to its end can be read back, unless it shares *)
(* a line with a write that was cut short.                                  *)
LEMMA ReadBackOrSpoiled ==
    ASSUME TrailInv, NEW e, Appended(e)
    PROVE  ReadBack(e) \/ Spoiled(e)
<1>1. file \in Seq(Chunks) /\ AllBegun
  BY DEF TrailInv, TrailTyped
<1>2. Len(file) \in Nat /\ DOMAIN file = 1 .. Len(file)
      /\ \A i \in DOMAIN file : file[i].part \in {"whole", "head", "tail"} /\ file[i] \in Chunks
  <2>1. \A i \in DOMAIN file : file[i] \in Chunks
    BY <1>1
  <2> QED
    BY <1>1, <2>1 DEF Chunks
<1>3. PICK i \in DOMAIN file : file[i].event = e /\ file[i].part # "head"
  BY DEF Appended
<1>4. ASSUME NEW j \in DOMAIN file, NEW h \in DOMAIN file, h = j - 1, file[h].part = "head",
             file[j].part # "tail", file[j].event = e
      PROVE  Spoiled(e)
  <2>1. j = h + 1
    BY <1>2, <1>4
  <2>2. Torn(h)
    BY <1>4, <2>1 DEF Torn
  <2> QED
    BY <1>4, <2>1, <2>2 DEF Spoiled
<1>5. \A j \in DOMAIN file : StartsLine(j) \/ (j - 1 \in DOMAIN file /\ file[j - 1].part = "head")
  BY <1>2 DEF StartsLine
<1>6. CASE file[i].part = "whole"
  <2>1. CASE StartsLine(i)
    BY <1>3, <1>6, <2>1 DEF ReadBack, ParseJsonl, Parses
  <2>2. CASE ~StartsLine(i)
    BY <1>3, <1>4, <1>5, <1>6, <2>2
  <2> QED
    BY <2>1, <2>2
<1>7. CASE file[i].part = "tail"
  <2>1. PICK h \in DOMAIN file : file[h].event = e /\ file[h].part = "head"
    BY <1>1, <1>3, <1>7 DEF AllBegun, Begun
  <2>2. CASE Torn(h)
    BY <2>1, <2>2 DEF Spoiled
  <2>3. CASE ~Torn(h)
    <3>1. PICK j \in DOMAIN file : j = h + 1 /\ file[j] = [event |-> e, part |-> "tail"]
      BY <2>1, <2>3 DEF Torn
    <3>2. h = j - 1 /\ j > 1
      BY <1>2, <3>1
    <3>3. CASE StartsLine(h)
      <4>1. Parses(j)
        BY <2>1, <3>1, <3>2, <3>3 DEF Parses
      <4> QED
        BY <3>1, <4>1 DEF ReadBack, ParseJsonl
    <3>4. CASE ~StartsLine(h)
      BY <1>4, <1>5, <2>1, <3>4
    <3> QED
      BY <3>3, <3>4
  <2> QED
    BY <2>2, <2>3
<1> QED
  BY <1>2, <1>3, <1>6, <1>7

(* Nothing that got an id goes missing from the log but by a failing or a    *)
(* cut write, however many threads and hook processes append at once: it is *)
(* on its way to the file or in it, or its append failed, and then a        *)
(* gateway's is still in the ring until Capacity newer ones have come; and  *)
(* what is in the file can be read back unless it shares a line with a      *)
(* write that was cut short (record, record_durable, append_jsonl).         *)
THEOREM NothingIsLostSilently == Spec => []NoSilentLoss
<1>1. TrailInv => NoSilentLoss
  <2> SUFFICES ASSUME TrailInv PROVE NoSilentLoss
    OBVIOUS
  <2>1. TrailTyped /\ RingInOrder /\ AllKept /\ AllCovered /\ AllWhole
    BY DEF TrailInv
  <2>2. ASSUME NEW e \in Given
        PROVE  Appended(e) \/ e \in unwritten \/ Underway(e)
    <3>1. CASE e \in {writing[r].event : r \in {w \in Writers : writing[w] # Nothing}}
      BY <3>1 DEF Underway
    <3>2. CASE e \in {file[i].event : i \in DOMAIN file}
      BY <2>1, <3>2 DEF AllCovered, Accounted, Underway
    <3>3. CASE e \in ToSet(ring)
      BY <2>1, <3>3 DEF ToSet, AllCovered, Accounted, Underway
    <3> QED
      BY <2>2, <3>1, <3>2, <3>3 DEF Given
  <2>3. ASSUME faults = 0
        PROVE  ~Malformed /\ \A i \in DOMAIN file : file[i].part # "head"
    <3>1. \A i \in DOMAIN file : file[i].part = "whole"
      BY <2>1, <2>3 DEF AllWhole
    <3>2. \A i \in DOMAIN file : i = 1 \/ i - 1 \in DOMAIN file
      BY <2>1 DEF TrailTyped
    <3> QED
      BY <3>1, <3>2 DEF Malformed, Parses, StartsLine
  <2>4. ASSUME NEW e \in unwritten, e.by = "gateway", e.run = starts
        PROVE  InRing(e) \/ e.id + Capacity < nextId["gateway"]
    BY <2>1, <2>4 DEF AllKept, Kept
  <2> QED
    BY <2>2, <2>3, <2>4, ReadBackOrSpoiled DEF NoSilentLoss
<1> QED
  BY <1>1, TrailInductive, PTL

(* All of a sequence.                                                       *)
LEMMA WholeSubSeq ==
    ASSUME NEW S, NEW q \in Seq(S)
    PROVE  SubSeq(q, 1, Len(q)) = q
OBVIOUS

(* What the management API lists of the ring is in the order of the numbers, *)
(* newest first, whatever was evicted meanwhile (AuditLog::recent).         *)
RecentIsNewestFirst ==
    \A i, j \in DOMAIN Recent(Capacity) :
        i < j => Recent(Capacity)[i].id > Recent(Capacity)[j].id

(* It lists the ring backwards.                                             *)
LEMMA RecentIsOfTheRing ==
    ASSUME TrailInv
    PROVE  /\ \A i \in DOMAIN Recent(Capacity) : \E j \in DOMAIN ring : Recent(Capacity)[i] = ring[j]
           /\ RecentIsNewestFirst
<1> DEFINE n == Len(ring)
<1>1. ring \in Seq(Events) /\ n \in Nat /\ n <= Capacity /\ Capacity \in Nat
      /\ \A k, l \in DOMAIN ring : k < l => ring[k].id < ring[l].id
  BY CapacityAssumption, OrderTells DEF TrailInv, TrailTyped, RingInOrder, InOrder
<1>2. /\ Reverse(ring) \in Seq(Events) /\ Len(Reverse(ring)) = n
      /\ \A k \in 1 .. n : Reverse(ring)[k] = ring[n - k + 1]
  BY <1>1 DEF Reverse
<1>3. Recent(Capacity) = Reverse(ring)
  <2>1. Recent(Capacity) = SubSeq(Reverse(ring), 1, n)
    BY <1>1, <1>2 DEF Recent
  <2> QED
    BY <1>2, <2>1, WholeSubSeq
<1>4. \A k \in DOMAIN Recent(Capacity) : k \in 1 .. n /\ Recent(Capacity)[k] = ring[n - k + 1]
  BY <1>1, <1>2, <1>3
<1> HIDE DEF n
<1>5. DOMAIN ring = 1 .. n
  BY <1>1 DEF n
<1>6. \A k \in 1 .. n : n - k + 1 \in 1 .. n
  BY <1>1
<1>7. ASSUME NEW i \in DOMAIN Recent(Capacity), NEW j \in DOMAIN Recent(Capacity), i < j
      PROVE  Recent(Capacity)[i].id > Recent(Capacity)[j].id
  <2>1. n - j + 1 \in 1 .. n /\ n - i + 1 \in 1 .. n /\ n - j + 1 < n - i + 1
    BY <1>1, <1>4, <1>7
  <2>2. ring[n - j + 1].id < ring[n - i + 1].id
    BY <1>1, <1>5, <2>1
  <2>3. ring[n - j + 1] \in Events /\ ring[n - i + 1] \in Events
    BY <1>1, <1>5, <2>1
  <2> QED
    BY <1>4, <2>2, <2>3 DEF Events
<1> QED
  BY <1>4, <1>5, <1>6, <1>7 DEF RecentIsNewestFirst

(* So it is in every state: the ring's half of ListedNewestFirst.           *)
THEOREM RecentInOrder == Spec => []RecentIsNewestFirst
<1>1. TrailInv => RecentIsNewestFirst
  BY RecentIsOfTheRing
<1> QED
  BY <1>1, TrailInductive, PTL

-----------------------------------------------------------------------------
(* The order of the log: what a gateway numbers later it also stamps later,  *)
(* unless the clock was set back.                                            *)

(* Events the gateways have in the file or have yet to write.               *)
Logged == {e \in {file[i].event : i \in DOMAIN file} \union {writing[r].event : r \in Writers} :
               e.by = "gateway"}

Ahead(e, f) ==
    /\ (e.run < f.run \/ (e.run = f.run /\ e.id < f.id))
    /\ turned = 0 => e.at <= f.at

(* An event numbered now, below n.                                          *)
OfNow(e, n) ==
    /\ e \in Events /\ e.by = "gateway" /\ e.run = starts /\ e.at = clock
    /\ nextId["gateway"] <= e.id /\ e.id < n

LoggedInOrder ==
    /\ \A e \in Logged : /\ e.run <= starts
                         /\ turned = 0 => e.at <= clock
                         /\ e.run = starts => e.id < nextId["gateway"]
    /\ \A e, f \in Logged : e = f \/ Ahead(e, f) \/ Ahead(f, e)

(* No event ends two lines, nor is written by two threads.                  *)
LoggedOnce ==
    /\ \A i, j \in DOMAIN file :
           /\ file[i].event = file[j].event /\ file[i].event.by = "gateway"
           /\ file[i].part # "head" /\ file[j].part # "head"
           => i = j
    /\ \A r \in Writers : writing[r].event.by = "gateway" =>
           /\ \A i \in DOMAIN file : file[i].event = writing[r].event => file[i].part = "head"
           /\ \A o \in Writers : writing[o].event = writing[r].event => o = r

PageInOrder ==
    turned = 0 => \A i, j \in DOMAIN page :
        i < j /\ page[i].by = "gateway" /\ page[j].by = "gateway" =>
            IF page[i].run = page[j].run THEN page[i].id > page[j].id
            ELSE page[i].at # page[j].at => page[i].run > page[j].run

StoryInv == LoggedInOrder /\ LoggedOnce /\ PageInOrder

LEMMA LoggedAreEvents ==
    ASSUME TrailTyped
    PROVE  \A e \in Logged : e \in Events /\ e.run \in Nat /\ e.id \in Nat /\ e.at \in Nat
<1> SUFFICES ASSUME NEW e \in Logged PROVE e \in Events
  BY DEF Events
<1>1. CASE \E i \in DOMAIN file : file[i].event = e
  <2>1. PICK i \in DOMAIN file : file[i].event = e
    BY <1>1
  <2>2. file[i] \in Chunks
    BY <2>1 DEF TrailTyped
  <2> QED
    BY <2>1, <2>2 DEF Chunks
<1>2. CASE \E r \in Writers : writing[r].event = e
  <2>1. PICK r \in Writers : writing[r].event = e
    BY <1>2
  <2>2. writing[r] # Nothing
    BY <2>1 DEF Nothing, Logged
  <2> QED
    BY <2>1, <2>2, WritersWrite
<1> QED
  BY <1>1, <1>2 DEF Logged

(* A new number is ahead of none.                                           *)
LEMMA NumberingKeepsStory ==
    ASSUME TrailTyped, LoggedInOrder, UNCHANGED <<starts, clock, turned>>,
           NEW m \in Nat, nextId["gateway"] <= m, nextId'["gateway"] = m,
           NEW New, \A e \in New : OfNow(e, m),
           \A e, f \in New : e.id = f.id => e = f,
           Logged' \subseteq Logged \union New
    PROVE  LoggedInOrder'
<1>1. starts \in Nat /\ clock \in Nat /\ nextId["gateway"] \in Nat
  BY DEF TrailTyped
<1>2. \A e \in New : e.id \in Nat /\ e.run = starts /\ e.at = clock /\ nextId["gateway"] <= e.id /\ e.id < m
  BY DEF OfNow, Events
<1>3. ASSUME NEW e \in Logged'
      PROVE  e.run <= starts /\ (turned = 0 => e.at <= clock) /\ (e.run = starts => e.id < m)
  <2>1. CASE e \in Logged
    BY <1>1, <2>1, LoggedAreEvents DEF LoggedInOrder
  <2>2. CASE e \in New
    BY <1>1, <1>2, <2>2
  <2> QED
    BY <2>1, <2>2
<1>4. ASSUME NEW e \in Logged, NEW f \in New
      PROVE  Ahead(e, f)
  BY <1>1, <1>2, LoggedAreEvents DEF LoggedInOrder, Ahead
<1>5. ASSUME NEW e \in New, NEW f \in New
      PROVE  e = f \/ Ahead(e, f) \/ Ahead(f, e)
  BY <1>1, <1>2 DEF Ahead
<1>6. \A e, f \in Logged' : e = f \/ Ahead(e, f) \/ Ahead(f, e)
  BY <1>4, <1>5 DEF LoggedInOrder
<1> QED
  BY <1>3, <1>6 DEF LoggedInOrder, Ahead

(* What was logged before is not among what is numbered now.                *)
LEMMA NumberedOnce ==
    ASSUME TrailTyped, LoggedInOrder, NEW m, NEW e, OfNow(e, m)
    PROVE  e \notin Logged
<1> SUFFICES ASSUME e \in Logged PROVE FALSE
  OBVIOUS
<1>1. e.run = starts /\ nextId["gateway"] <= e.id /\ e.id \in Nat /\ nextId["gateway"] \in Nat
  BY DEF OfNow, Events, TrailTyped
<1> QED
  BY <1>1 DEF LoggedInOrder

(* Records that go to the file at once are each there once.                 *)
LEMMA WrittenAtOnce ==
    ASSUME TrailTyped, LoggedInOrder, LoggedOnce, UNCHANGED <<starts, clock, turned, writing>>,
           NEW m \in Nat, nextId["gateway"] <= m, nextId'["gateway"] = m,
           \A i \in DOMAIN file : i \in DOMAIN file' /\ file'[i] = file[i],
           \A i \in DOMAIN file' : i \notin DOMAIN file => OfNow(file'[i].event, m),
           \A i, j \in DOMAIN file' :
               i \notin DOMAIN file /\ j \notin DOMAIN file /\ file'[i].event.id = file'[j].event.id
               => i = j
    PROVE  LoggedInOrder' /\ LoggedOnce'
<1> DEFINE New == {file'[i].event : i \in DOMAIN file' \ DOMAIN file}
<1>1. /\ \A e \in New : OfNow(e, m)
      /\ \A e, f \in New : e.id = f.id => e = f
  OBVIOUS
<1>2. Logged' \subseteq Logged \union New
  BY DEF Logged
<1> HIDE DEF New
<1>3. LoggedInOrder'
  BY <1>1, <1>2, NumberingKeepsStory
<1>4. \A i \in DOMAIN file' : i \notin DOMAIN file => file'[i].event \notin Logged
  BY NumberedOnce
<1>5. \A i \in DOMAIN file : file[i].event.by = "gateway" => file[i].event \in Logged
  BY DEF Logged
<1>6. ASSUME NEW i \in DOMAIN file', NEW j \in DOMAIN file',
             file'[i].event = file'[j].event, file'[i].event.by = "gateway",
             file'[i].part # "head", file'[j].part # "head"
      PROVE  i = j
  <2>1. CASE i \in DOMAIN file /\ j \in DOMAIN file
    BY <1>6, <2>1 DEF LoggedOnce
  <2>2. CASE i \notin DOMAIN file /\ j \notin DOMAIN file
    BY <1>6, <2>2
  <2>3. ~(i \in DOMAIN file /\ j \notin DOMAIN file) /\ ~(j \in DOMAIN file /\ i \notin DOMAIN file)
    BY <1>4, <1>5, <1>6
  <2> QED
    BY <2>1, <2>2, <2>3
<1>7. ASSUME NEW r \in Writers, writing'[r].event.by = "gateway"
      PROVE  /\ \A i \in DOMAIN file' : file'[i].event = writing'[r].event => file'[i].part = "head"
             /\ \A o \in Writers : writing'[o].event = writing'[r].event => o = r
  <2>1. writing'[r].event \in Logged
    BY <1>7 DEF Logged
  <2> QED
    BY <1>4, <1>7, <2>1 DEF LoggedOnce
<1> QED
  BY <1>3, <1>6, <1>7 DEF LoggedOnce

(* So are those a thread has yet to write.                                  *)
LEMMA RecordKeepsStory ==
    ASSUME TrailInv, StoryInv, NEW r \in Writers, RecordDurable(r)
    PROVE  StoryInv'
<1> DEFINE p == ProcessOf(r)
           event == Event(p, nextId[p], "decision")
<1>1. TrailTyped /\ RingInOrder /\ LoggedInOrder /\ LoggedOnce /\ PageInOrder
  BY DEF TrailInv, StoryInv
<1>2. p \in {"gateway", "hook"} /\ nextId[p] \in Nat /\ clock \in Nat /\ starts \in Nat
      /\ nextId["gateway"] \in Nat
  BY <1>1 DEF ProcessOf, TrailTyped
<1>3. event \in Events /\ event.id = nextId[p] /\ event.by = p /\ event.run = starts /\ event.at = clock
  BY <1>2 DEF Event, Events, Kinds
<1>4. /\ writing[r] = Nothing /\ UNCHANGED <<starts, file, unwritten, clock, turned, faults, page>>
      /\ nextId' = [nextId EXCEPT ![p] = nextId[p] + 1]
      /\ ring' = IF p = "gateway" THEN Evicted(Append(ring, event)) ELSE ring
      /\ writing' = [writing EXCEPT ![r] = [event |-> event, left |-> "whole"]]
  BY DEF RecordDurable, Numbered
<1> HIDE DEF event, p
<1>5. r \in DOMAIN writing /\ writing'[r].event = event
      /\ \A o \in Writers : o # r => writing'[o] = writing[o]
  BY <1>1, <1>4 DEF TrailTyped
<1>6. PageInOrder'
  BY <1>1, <1>4 DEF PageInOrder
<1>7. CASE p = "gateway"
  <2> DEFINE m == nextId["gateway"] + 1
  <2>1. m \in Nat /\ nextId["gateway"] <= m /\ nextId'["gateway"] = m
    BY <1>1, <1>2, <1>4, <1>7 DEF TrailTyped
  <2>2. OfNow(event, m)
    BY <1>2, <1>3, <1>7 DEF OfNow
  <2> HIDE DEF m
  <2>3. Logged' \subseteq Logged \union {event}
    BY <1>4, <1>5 DEF Logged
  <2>4. LoggedInOrder'
    BY <1>1, <1>4, <2>1, <2>2, <2>3, NumberingKeepsStory
  <2>5. event \notin Logged
    BY <1>1, <2>2, NumberedOnce
  <2>6. LoggedOnce'
    <3>1. \A i, j \in DOMAIN file' :
              /\ file'[i].event = file'[j].event /\ file'[i].event.by = "gateway"
              /\ file'[i].part # "head" /\ file'[j].part # "head"
              => i = j
      BY <1>1, <1>4 DEF LoggedOnce
    <3>2. \A i \in DOMAIN file : file[i].event # event
      BY <1>3, <1>7, <2>5 DEF Logged
    <3>3. \A o \in Writers : writing[o].event # event
      BY <1>3, <1>7, <2>5 DEF Logged
    <3>4. ASSUME NEW w \in Writers, writing'[w].event.by = "gateway"
          PROVE  /\ \A i \in DOMAIN file' : file'[i].event = writing'[w].event => file'[i].part = "head"
                 /\ \A o \in Writers : writing'[o].event = writing'[w].event => o = w
      <4>1. CASE w = r
        BY <1>4, <1>5, <3>2, <3>3, <4>1
      <4>2. CASE w # r
        BY <1>1, <1>4, <1>5, <3>3, <3>4, <4>2 DEF LoggedOnce
      <4> QED
        BY <4>1, <4>2
    <3> QED
      BY <3>1, <3>4 DEF LoggedOnce
  <2> QED
    BY <1>6, <2>4, <2>6 DEF StoryInv
<1>8. CASE p = "hook"
  <2>1. nextId'["gateway"] = nextId["gateway"] /\ ring' = ring
    BY <1>1, <1>4, <1>8 DEF TrailTyped
  <2>2. Logged' \subseteq Logged
    BY <1>3, <1>4, <1>5, <1>8 DEF Logged
  <2>3. LoggedInOrder'
    BY <1>1, <1>4, <2>1, <2>2 DEF LoggedInOrder, Ahead
  <2>4. LoggedOnce'
    <3>1. \A w \in Writers : writing'[w].event.by = "gateway" => w # r
      BY <1>3, <1>5, <1>8
    <3> QED
      BY <1>1, <1>3, <1>4, <1>5, <1>8, <3>1 DEF LoggedOnce
  <2> QED
    BY <1>6, <2>3, <2>4 DEF StoryInv
<1> QED
  BY <1>2, <1>7, <1>8

(* A thread that writes its event, in one piece or two, writes it once.      *)
LEMMA WriterStepKeepsStory ==
    ASSUME TrailInv, StoryInv, NEW r \in Writers, writing[r] # Nothing,
           UNCHANGED <<starts, ring, nextId, clock, turned, page>>,
           \/ \/ /\ file' = Append(file, [event |-> writing[r].event, part |-> writing[r].left])
                 /\ writing' = [writing EXCEPT ![r] = Nothing]
              \/ /\ file' = Append(file, [event |-> writing[r].event, part |-> "head"])
                 /\ writing' = [writing EXCEPT ![r].left = "tail"]
           \/ /\ UNCHANGED file
              /\ writing' = [writing EXCEPT ![r] = Nothing]
    PROVE  StoryInv'
<1>1. TrailTyped /\ LoggedInOrder /\ LoggedOnce /\ PageInOrder
  BY DEF TrailInv, StoryInv
<1> DEFINE event == writing[r].event
<1>2. event \in Events /\ writing[r].left \in {"whole", "tail"}
      /\ writing[r] \in [event : Events, left : {"whole", "tail"}]
  BY <1>1, WritersWrite DEF TrailTyped
<1>3. r \in DOMAIN writing /\ \A o \in Writers : o # r => writing'[o] = writing[o]
  BY <1>1 DEF TrailTyped
<1>4. \/ writing'[r] = Nothing
      \/ writing'[r].event = event /\ file' = Append(file, [event |-> event, part |-> "head"])
  BY <1>1, <1>2 DEF TrailTyped
<1>5. \/ UNCHANGED file
      \/ \E part \in {"whole", "head", "tail"} :
            /\ file' = Append(file, [event |-> event, part |-> part])
            /\ part = "head" \/ writing'[r] = Nothing
  BY <1>1, <1>2, <1>3 DEF TrailTyped
<1>6. PICK part \in {"whole", "head", "tail"} :
         \/ UNCHANGED file
         \/ /\ file' = Append(file, [event |-> event, part |-> part])
            /\ part = "head" \/ writing'[r] = Nothing
  BY <1>5
<1> DEFINE chunk == [event |-> event, part |-> part]
<1>7. chunk \in Chunks /\ chunk.event = event /\ chunk.part = part
  BY <1>2 DEF Chunks
<1> HIDE DEF event, chunk
<1>8. /\ \A i \in DOMAIN file : i \in DOMAIN file' /\ file'[i] = file[i]
      /\ \A i \in DOMAIN file' :
            \/ i \in DOMAIN file /\ file'[i] = file[i]
            \/ i = Len(file) + 1 /\ file'[i] = chunk /\ (part = "head" \/ writing'[r] = Nothing)
      /\ Len(file) \in Nat /\ DOMAIN file = 1 .. Len(file)
  <2>1. CASE UNCHANGED file
    BY <1>1, <2>1 DEF TrailTyped
  <2>2. CASE file' = Append(file, chunk) /\ (part = "head" \/ writing'[r] = Nothing)
    <3> HIDE DEF Chunks
    <3>1. file \in Seq(Chunks) /\ file' = Append(file, chunk)
      BY <1>1, <2>2 DEF TrailTyped
    <3>2. /\ Len(file') = Len(file) + 1 /\ Len(file) \in Nat /\ file' \in Seq(Chunks)
          /\ \A i \in 1 .. Len(file) : file'[i] = file[i]
          /\ file'[Len(file) + 1] = chunk
      BY <1>7, <3>1
    <3> QED
      BY <2>2, <3>1, <3>2
  <2> QED
    BY <1>6, <2>1, <2>2 DEF chunk
<1>9. writing'[r] = Nothing \/ writing'[r].event = event
  BY <1>4
<1>10. Nothing.event.by # "gateway"
  BY DEF Nothing
<1>11. Logged' \subseteq Logged
  <2> SUFFICES ASSUME NEW e \in Logged' PROVE e \in Logged
    OBVIOUS
  <2>1. e.by = "gateway"
    BY DEF Logged
  <2>2. CASE \E i \in DOMAIN file' : file'[i].event = e
    <3>1. (\E i \in DOMAIN file : file[i].event = e) \/ e = event
      BY <1>7, <1>8, <2>2
    <3> QED
      BY <2>1, <3>1 DEF Logged, event
  <2>3. CASE \E o \in Writers : writing'[o].event = e
    BY <1>3, <1>9, <1>10, <2>1, <2>3 DEF Logged, event
  <2> QED
    BY <2>2, <2>3 DEF Logged
<1>12. LoggedInOrder'
  BY <1>1, <1>11 DEF LoggedInOrder, Ahead
<1>13. event.by = "gateway" =>
           /\ \A i \in DOMAIN file : file[i].event = event => file[i].part = "head"
           /\ \A o \in Writers : writing[o].event = event => o = r
  BY <1>1 DEF LoggedOnce, event
<1>14. ASSUME NEW i \in DOMAIN file', NEW j \in DOMAIN file',
              file'[i].event = file'[j].event, file'[i].event.by = "gateway",
              file'[i].part # "head", file'[j].part # "head"
       PROVE  i = j
  <2>1. CASE i \in DOMAIN file /\ j \in DOMAIN file
    BY <1>1, <1>8, <1>14, <2>1 DEF LoggedOnce
  <2>2. CASE i \notin DOMAIN file /\ j \notin DOMAIN file
    BY <1>8, <2>2
  <2>3. ~(i \in DOMAIN file /\ j \notin DOMAIN file) /\ ~(j \in DOMAIN file /\ i \notin DOMAIN file)
    BY <1>7, <1>8, <1>13, <1>14
  <2> QED
    BY <2>1, <2>2, <2>3
<1>15. ASSUME NEW w \in Writers, writing'[w].event.by = "gateway"
       PROVE  /\ \A i \in DOMAIN file' : file'[i].event = writing'[w].event => file'[i].part = "head"
              /\ \A o \in Writers : writing'[o].event = writing'[w].event => o = w
  <2>1. writing[w].event = writing'[w].event
    BY <1>3, <1>9, <1>10, <1>15 DEF event
  <2>2. \A o \in Writers : writing'[o].event = writing'[w].event => writing[o].event = writing[w].event
    BY <1>3, <1>9, <1>10, <1>15, <2>1 DEF event
  <2>3. ASSUME NEW i \in DOMAIN file', file'[i].event = writing'[w].event, i \notin DOMAIN file
        PROVE  file'[i].part = "head"
    <3>1. file'[i].event = event /\ file'[i].part = part /\ (part = "head" \/ writing'[r] = Nothing)
      BY <1>7, <1>8, <2>3
    <3>2. w = r
      BY <1>13, <1>15, <2>1, <2>3, <3>1
    <3> QED
      BY <1>10, <1>15, <3>1, <3>2
  <2> QED
    BY <1>1, <1>8, <1>15, <2>1, <2>2, <2>3 DEF LoggedOnce
<1>16. PageInOrder'
  BY <1>1 DEF PageInOrder
<1> QED
  BY <1>12, <1>14, <1>15, <1>16 DEF StoryInv, LoggedOnce

(* The reader's order is the gateway's own, where the clock tells.           *)
LEMMA ReadingKeepsStory ==
    ASSUME TrailInv, StoryInv, ReadAuditFile
    PROVE  StoryInv'
<1>1. TrailTyped /\ LoggedInOrder /\ LoggedOnce
  BY DEF TrailInv, StoryInv
<1>2. UNCHANGED <<starts, ring, nextId, writing, file, clock, turned>>
  BY DEF ReadAuditFile
<1>3. PICK order \in QueryAudit : page' = [k \in DOMAIN order |-> file[order[k]].event]
  BY DEF ReadAuditFile
<1>4. /\ \A k \in DOMAIN order : order[k] \in DOMAIN file /\ Parses(order[k])
      /\ \A k, l \in DOMAIN order : k # l => order[k] # order[l]
      /\ \A k, l \in DOMAIN order : k < l => Precedes(order[k], order[l])
      /\ \E n : DOMAIN order = 1 .. n
  BY <1>3 DEF QueryAudit, SetToSeqs, ParseJsonl
<1>5. \A k \in DOMAIN order : file[order[k]].part # "head"
  BY <1>4 DEF Parses
<1>6. ASSUME turned = 0, NEW k \in DOMAIN order, NEW l \in DOMAIN order, k < l,
             file[order[k]].event.by = "gateway", file[order[l]].event.by = "gateway"
      PROVE  LET e == file[order[k]].event
                 f == file[order[l]].event IN
             IF e.run = f.run THEN e.id > f.id ELSE e.at # f.at => e.run > f.run
  <2> DEFINE e == file[order[k]].event
             f == file[order[l]].event
  <2>1. e \in Logged /\ f \in Logged
    BY <1>4, <1>6 DEF Logged
  <2>2. /\ e.run \in Nat /\ e.id \in Nat /\ e.at \in Nat
        /\ f.run \in Nat /\ f.id \in Nat /\ f.at \in Nat
    BY <1>1, <2>1, LoggedAreEvents
  <2>3. order[k] # order[l]
    <3>1. k # l
      BY <1>4, <1>6
    <3> QED
      BY <1>4, <3>1
  <2>4. e # f
    BY <1>1, <1>4, <1>5, <1>6, <2>3 DEF LoggedOnce
  <2>5. Ahead(e, f) \/ Ahead(f, e)
    BY <1>1, <2>1, <2>4 DEF LoggedInOrder
  <2>6. Newer(e, f) \/ ~Newer(f, e)
    BY <1>4, <1>6 DEF Precedes
  <2> HIDE DEF e, f
  <2>7. IF e.run = f.run THEN e.id > f.id ELSE e.at # f.at => e.run > f.run
    BY <1>6, <2>2, <2>5, <2>6 DEF Ahead, Newer
  <2> QED
    BY <2>7 DEF e, f
<1>7. PageInOrder'
  BY <1>2, <1>3, <1>6 DEF PageInOrder
<1>8. LoggedInOrder' /\ LoggedOnce'
  BY <1>1, <1>2 DEF LoggedInOrder, Ahead, LoggedOnce, Logged
<1> QED
  BY <1>7, <1>8 DEF StoryInv

LEMMA TrailStepKeepsStory ==
    ASSUME TrailInv, StoryInv, TrailStep
    PROVE  StoryInv'
<1>1. ASSUME NEW r \in Writers, RecordDurable(r)
      PROVE  StoryInv'
  BY <1>1, RecordKeepsStory
<1>2. ASSUME NEW r \in Writers, AppendJsonl(r) \/ ShortWrite(r) \/ WriteFails(r)
      PROVE  StoryInv'
  <2>1. writing[r] # Nothing /\ UNCHANGED <<starts, ring, nextId, clock, turned, page>>
    BY <1>2 DEF AppendJsonl, ShortWrite, WriteFails, Nothing
  <2>2. \/ \/ /\ file' = Append(file, [event |-> writing[r].event, part |-> writing[r].left])
              /\ writing' = [writing EXCEPT ![r] = Nothing]
           \/ /\ file' = Append(file, [event |-> writing[r].event, part |-> "head"])
              /\ writing' = [writing EXCEPT ![r].left = "tail"]
        \/ /\ UNCHANGED file
           /\ writing' = [writing EXCEPT ![r] = Nothing]
    BY <1>2 DEF AppendJsonl, ShortWrite, WriteFails
  <2> QED
    BY <2>1, <2>2, WriterStepKeepsStory
<1>3. CASE Tick
  <2>1. clock \in Nat /\ clock' = clock + 1 /\ UNCHANGED <<starts, ring, nextId, writing, file, turned, page>>
    BY <1>3 DEF Tick, TrailInv, TrailTyped
  <2>2. TrailTyped /\ Logged' = Logged
    BY <2>1 DEF TrailInv, Logged
  <2>3. LoggedInOrder'
    BY <2>1, <2>2, LoggedAreEvents DEF StoryInv, LoggedInOrder, Ahead
  <2>4. LoggedOnce' /\ PageInOrder'
    BY <2>1 DEF StoryInv, LoggedOnce, PageInOrder
  <2> QED
    BY <2>3, <2>4 DEF StoryInv
<1>4. CASE ReadAuditFile
  BY <1>4, ReadingKeepsStory
<1>5. CASE SetBack
  <2>1. turned \in Nat /\ turned' = turned + 1 /\ UNCHANGED <<starts, ring, nextId, writing, file, page>>
    BY <1>5 DEF SetBack, TrailInv, TrailTyped
  <2>2. turned' # 0
    BY <2>1
  <2>3. LoggedInOrder' /\ PageInOrder'
    BY <2>1, <2>2 DEF StoryInv, LoggedInOrder, Ahead, PageInOrder, Logged
  <2> QED
    BY <2>1, <2>3 DEF StoryInv, LoggedOnce
<1> QED
  BY <1>1, <1>2, <1>3, <1>4, <1>5 DEF TrailStep

(* Nor do the records of a start disturb the order.                          *)
LEMMA ObservedKeepsStory ==
    ASSUME TrailInv, StoryInv, NEW s, UNCHANGED <<starts, writing, clock, turned, page>>, Observed(s)
    PROVE  StoryInv'
<1>1. TrailTyped /\ RingInOrder /\ LoggedInOrder /\ LoggedOnce /\ PageInOrder
  BY DEF TrailInv, StoryInv
<1>2. PICK events \in Seq(Events), k \in Nat :
        /\ k <= Len(events)
        /\ \A i \in DOMAIN events :
               /\ events[i].id = nextId["gateway"] + i - 1 /\ events[i].by = "gateway"
               /\ events[i].run = starts /\ events[i].at = clock
        /\ nextId' = [nextId EXCEPT !["gateway"] = nextId["gateway"] + Len(events)]
        /\ file' \in Seq(Chunks) /\ Len(file') = Len(file) + k
        /\ \A i \in DOMAIN file : file'[i] = file[i]
        /\ \A i \in 1 .. k : file'[Len(file) + i] = [event |-> events[i], part |-> "whole"]
  BY <1>1, ObservedEvents
<1> DEFINE n == nextId["gateway"]
           m == n + Len(events)
<1>3. /\ Len(file) \in Nat /\ DOMAIN file = 1 .. Len(file) /\ DOMAIN file' = 1 .. Len(file) + k
      /\ Len(events) \in Nat /\ DOMAIN events = 1 .. Len(events) /\ n \in Nat
      /\ \A i \in DOMAIN events : events[i] \in Events
  BY <1>1, <1>2 DEF TrailTyped
<1>4. m \in Nat /\ n <= m /\ nextId'["gateway"] = m
  BY <1>1, <1>2, <1>3 DEF TrailTyped
<1>5. \A i \in DOMAIN events : n <= events[i].id /\ events[i].id < m
  BY <1>2, <1>3
<1> HIDE DEF Events, Chunks
<1>6. \A i \in DOMAIN file : i \in DOMAIN file' /\ file'[i] = file[i]
  BY <1>2, <1>3
<1>7. ASSUME NEW i \in DOMAIN file', i \notin DOMAIN file
      PROVE  /\ i - Len(file) \in DOMAIN events /\ i \in Nat
             /\ file'[i].event = events[i - Len(file)]
  <2>1. i - Len(file) \in 1 .. k /\ Len(file) + (i - Len(file)) = i /\ i \in Nat
    BY <1>3, <1>7
  <2>2. i - Len(file) \in DOMAIN events
    BY <1>2, <1>3, <2>1
  <2>3. file'[i] = [event |-> events[i - Len(file)], part |-> "whole"]
    BY <1>2, <2>1
  <2> QED
    BY <2>1, <2>2, <2>3
<1> HIDE DEF n, m
<1>8. \A i \in DOMAIN file' : i \notin DOMAIN file => OfNow(file'[i].event, m)
  BY <1>2, <1>3, <1>5, <1>7 DEF OfNow, n
<1>9. ASSUME NEW i \in DOMAIN file', NEW j \in DOMAIN file',
              i \notin DOMAIN file, j \notin DOMAIN file, file'[i].event.id = file'[j].event.id
       PROVE  i = j
  <2>1. n + (i - Len(file)) - 1 = n + (j - Len(file)) - 1 /\ i \in Nat /\ j \in Nat
    BY <1>2, <1>7, <1>9 DEF n
  <2> QED
    BY <1>3, <2>1
<1>10. LoggedInOrder' /\ LoggedOnce'
  BY <1>1, <1>4, <1>6, <1>8, <1>9, WrittenAtOnce DEF n
<1> QED
  BY <1>1, <1>10 DEF StoryInv, PageInOrder

LEMMA RecordKeyKeepsStory ==
    ASSUME TrailInv, StoryInv, RecordKey
    PROVE  StoryInv'
<1> DEFINE n == nextId["gateway"]
           event == Event("gateway", n, "key")
           chunk == [event |-> event, part |-> "whole"]
<1>1. TrailTyped /\ RingInOrder /\ LoggedInOrder /\ LoggedOnce /\ PageInOrder
  BY DEF TrailInv, StoryInv
<1>2. UNCHANGED <<starts, writing, clock, turned, page>>
  BY DEF RecordKey
<1>3. CASE UNCHANGED <<nextId, ring, file>>
  BY <1>1, <1>2, <1>3 DEF StoryInv, LoggedInOrder, Ahead, LoggedOnce, PageInOrder, Logged
<1>4. CASE /\ nextId' = [nextId EXCEPT !["gateway"] = n + 1]
           /\ file' = Append(file, chunk) \/ UNCHANGED file
  <2>1. n \in Nat /\ clock \in Nat /\ starts \in Nat
    BY <1>1 DEF TrailTyped
  <2>2. event \in Events /\ event.id = n /\ event.by = "gateway" /\ event.run = starts /\ event.at = clock
    BY <2>1 DEF Event, Events, Kinds
  <2> DEFINE m == n + 1
  <2>3. m \in Nat /\ n <= m /\ nextId'["gateway"] = m /\ OfNow(event, m)
    BY <1>1, <1>4, <2>1, <2>2 DEF TrailTyped, OfNow
  <2>4. chunk \in Chunks /\ chunk.event = event
    BY <2>2 DEF Chunks
  <2> HIDE DEF event, chunk, m
  <2>5. /\ \A i \in DOMAIN file : i \in DOMAIN file' /\ file'[i] = file[i]
        /\ \A i \in DOMAIN file' : i \notin DOMAIN file => i = Len(file) + 1 /\ file'[i] = chunk
    <3>1. file \in Seq(Chunks)
      BY <1>1 DEF TrailTyped
    <3> HIDE DEF Chunks
    <3>2. CASE file' = Append(file, chunk)
      <4>1. /\ Len(file') = Len(file) + 1 /\ Len(file) \in Nat /\ file' \in Seq(Chunks)
            /\ \A i \in 1 .. Len(file) : file'[i] = file[i]
            /\ file'[Len(file) + 1] = chunk
        BY <2>4, <3>1, <3>2
      <4> QED
        BY <3>1, <4>1
    <3>3. CASE UNCHANGED file
      BY <3>3
    <3> QED
      BY <1>4, <3>2, <3>3
  <2>6. LoggedInOrder' /\ LoggedOnce'
    BY <1>1, <1>2, <2>3, <2>4, <2>5, WrittenAtOnce
  <2> QED
    BY <1>1, <1>2, <2>6 DEF StoryInv, PageInOrder
<1> QED
  BY <1>3, <1>4 DEF RecordKey

(* A gateway that starts again is ahead of none that ran before.             *)
LEMMA RestartKeepsStory ==
    ASSUME TrailInv, StoryInv, Restart
    PROVE  StoryInv'
<1>1. TrailTyped /\ starts \in Nat /\ starts' = starts + 1 /\ nextId' = [nextId EXCEPT !["gateway"] = 1]
      /\ ring' = <<>> /\ UNCHANGED <<writing, file, clock, turned, page>>
  BY DEF Restart, TrailInv, TrailTyped
<1>2. Logged' = Logged /\ \A e \in Logged : e.run <= starts' /\ e.run # starts'
  <2>1. Logged' = Logged
    BY <1>1 DEF Logged
  <2>2. \A e \in Logged : e.run <= starts /\ e.run \in Nat
    BY <1>1, LoggedAreEvents DEF StoryInv, LoggedInOrder
  <2> QED
    BY <1>1, <2>1, <2>2
<1>3. LoggedInOrder'
  BY <1>1, <1>2 DEF StoryInv, LoggedInOrder, Ahead
<1> QED
  BY <1>1, <1>3 DEF StoryInv, LoggedOnce, PageInOrder

LEMMA StoryKept ==
    ASSUME TrailInv, StoryInv, [Next]_vars
    PROVE  StoryInv'
<1>1. CASE TrailStep \/ TimePasses
  BY <1>1, TrailStepKeepsStory DEF TimePasses, TrailStep
<1>2. CASE OpenSink
  <2>1. UNCHANGED <<starts, writing, clock, turned, page>>
    BY <1>2 DEF OpenSink
  <2>2. CASE Observed(sink')
    <3>1. PICK s : Observed(s)
      BY <2>2
    <3> QED
      BY <2>1, <3>1, ObservedKeepsStory
  <2>3. CASE UNCHANGED <<nextId, ring, file>>
    BY <2>1, <2>3 DEF StoryInv, LoggedInOrder, Ahead, LoggedOnce, PageInOrder, Logged
  <2>4. Observed(sink') \/ UNCHANGED <<nextId, ring, file>>
    <3>1. CASE walk'.next = "opened"
      BY <1>2, <3>1 DEF OpenSink
    <3>2. CASE walk'.next = "refused"
      BY <1>2, <3>2 DEF OpenSink
    <3>3. CASE walk'.next # "opened" /\ walk'.next # "refused"
      BY <1>2, <3>3 DEF OpenSink
    <3> QED
      BY <3>1, <3>2, <3>3
  <2> QED
    BY <2>2, <2>3, <2>4
<1>3. CASE RecordKey
  BY <1>3, RecordKeyKeepsStory
<1>4. CASE Restart
  BY <1>4, RestartKeepsStory
<1>5. CASE UNCHANGED trailVars
  BY <1>5 DEF trailVars, StoryInv, LoggedInOrder, Ahead, LoggedOnce, PageInOrder, Logged
<1>6. TrailStep \/ TimePasses \/ OpenSink \/ RecordKey \/ Restart \/ UNCHANGED trailVars
  BY DEF Next, Start, Serve, OthersChange, PlainStep, StepFails, EphemeralCa, LoadCa,
     WriteCaKey, WriteCaCert, ReadKey, Dies, vars
<1> QED
  BY <1>1, <1>2, <1>3, <1>4, <1>5, <1>6

(* The log shows what was decided: nothing goes missing from it but by a      *)
(* failing or a cut write (NothingIsLostSilently); the ring's reader lists   *)
(* what a gateway recorded in the order it numbered it, newest first; and as *)
(* long as the wall clock was not set back so does the file's, whatever      *)
(* order its threads reached the file in, and it lists what two starts of    *)
(* the gateway recorded in the order they ran, where the clock tells them    *)
(* apart (record, AuditLog::recent, queryAudit).                             *)
THEOREM LogTellsTheTruth == Spec => []TrailIsTrue
<1>1. Init => StoryInv
  BY DEF Init, TrailInit, Nothing, StoryInv, LoggedInOrder, LoggedOnce, PageInOrder, Logged
<1>2. TrailInv /\ StoryInv /\ [Next]_vars => StoryInv'
  BY StoryKept
<1>3. StoryInv /\ RecentIsNewestFirst => ListedNewestFirst
  BY DEF ListedNewestFirst, StoryInv, PageInOrder, RecentIsNewestFirst
<1> QED
  BY <1>1, <1>2, <1>3, TrailInductive, RecentInOrder, NothingIsLostSilently, PTL DEF Spec, TrailIsTrue
-----------------------------------------------------------------------------
(* The dashboard's page.                                                    *)

Answers == {"asked", "list", "error", "done"}
Polls == [effect : Nat, answer : Answers, list : SUBSET Approvals,
          as : {NoSession} \union {f.secret : f \in {g \in Fragments : g.shape = "hex64"}}]

PageTyped ==
    /\ waiting \subseteq Approvals
    /\ session \in {NoSession} \union {f.secret : f \in {g \in Fragments : g.shape = "hex64"}}
    /\ mount \in Nat /\ committed \in 0 .. Len(polls)
    /\ polls \in Seq(Polls)
    /\ shown \in [run : 0 .. Len(polls), list : SUBSET Approvals]
    /\ \A id \in DOMAIN resolved : resolved[id] \in 0 .. Len(polls)
    /\ \A r \in DOMAIN polls : polls[r].effect <= mount

(* An approval that was decided waits no more, and no list that was asked    *)
(* for after its decision holds it, whether on its way or shown.            *)
DecidedIsGone ==
    \A id \in DOMAIN resolved :
        /\ id \notin waiting
        /\ \A r \in DOMAIN polls : r > resolved[id] => id \notin polls[r].list
        /\ shown.run > resolved[id] => id \notin shown.list

(* What may still be committed was asked for after what is shown: the shown  *)
(* list has been committed by the mounted effect, or is older than every    *)
(* poll of that effect.                                                     *)
ShownIsOlder ==
    \/ shown.run <= committed
    \/ \A r \in DOMAIN polls : polls[r].effect = mount => r > shown.run

PageInv == PageTyped /\ DecidedIsGone /\ ShownIsOlder

(* The step brings no decided approval back.                                *)
StaysGone == \A id \in Approvals : Fresh(id) /\ shown' # Hidden => id \notin shown'.list

(* A poll that starts comes after every list and every decision so far.     *)
LEMMA NewPollKeeps ==
    ASSUME PageInv, NEW p \in Polls, p.list = {}, polls' = Append(polls, p),
           UNCHANGED <<waiting, resolved>>,
           session' \in {NoSession} \union {f.secret : f \in {g \in Fragments : g.shape = "hex64"}},
           mount' \in Nat, p.effect = mount',
           \/ mount' = mount /\ committed' = committed
           \/ mount' = mount + 1 /\ committed' = 0,
           shown' \in {shown, Hidden}
    PROVE  PageInv'
<1>1. PageTyped /\ DecidedIsGone /\ ShownIsOlder
  BY DEF PageInv
<1> DEFINE n == Len(polls)
<1>2. /\ polls' \in Seq(Polls) /\ Len(polls') = n + 1 /\ n \in Nat
      /\ DOMAIN polls = 1 .. n /\ DOMAIN polls' = 1 .. n + 1
      /\ \A r \in 1 .. n : polls'[r] = polls[r]
      /\ polls'[n + 1] = p
  BY <1>1 DEF PageTyped
<1> HIDE DEF n
<1>3. \A r \in DOMAIN polls' : \/ r \in DOMAIN polls /\ polls'[r] = polls[r]
                               \/ r = n + 1 /\ polls'[r] = p
  BY <1>2
<1>4. shown \in [run : 0 .. n, list : SUBSET Approvals] /\ committed \in 0 .. n
      /\ \A id \in DOMAIN resolved : resolved[id] \in 0 .. n
  BY <1>1 DEF PageTyped, n
<1>5. shown' \in [run : 0 .. n + 1, list : SUBSET Approvals]
      /\ shown'.run \in 0 .. n /\ (shown' = shown \/ (shown'.run = 0 /\ shown'.list = {}))
  BY <1>2, <1>4 DEF Hidden
<1>6. \A r \in DOMAIN polls : polls[r].effect \in Nat /\ polls[r].effect <= mount /\ mount \in Nat
  <2>1. \A r \in DOMAIN polls : polls[r] \in Polls
    BY <1>1 DEF PageTyped
  <2> QED
    BY <1>1, <2>1 DEF PageTyped, Polls
<1>7. PageTyped'
  <2>1. \A r \in DOMAIN polls' : polls'[r].effect <= mount'
    BY <1>3, <1>6
  <2>2. committed' \in 0 .. n + 1 /\ \A id \in DOMAIN resolved' : resolved'[id] \in 0 .. n + 1
    BY <1>2, <1>4
  <2> QED
    BY <1>1, <1>2, <1>5, <2>1, <2>2 DEF PageTyped
<1>8. DecidedIsGone'
  <2> SUFFICES ASSUME NEW id \in DOMAIN resolved
               PROVE  /\ id \notin waiting
                      /\ \A r \in DOMAIN polls' : r > resolved[id] => id \notin polls'[r].list
                      /\ shown'.run > resolved[id] => id \notin shown'.list
    BY DEF DecidedIsGone
  <2>1. /\ id \notin waiting
        /\ \A r \in DOMAIN polls : r > resolved[id] => id \notin polls[r].list
        /\ shown.run > resolved[id] => id \notin shown.list
    BY <1>1 DEF DecidedIsGone
  <2> QED
    BY <1>3, <1>5, <2>1
<1>9. ShownIsOlder'
  <2>1. CASE shown'.run <= committed'
    BY <2>1 DEF ShownIsOlder
  <2>2. CASE ~(shown'.run <= committed')
    <3>1. \A r \in DOMAIN polls' : polls'[r].effect = mount' => r > shown'.run
      <4> SUFFICES ASSUME NEW r \in DOMAIN polls', polls'[r].effect = mount'
                   PROVE  r > shown'.run
        OBVIOUS
      <4>1. CASE r = n + 1
        BY <1>2, <1>5, <4>1
      <4>2. CASE r # n + 1 /\ mount' = mount + 1
        BY <1>3, <1>6, <4>2
      <4>3. CASE r # n + 1 /\ mount' = mount /\ committed' = committed
        <5>1. shown' = shown
          BY <1>4, <1>5, <2>2, <4>3
        <5>2. r \in DOMAIN polls /\ polls[r].effect = mount
          BY <1>3, <4>3
        <5> QED
          BY <1>1, <2>2, <4>3, <5>1, <5>2 DEF ShownIsOlder
      <4> QED
        BY <4>1, <4>2, <4>3
    <3> QED
      BY <3>1 DEF ShownIsOlder
  <2> QED
    BY <2>1, <2>2
<1> QED
  BY <1>7, <1>8, <1>9 DEF PageInv

(* An answer changes its own poll only.                                     *)
LEMMA PollChanges ==
    ASSUME PageTyped, NEW r \in DOMAIN polls, NEW p \in Polls, p.effect = polls[r].effect,
           polls' = [polls EXCEPT ![r] = p]
    PROVE  /\ polls' \in Seq(Polls) /\ Len(polls') = Len(polls) /\ DOMAIN polls' = DOMAIN polls
           /\ \A q \in DOMAIN polls : polls'[q].effect = polls[q].effect
           /\ \A q \in DOMAIN polls : q # r => polls'[q] = polls[q]
           /\ polls'[r].list = p.list
<1>1. polls \in Seq(Polls)
  BY DEF PageTyped
<1> HIDE DEF Polls
<1>2. polls' \in Seq(Polls) /\ Len(polls') = Len(polls) /\ DOMAIN polls' = DOMAIN polls
      /\ polls'[r] = p /\ \A q \in DOMAIN polls : q # r => polls'[q] = polls[q]
  BY <1>1
<1> QED
  BY <1>2

(* A poll that reads the queue reads what may be decided while it runs.      *)
LEMMA ListKeeps ==
    ASSUME PageInv, NEW r \in DOMAIN polls, ListApprovals(r)
    PROVE  PageInv'
<1>1. PageTyped /\ DecidedIsGone /\ ShownIsOlder
  BY DEF PageInv
<1>2. UNCHANGED <<waiting, resolved, session, mount, tick, committed, shown, clicks>>
  BY DEF ListApprovals
<1> DEFINE a == IF Authorized(polls[r].as) THEN "list" ELSE "error"
           l == IF Authorized(polls[r].as) THEN waiting ELSE {}
           p == [polls[r] EXCEPT !.answer = a, !.list = l]
<1>3. polls' = [polls EXCEPT ![r] = p]
  BY <1>1 DEF ListApprovals, PageTyped
<1>4. p \in Polls /\ p.effect = polls[r].effect /\ p.list = l /\ l \subseteq waiting
  <2>1. polls[r] \in Polls /\ l \in SUBSET Approvals /\ a \in Answers
    BY <1>1 DEF PageTyped, Answers
  <2> QED
    BY <2>1 DEF Polls
<1> HIDE DEF p, l
<1>5. /\ polls' \in Seq(Polls) /\ Len(polls') = Len(polls) /\ DOMAIN polls' = DOMAIN polls
      /\ \A q \in DOMAIN polls : polls'[q].effect = polls[q].effect
      /\ \A q \in DOMAIN polls : q # r => polls'[q] = polls[q]
      /\ polls'[r].list = l
  BY <1>1, <1>3, <1>4, PollChanges
<1>6. PageTyped'
  BY <1>1, <1>2, <1>5 DEF PageTyped
<1>7. DecidedIsGone'
  BY <1>1, <1>2, <1>4, <1>5 DEF DecidedIsGone
<1>8. ShownIsOlder'
  BY <1>1, <1>2, <1>5 DEF ShownIsOlder
<1> QED
  BY <1>6, <1>7, <1>8 DEF PageInv

(* A list is committed only if it was asked for after what is shown.        *)
LEMMA ArrivalKeeps ==
    ASSUME PageInv, NEW r \in DOMAIN polls, Arrives(r)
    PROVE  PageInv' /\ StaysGone
<1>1. PageTyped /\ DecidedIsGone /\ ShownIsOlder
  BY DEF PageInv
<1>2. UNCHANGED <<waiting, resolved, session, mount, tick, clicks>>
  BY DEF Arrives
<1> DEFINE p == [polls[r] EXCEPT !.answer = "done", !.list = {}]
<1>3. polls' = [polls EXCEPT ![r] = p]
  BY <1>1 DEF Arrives, PageTyped
<1>4. /\ polls' \in Seq(Polls) /\ Len(polls') = Len(polls) /\ DOMAIN polls' = DOMAIN polls
      /\ \A q \in DOMAIN polls : polls'[q].effect = polls[q].effect
      /\ \A q \in DOMAIN polls : q # r => polls'[q] = polls[q]
      /\ polls'[r].list = {}
  <2>1. polls[r] \in Polls
    BY <1>1 DEF PageTyped
  <2>2. p \in Polls /\ p.effect = polls[r].effect /\ p.list = {}
    BY <2>1 DEF Polls, Answers
  <2> HIDE DEF p
  <2> QED
    BY <1>1, <1>3, <2>2, PollChanges
<1>5. /\ DOMAIN polls = 1 .. Len(polls) /\ Len(polls) \in Nat /\ r \in 1 .. Len(polls)
      /\ polls[r].list \in SUBSET Approvals
  <2>1. polls \in Seq(Polls) /\ polls[r] \in Polls
    BY <1>1 DEF PageTyped
  <2> QED
    BY <2>1 DEF Polls
<1>6. shown \in [run : 0 .. Len(polls), list : SUBSET Approvals] /\ committed \in 0 .. Len(polls)
      /\ \A id \in DOMAIN resolved : resolved[id] \in 0 .. Len(polls)
  BY <1>1 DEF PageTyped
<1>7. \A id \in DOMAIN resolved :
          /\ id \notin waiting
          /\ \A q \in DOMAIN polls' : q > resolved[id] => id \notin polls'[q].list
          /\ \A q \in DOMAIN polls : q > resolved[id] => id \notin polls[q].list
          /\ shown.run > resolved[id] => id \notin shown.list
  BY <1>1, <1>4 DEF DecidedIsGone
<1>8. CASE MayCommit(r) /\ polls[r].answer = "list"
  <2>1. committed' = r /\ shown' = [run |-> r, list |-> polls[r].list]
        /\ polls[r].effect = mount /\ r > committed
    BY <1>8 DEF Arrives, MayCommit
  <2>2. r > shown.run
    BY <1>1, <1>5, <1>6, <2>1 DEF ShownIsOlder
  <2>3. PageTyped' /\ ShownIsOlder'
    <3>1. shown' \in [run : 0 .. Len(polls), list : SUBSET Approvals]
          /\ committed' \in 0 .. Len(polls) /\ shown'.run <= committed'
      BY <1>5, <2>1
    <3> QED
      BY <1>1, <1>2, <1>4, <3>1 DEF PageTyped, ShownIsOlder
  <2>4. DecidedIsGone'
    BY <1>2, <1>5, <1>7, <2>1 DEF DecidedIsGone
  <2>5. StaysGone
    <3> SUFFICES ASSUME NEW id \in DOMAIN resolved, shown.run > resolved[id]
                 PROVE  id \notin shown'.list
      BY DEF StaysGone, Fresh
    <3>1. r > resolved[id]
      BY <1>5, <1>6, <2>2
    <3> QED
      BY <1>5, <1>7, <2>1, <3>1
  <2> QED
    BY <2>3, <2>4, <2>5 DEF PageInv
<1>9. CASE ~(MayCommit(r) /\ polls[r].answer = "list")
  <2>1. shown' = shown /\ (committed' = committed \/ (committed' = r /\ polls[r].effect = mount /\ r > committed))
    <3>1. CASE MayCommit(r)
      BY <1>9, <3>1 DEF Arrives, MayCommit
    <3>2. CASE ~MayCommit(r)
      BY <3>2 DEF Arrives
    <3> QED
      BY <3>1, <3>2
  <2>2. PageTyped'
    BY <1>1, <1>2, <1>4, <1>5, <2>1 DEF PageTyped
  <2>3. DecidedIsGone'
    BY <1>2, <1>7, <2>1 DEF DecidedIsGone
  <2>4. ShownIsOlder'
    <3>1. CASE committed' = committed
      BY <1>1, <1>2, <1>4, <2>1, <3>1 DEF ShownIsOlder
    <3>2. CASE committed' = r /\ polls[r].effect = mount /\ r > committed
      <4>1. shown.run <= r
        BY <1>1, <1>5, <1>6, <3>2 DEF ShownIsOlder
      <4> QED
        BY <2>1, <3>2, <4>1 DEF ShownIsOlder
    <3> QED
      BY <2>1, <3>1, <3>2
  <2>5. StaysGone
    BY <1>7, <2>1 DEF StaysGone, Fresh
  <2> QED
    BY <2>2, <2>3, <2>4, <2>5 DEF PageInv
<1> QED
  BY <1>8, <1>9

(* A decision counts for every list asked for from now on.                  *)
LEMMA ResolveKeeps ==
    ASSUME PageInv, NEW id \in Approvals, Resolve(id)
    PROVE  PageInv'
<1>1. PageTyped /\ DecidedIsGone /\ ShownIsOlder
  BY DEF PageInv
<1>2. UNCHANGED <<session, mount, tick, polls, committed, shown>>
  BY DEF Resolve
<1>3. CASE UNCHANGED <<waiting, resolved>>
  BY <1>1, <1>2, <1>3 DEF PageInv, PageTyped, DecidedIsGone, ShownIsOlder
<1>4. CASE /\ id \in waiting /\ waiting' = waiting \ {id}
           /\ resolved' = [i \in DOMAIN resolved \union {id} |->
                              IF i = id THEN Len(polls) ELSE resolved[i]]
  <2>1. Len(polls) \in Nat /\ DOMAIN polls = 1 .. Len(polls)
        /\ shown \in [run : 0 .. Len(polls), list : SUBSET Approvals]
    BY <1>1 DEF PageTyped
  <2>2. /\ DOMAIN resolved' = DOMAIN resolved \union {id}
        /\ resolved'[id] = Len(polls)
        /\ \A i \in DOMAIN resolved' : i # id => i \in DOMAIN resolved /\ resolved'[i] = resolved[i]
    BY <1>4
  <2>3. PageTyped'
    <3>1. \A i \in DOMAIN resolved' : resolved'[i] \in 0 .. Len(polls)
      BY <1>1, <2>1, <2>2 DEF PageTyped
    <3> QED
      BY <1>1, <1>2, <1>4, <3>1 DEF PageTyped
  <2>4. DecidedIsGone'
    <3> SUFFICES ASSUME NEW i \in DOMAIN resolved'
                 PROVE  /\ i \notin waiting'
                        /\ \A r \in DOMAIN polls : r > resolved'[i] => i \notin polls[r].list
                        /\ shown.run > resolved'[i] => i \notin shown.list
      BY <1>2 DEF DecidedIsGone
    <3>1. CASE i = id
      BY <1>4, <2>1, <2>2, <3>1
    <3>2. CASE i # id
      BY <1>1, <1>4, <2>2, <3>2 DEF DecidedIsGone
    <3> QED
      BY <3>1, <3>2
  <2> QED
    BY <1>1, <1>2, <2>3, <2>4 DEF PageInv, ShownIsOlder
<1> QED
  BY <1>3, <1>4 DEF Resolve

(* Where the page's variables but the clicks and the tick stand still.      *)
LEMMA PageStandsStill ==
    ASSUME PageInv, UNCHANGED <<resolved, session, mount, polls, committed, shown>>,
           waiting' \subseteq waiting
    PROVE  PageInv' /\ StaysGone
<1>1. PageInv'
  BY DEF PageInv, PageTyped, DecidedIsGone, ShownIsOlder
<1>2. StaysGone
  BY DEF PageInv, DecidedIsGone, StaysGone, Fresh
<1> QED
  BY <1>1, <1>2

(* Each step of page or service keeps it, and nothing decided is shown.      *)
LEMMA PageStepKeeps ==
    ASSUME PageInv, PageStep
    PROVE  PageInv' /\ StaysGone
<1>1. PageTyped
  BY DEF PageInv
<1>2. Hidden.run = 0 /\ Hidden.list = {} /\ (shown' \in {shown, Hidden} => StaysGone)
  BY DEF Hidden, StaysGone, Fresh, PageInv, DecidedIsGone
<1>3. ASSUME NEW f \in Fragments, OpenPage(f)
      PROVE  PageInv' /\ StaysGone
  <2>1. /\ mount' = mount + 1 /\ committed' = 0 /\ shown' = Hidden
        /\ session' = (IF f.shape = "hex64" THEN f.secret ELSE session)
        /\ polls' = Append(polls, [effect |-> mount', answer |-> "asked", list |-> {}, as |-> session'])
        /\ UNCHANGED <<waiting, resolved>>
    BY <1>3 DEF OpenPage, NewPoll
  <2>2. session' \in {NoSession} \union {g.secret : g \in {h \in Fragments : h.shape = "hex64"}}
    BY <1>1, <2>1 DEF PageTyped
  <2>3. mount' \in Nat
    BY <1>1, <2>1 DEF PageTyped
  <2>4. [effect |-> mount', answer |-> "asked", list |-> {}, as |-> session'] \in Polls
    BY <2>2, <2>3 DEF Polls, Answers
  <2>5. PageInv'
    BY <2>1, <2>2, <2>3, <2>4, NewPollKeeps
  <2> QED
    BY <1>2, <2>1, <2>5
<1>4. CASE Poll
  <2>1. /\ UNCHANGED <<mount, committed, shown, session, waiting, resolved>>
        /\ polls' = Append(polls, [effect |-> mount, answer |-> "asked", list |-> {}, as |-> session])
    BY <1>4 DEF Poll
  <2>2. [effect |-> mount, answer |-> "asked", list |-> {}, as |-> session] \in Polls
    BY <1>1 DEF PageTyped, Polls, Answers
  <2>3. PageInv'
    BY <1>1, <2>1, <2>2, NewPollKeeps DEF PageTyped
  <2> QED
    BY <1>2, <2>1, <2>3
<1>5. CASE Refresh
  <2>1. /\ mount' = mount + 1 /\ committed' = 0
        /\ UNCHANGED <<shown, session, waiting, resolved>>
        /\ polls' = Append(polls, [effect |-> mount', answer |-> "asked", list |-> {}, as |-> session'])
    BY <1>5 DEF Refresh, NewPoll
  <2>2. mount' \in Nat
    BY <1>1, <2>1 DEF PageTyped
  <2>3. [effect |-> mount', answer |-> "asked", list |-> {}, as |-> session'] \in Polls
    BY <1>1, <2>1, <2>2 DEF PageTyped, Polls, Answers
  <2>4. PageInv'
    BY <1>1, <2>1, <2>2, <2>3, NewPollKeeps DEF PageTyped
  <2> QED
    BY <1>2, <2>1, <2>4
<1>6. ASSUME NEW r \in DOMAIN polls, ListApprovals(r)
      PROVE  PageInv' /\ StaysGone
  BY <1>2, <1>6, ListKeeps DEF ListApprovals
<1>7. ASSUME NEW r \in DOMAIN polls, Arrives(r)
      PROVE  PageInv' /\ StaysGone
  BY <1>7, ArrivalKeeps
<1>8. ASSUME NEW id \in Approvals, Resolve(id)
      PROVE  PageInv' /\ StaysGone
  BY <1>2, <1>8, ResolveKeeps DEF Resolve
<1>9. ASSUME NEW id \in Approvals, Decide(id) \/ Settles(id) \/ HoldEnds(id)
      PROVE  PageInv' /\ StaysGone
  BY <1>9, PageStandsStill DEF Decide, Settles, HoldEnds
<1> QED
  BY <1>3, <1>4, <1>5, <1>6, <1>7, <1>8, <1>9 DEF PageStep

(* No other step touches the page.                                           *)
LEMMA PageKept ==
    ASSUME PageInv, [Next]_vars
    PROVE  PageInv' /\ StaysGone
<1>1. CASE PageStep
  BY <1>1, PageStepKeeps
<1>2. CASE UNCHANGED pageVars
  BY <1>2, PageStandsStill DEF pageVars
<1>3. PageStep \/ UNCHANGED pageVars
  BY DEF Next, Start, Serve, PlainStep, StepFails, OpenSink, OthersChange, EphemeralCa, LoadCa,
     WriteCaKey, WriteCaCert, ReadKey, RecordKey, Dies, Restart, TimePasses, vars
<1> QED
  BY <1>1, <1>2, <1>3

(* A page that was just opened shows nothing.                                *)
LEMMA PageInitHolds ==
    ASSUME Init
    PROVE  PageInv
<1>1. PageInit
  BY DEF Init
<1>2. PageTyped
  BY <1>1 DEF PageInit, PageTyped, Hidden
<1> QED
  BY <1>1, <1>2 DEF PageInv, PageInit, DecidedIsGone, ShownIsOlder, Hidden

(* Once a list asked for after a decision has been shown, no later answer    *)
(* brings the decided approval back, for any number of polls in flight, of   *)
(* reloads and of approvals (usePolling).                                   *)
THEOREM DecidedNeverReturns == Spec => DecidedStaysGone
<1>1. Init => PageInv
  BY PageInitHolds
<1>2. PageInv /\ [Next]_vars => PageInv' /\ StaysGone
  BY PageKept
<1>3. StaysGone => [\A id \in Approvals :
                        Fresh(id) /\ shown' # Hidden => id \notin shown'.list]_pageVars
  BY DEF StaysGone
<1> QED
  BY <1>1, <1>2, <1>3, PTL DEF Spec, DecidedStaysGone

-----------------------------------------------------------------------------
(* What every variable may be, for any host, path and number of starts.     *)
THEOREM TypeCorrect == Spec => []TypeOK
<1>1. Spec => [](SinkInv /\ BootInv /\ TrailInv /\ PageInv)
  <2>1. Init => SinkInv /\ BootInv /\ TrailInv /\ PageInv
    BY SinkInitHolds, BootInitHolds, TrailInitHolds, PageInitHolds DEF Init
  <2>2. SinkInv /\ BootInv /\ TrailInv /\ PageInv /\ [Next]_vars
            => SinkInv' /\ BootInv' /\ TrailInv' /\ PageInv'
    BY SinkKept, BootKept, TrailKept, PageKept
  <2> QED
    BY <2>1, <2>2, PTL DEF Spec
<1>2. SinkInv /\ BootInv /\ TrailInv /\ PageInv => TypeOK
  <2> SUFFICES ASSUME SinkInv, BootInv, TrailInv, PageInv PROVE TypeOK
    OBVIOUS
  <2>1. walk.at \in Directories /\ walk.hops <= MaxSymlinkHops
    BY HostAssumption DEF SinkInv, WalkTyped
  <2>2. boot \in ToSet(Steps) \union {"certificate", "serving", "failed"}
    <3>1. ToSet(Steps) = {"token", "pii", "policy", "audit", "ca", "key", "bind", "record"}
      <4>1. DOMAIN Steps = {1, 2, 3, 4, 5, 6, 7, 8}
            /\ Steps[1] = "token" /\ Steps[2] = "pii" /\ Steps[3] = "policy" /\ Steps[4] = "audit"
            /\ Steps[5] = "ca" /\ Steps[6] = "key" /\ Steps[7] = "bind" /\ Steps[8] = "record"
        BY DEF Steps
      <4> HIDE DEF Steps
      <4> QED
        BY <4>1 DEF ToSet
    <3> QED
      BY <3>1 DEF BootInv, BootSteps
  <2> QED
    BY <2>1, <2>2 DEF TypeOK, TrailInv, RingInOrder, PageInv, PageTyped
<1> QED
  BY <1>1, <1>2, PTL
=============================================================================
