----------------------------- MODULE PluginProofs -----------------------------
(***************************************************************************)
(* What holds of the hooks.  Any number of processes may load the machine   *)
(* key at once, whatever they find and whatever fails: they agree on one    *)
(* key, and what weakens it is told.  Any number of tool calls may overlap  *)
(* in the plugin: none is left with a cached failure, and one that fails    *)
(* closed lets nothing past an engine that fails.                           *)
(***************************************************************************)
EXTENDS Plugin, TLAPS

Where == {"start", "publish", "truncate", "winner", "tighten", "write", "find", "restrict",
          "report", "keyed"}
Loaders == [at : Where, read : Bytes, unread : BOOLEAN, found : BOOLEAN]
Statuses == [source : {"none", "persisted", "unpersisted", "fallback"}, key : Bytes,
             exposure : {"none", "open", "closed"}, replaced : BOOLEAN]
Losses == {"nothing", "short", "unread", "key"}
Rules == {"hook-salt-fallback", "hook-salt-exposed", "hook-salt-was-exposed",
          "hook-salt-replaced-unread"}

KeyTyped ==
    /\ world \in Worlds /\ file \in SaltFiles
    /\ loader \in [Procs -> Loaders] /\ status \in [Procs -> Statuses]
    /\ recorded \in [Procs -> SUBSET Rules] /\ message \in [Procs -> SUBSET Rules]
    /\ lost \in [Procs -> Losses]

(* What a process destroyed unread it knows, until it has said so in its    *)
(* status.                                                                  *)
LossIsKnown ==
    \A p \in Procs :
        /\ loader[p].at \in {"tighten", "write"} =>
              /\ lost[p] # "nothing"
              /\ (lost[p] = "unread") = loader[p].unread
        /\ loader[p].at \in {"report", "keyed"} =>
              status[p].replaced = (lost[p] = "unread") /\ status[p].source # "none"
        /\ loader[p].at \notin {"tighten", "write", "report", "keyed"} => lost[p] = "nothing"

(* A hook that has reported told all that its status says.                  *)
AllIsTold ==
    \A p \in Procs \ Daemons :
        loader[p].at = "keyed" /\ world.sink # "none" => Told(p) = Degradations(status[p])

(* There is no file, or one that can be used: nobody replaces it, and the   *)
(* bytes a process has read, or goes by, are those it holds.                *)
FileServes == world.file.exists => world.file.readable /\ world.file.bytes # Short
KeyIsShared ==
    FileServes =>
        /\ file.exists => file.readable /\ file.bytes # Short
        /\ \A p \in Procs :
              /\ loader[p].at \notin {"truncate", "tighten", "write"}
              /\ loader[p].at \in {"winner", "find", "restrict"} => file.exists
              /\ loader[p].at \in {"find", "restrict"} => loader[p].read = file.bytes
              /\ status[p].source = "persisted" => file.exists /\ status[p].key = file.bytes

(* A usable file whose mode was loose: while it still is, whoever adopted   *)
(* it left it open; once it is not, whoever closed it had found it loose.   *)
FoundLoose ==
    /\ world.file.exists /\ world.file.loose /\ world.file.stats
    /\ world.file.readable /\ world.file.bytes # Short
Adopted(p) == loader[p].at \in {"report", "keyed"}
ModeIsSeen ==
    FoundLoose =>
        /\ file.exists /\ file.stats
        /\ \A p \in Procs :
              /\ loader[p].at \in {"start", "find", "restrict", "report", "keyed"}
              /\ loader[p].at = "restrict" /\ file.loose => loader[p].found = TRUE
              /\ Adopted(p) => /\ status[p].source = "persisted"
                               /\ file.loose => status[p].exposure = "open"
        /\ file.loose \/ \E p \in Procs : Adopted(p) /\ status[p].exposure = "closed"

(* Until two processes have replaced the file, what a process goes by is    *)
(* what the file holds: the one that replaces it found it of no use, and     *)
(* nobody had a key from it then.                                           *)
Useful == file.readable /\ file.bytes # Short
NoneReplaces == \A p \in Procs : lost[p] = "nothing"
Goes(p) == loader[p].at \in {"find", "restrict"} \/ status[p].source = "persisted"
KeyIsTheFiles ==
    \A p \in Procs :
        /\ Goes(p) => file.exists /\ file.bytes # Short
        /\ loader[p].at \in {"find", "restrict"} => loader[p].read = file.bytes
        /\ status[p].source = "persisted" => status[p].key = file.bytes
        /\ NoneReplaces /\ Goes(p) => Useful
        /\ NoneReplaces /\ loader[p].at = "truncate" => file.exists /\ ~ Useful
        /\ loader[p].at \in {"tighten", "write"} => file.exists /\ file.bytes = Short
        /\ lost[p] # "nothing" \/ loader[p].at = "winner" => file.exists
OneReplaces == TwoReplace \/ KeyIsTheFiles

KeyInv == KeyTyped /\ LossIsKnown /\ AllIsTold /\ KeyIsShared /\ ModeIsSeen /\ OneReplaces

-----------------------------------------------------------------------------
(* The steps.                                                               *)

(* What a process does keeps every value of its type.                        *)
LEMMA TypesKept ==
    ASSUME KeyTyped, NEW p \in Procs, Load(p)
    PROVE  KeyTyped'
<1>1. /\ file \in SaltFiles /\ loader[p] \in Loaders /\ status[p] \in Statuses
      /\ p \in Bytes /\ Short \in Bytes /\ NoProc \in Bytes /\ file.bytes \in Bytes
  BY DEF KeyTyped, Bytes, SaltFiles
<1>2. /\ Fresh(p) \in SaltFiles /\ Tightened \in SaltFiles
      /\ \A b \in Bytes : [file EXCEPT !.bytes = b] \in SaltFiles
  BY <1>1 DEF Fresh, Tightened, SaltFiles
<1>3. \A where \in Where, b \in Bytes, u \in BOOLEAN, f \in BOOLEAN :
         /\ [loader[p] EXCEPT !.at = where] \in Loaders
         /\ [loader[p] EXCEPT !.at = where, !.unread = u] \in Loaders
         /\ [loader[p] EXCEPT !.at = where, !.read = b] \in Loaders
         /\ [loader[p] EXCEPT !.at = where, !.found = f] \in Loaders
  BY <1>1 DEF Loaders
<1>4. /\ Unpersisted(p) \in Statuses
      /\ \A r \in BOOLEAN : Fallback(r) \in Statuses
      /\ \A b \in Bytes, e \in {"none", "open", "closed"}, r \in BOOLEAN :
            Persisted(b, e, r) \in Statuses
  BY <1>1 DEF Unpersisted, Fallback, Persisted, Statuses
<1>5. /\ loader[p].unread \in BOOLEAN /\ loader[p].read \in Bytes /\ loader[p].found \in BOOLEAN
      /\ (file.stats /\ file.loose) \in BOOLEAN /\ (file.stats /\ Tightened.loose) \in BOOLEAN
  BY <1>1 DEF Loaders
<1>6. CASE ReadSalt(p)
  BY <1>1, <1>2, <1>3, <1>4, <1>5, <1>6 DEF KeyTyped, ReadSalt, KeyKept, Where
<1>7. CASE CreateFails(p)
  BY <1>1, <1>2, <1>3, <1>4, <1>5, <1>7 DEF KeyTyped, CreateFails, Becomes, Goto, KeyKept, Where
<1>8. CASE TempFails(p)
  BY <1>1, <1>2, <1>3, <1>4, <1>5, <1>8 DEF KeyTyped, TempFails, Becomes, Goto, KeyKept, Where
<1>9. CASE Link(p)
  BY <1>1, <1>2, <1>3, <1>4, <1>5, <1>9 DEF KeyTyped, Link, Becomes, Goto, KeyKept, Where
<1>10. CASE ReadWinner(p)
  BY <1>1, <1>2, <1>3, <1>4, <1>5, <1>10 DEF KeyTyped, ReadWinner, Becomes, Goto, KeyKept, Where
<1>11. CASE Truncate(p)
  <2>1. Loss(p) \in Losses
    BY DEF Loss, Losses
  <2> QED
    BY <1>1, <1>2, <1>3, <1>4, <1>5, <1>11, <2>1
       DEF KeyTyped, Truncate, Becomes, Goto, KeyKept, Where
<1>12. CASE Tighten(p)
  BY <1>1, <1>2, <1>3, <1>4, <1>5, <1>12 DEF KeyTyped, Tighten, KeyKept, Where
<1>13. CASE WriteSalt(p)
  <2>1. Goto(p, "report") /\ UNCHANGED <<world, recorded, message, lost>>
    BY <1>13 DEF WriteSalt, Becomes, KeyKept
  <2>2. file' \in SaltFiles
    BY <1>1, <1>2, <1>13 DEF WriteSalt
  <2>3. \E v \in Statuses : status' = [status EXCEPT ![p] = v]
    <3>1. (IF loader[p].found THEN "open" ELSE "none") \in {"none", "open", "closed"}
      OBVIOUS
    <3> QED
      BY <1>1, <1>4, <1>5, <1>13, <3>1 DEF WriteSalt, Becomes
  <2>4. [loader[p] EXCEPT !.at = "report"] \in Loaders
    BY <1>1 DEF Loaders, Where
  <2> QED
    BY <2>1, <2>2, <2>3, <2>4 DEF KeyTyped, Goto
<1>14. CASE FindMode(p)
  BY <1>1, <1>2, <1>3, <1>4, <1>5, <1>14 DEF KeyTyped, FindMode, KeyKept, Where
<1>15. CASE Restrict(p)
  BY <1>1, <1>2, <1>3, <1>4, <1>5, <1>15 DEF KeyTyped, Restrict, Becomes, Goto, KeyKept, Where
<1>16. CASE Report(p)
  <2>1. Degradations(status[p]) \subseteq Rules
    BY DEF Degradations, Rules
  <2>2. \A taken \in Taken(Degradations(status[p])) :
           /\ taken \in SUBSET Rules
           /\ MessageOf(p, Degradations(status[p]), taken) \in SUBSET Rules
    BY <2>1 DEF Taken, MessageOf
  <2>3. /\ UNCHANGED <<world, file, status, lost>>
        /\ loader' = [loader EXCEPT ![p].at = "keyed"]
    BY <1>16 DEF Report, Goto
  <2>4. loader' \in [Procs -> Loaders]
    <3>1. [loader[p] EXCEPT !.at = "keyed"] \in Loaders
      BY <1>1 DEF Loaders, Where
    <3> QED
      BY <2>3, <3>1 DEF KeyTyped
  <2> QED
    BY <1>16, <2>2, <2>3, <2>4 DEF Report, KeyTyped
<1> QED
  BY <1>6, <1>7, <1>8, <1>9, <1>10, <1>11, <1>12, <1>13, <1>14, <1>15, <1>16 DEF Load

(* A process comes to a status that tells of its loss, if it has any.        *)
LEMMA LossIsNoted ==
    ASSUME KeyTyped, LossIsKnown, NEW p \in Procs, NEW s,
           s.replaced = (lost[p] = "unread"), s.source # "none", Becomes(p, s), UNCHANGED lost
    PROVE  LossIsKnown'
<1>1. /\ status'[p] = s /\ \A q \in Procs : q # p => status'[q] = status[q]
      /\ loader'[p].at = "report" /\ \A q \in Procs : q # p => loader'[q] = loader[q]
  BY DEF KeyTyped, Loaders, Becomes, Goto
<1> QED
  BY <1>1 DEF LossIsKnown

(* A process goes on and comes to no status.                                 *)
LEMMA GoesOnKnowing ==
    ASSUME KeyTyped, LossIsKnown, NEW p \in Procs, UNCHANGED status, NEW l, NEW gone,
           loader' = [loader EXCEPT ![p] = l], lost' = [lost EXCEPT ![p] = gone],
           IF l.at \in {"tighten", "write"} THEN gone # "nothing" /\ (gone = "unread") = l.unread
           ELSE gone = "nothing" /\ l.at \notin {"report", "keyed"}
    PROVE  LossIsKnown'
<1>1. /\ loader'[p] = l /\ \A q \in Procs : q # p => loader'[q] = loader[q]
      /\ lost'[p] = gone /\ \A q \in Procs : q # p => lost'[q] = lost[q]
  BY DEF KeyTyped
<1> QED
  BY <1>1 DEF LossIsKnown

(* A process that destroys what nobody had read says so, and no other does.  *)
LEMMA LossStaysKnown ==
    ASSUME KeyTyped, LossIsKnown, NEW p \in Procs, Load(p)
    PROVE  LossIsKnown'
<1>1. /\ Fallback(FALSE).source # "none" /\ Fallback(FALSE).replaced = FALSE
      /\ Unpersisted(p).source # "none" /\ Unpersisted(p).replaced = FALSE
      /\ \A k, e : Persisted(k, e, FALSE).source # "none" /\ Persisted(k, e, FALSE).replaced = FALSE
  BY DEF Fallback, Unpersisted, Persisted
<1>2. /\ loader[p].at \notin {"tighten", "write", "report", "keyed"} => lost[p] = "nothing"
      /\ loader[p].at \in {"tighten", "write"} => (lost[p] = "unread") = loader[p].unread
  BY DEF LossIsKnown
<1>3. lost = [lost EXCEPT ![p] = lost[p]] /\ loader[p] \in Loaders
  BY DEF KeyTyped
<1>4. CASE ReadSalt(p)
  BY <1>4 DEF ReadSalt, KeyTyped, Loaders, LossIsKnown, At
<1>5. CASE CreateFails(p)
  BY <1>1, <1>2, <1>5, LossIsNoted DEF CreateFails
<1>6. CASE TempFails(p)
  BY <1>1, <1>2, <1>6, LossIsNoted DEF TempFails, At
<1>7. CASE Link(p)
  <2>1. CASE Goto(p, "winner") /\ UNCHANGED status
    BY <1>7, <2>1 DEF Link, Goto, At, KeyTyped, Loaders, LossIsKnown
  <2>2. CASE \E s \in {Fallback(FALSE), Persisted(p, "none", FALSE)} : Becomes(p, s)
    BY <1>1, <1>2, <1>7, <2>2, LossIsNoted DEF Link, At
  <2> QED
    BY <1>7, <2>1, <2>2 DEF Link
<1>8. CASE ReadWinner(p)
  <2>1. CASE Becomes(p, Unpersisted(p))
    BY <1>1, <1>2, <1>8, <2>1, LossIsNoted DEF ReadWinner, At
  <2>2. CASE ~ Becomes(p, Unpersisted(p))
    BY <1>8, <2>2 DEF ReadWinner, At, KeyTyped, Loaders, LossIsKnown
  <2> QED
    BY <2>1, <2>2
<1>9. CASE Truncate(p)
  <2>1. CASE Becomes(p, Fallback(FALSE)) /\ UNCHANGED lost
    BY <1>1, <1>2, <1>9, <2>1, LossIsNoted DEF Truncate, At
  <2>2. CASE ~ (Becomes(p, Fallback(FALSE)) /\ UNCHANGED lost)
    <3> DEFINE l == [loader[p] EXCEPT !.at = "tighten"]
    <3>1. l.at = "tighten" /\ l.unread = loader[p].unread
      BY <1>3 DEF Loaders
    <3>2. /\ lost' = [lost EXCEPT ![p] = Loss(p)] /\ UNCHANGED status
          /\ loader' = [loader EXCEPT ![p] = l]
      BY <1>9, <2>2 DEF Truncate, Goto
    <3>3. Loss(p) # "nothing" /\ (Loss(p) = "unread") = loader[p].unread
      BY <1>3 DEF Loss, Loaders
    <3> HIDE DEF l
    <3> QED
      BY <3>1, <3>2, <3>3, GoesOnKnowing
  <2> QED
    BY <2>1, <2>2
<1>10. CASE Tighten(p)
  BY <1>10 DEF Tighten, At, KeyTyped, Loaders, LossIsKnown
<1>11. CASE WriteSalt(p)
  <2>1. \A r \in BOOLEAN : Fallback(r).source # "none" /\ Fallback(r).replaced = r
    BY DEF Fallback
  <2>2. \A k, e, r : Persisted(k, e, r).source # "none" /\ Persisted(k, e, r).replaced = r
    BY DEF Persisted
  <2>3. loader[p].unread \in BOOLEAN
    BY <1>3 DEF Loaders
  <2> QED
    BY <1>2, <1>11, <2>1, <2>2, <2>3, LossIsNoted DEF WriteSalt, At
<1>12. CASE FindMode(p)
  BY <1>12 DEF FindMode, At, KeyTyped, Loaders, LossIsKnown
<1>13. CASE Restrict(p)
  BY <1>1, <1>2, <1>13, LossIsNoted DEF Restrict, At
<1>14. CASE Report(p)
  BY <1>14 DEF Report, Goto, At, KeyTyped, Loaders, LossIsKnown
<1> QED
  BY <1>4, <1>5, <1>6, <1>7, <1>8, <1>9, <1>10, <1>11, <1>12, <1>13, <1>14 DEF Load

(* A usable file keeps its bytes, and a first key is linked only once.       *)
LEMMA KeyStaysShared ==
    ASSUME KeyTyped, KeyIsShared, NEW p \in Procs, Load(p)
    PROVE  KeyIsShared'
<1> USE KeyAssumption DEF KeyTyped, SaltFiles, Loaders, Statuses, Where, KeyIsShared, FileServes, At
<1>1. CASE ReadSalt(p)
  BY <1>1 DEF ReadSalt, KeyKept
<1>2. CASE CreateFails(p)
  BY <1>2 DEF CreateFails, Becomes, Goto, KeyKept, Fallback, At
<1>3. CASE TempFails(p)
  BY <1>3 DEF TempFails, Becomes, Goto, KeyKept, Fallback
<1>4. CASE Link(p)
  <2>1. CASE world.disk = "noLinks" /\ ~ file.exists
    BY <1>4, <2>1 DEF Link, Becomes, Goto, KeyKept, Fallback
  <2>2. CASE file.exists
    BY <1>4, <2>2 DEF Link, Goto, KeyKept
  <2>3. CASE world.disk # "noLinks" /\ ~ file.exists
    BY <1>4, <2>3 DEF Link, Becomes, Goto, KeyKept, Persisted, Fresh
  <2> QED
    BY <2>1, <2>2, <2>3
<1>5. CASE ReadWinner(p)
  BY <1>5 DEF ReadWinner, Becomes, Goto, KeyKept, Unpersisted
<1>6. CASE Truncate(p)
  BY <1>6 DEF Truncate, Becomes, Goto, KeyKept, Fallback
<1>7. CASE Tighten(p)
  BY <1>7 DEF Tighten, KeyKept, Tightened
<1>8. CASE WriteSalt(p)
  BY <1>8 DEF WriteSalt, Becomes, Goto, KeyKept, Fallback, Persisted
<1>9. CASE FindMode(p)
  BY <1>9 DEF FindMode, KeyKept
<1>10. CASE Restrict(p)
  BY <1>10 DEF Restrict, Becomes, Goto, KeyKept, Persisted, Tightened
<1>11. CASE Report(p)
  BY <1>11 DEF Report, Goto
<1> QED
  BY <1>1, <1>2, <1>3, <1>4, <1>5, <1>6, <1>7, <1>8, <1>9, <1>10, <1>11 DEF Load

(* Whoever closes a loose file had found it loose.                           *)
LEMMA ModeStaysSeen ==
    ASSUME KeyTyped, KeyIsShared, ModeIsSeen, NEW p \in Procs, Load(p)
    PROVE  ModeIsSeen'
<1> USE DEF KeyTyped, SaltFiles, Loaders, KeyIsShared, FileServes, ModeIsSeen, FoundLoose, Adopted, At
<1>1. CASE ReadSalt(p)
  BY <1>1 DEF ReadSalt, KeyKept
<1>2. CASE CreateFails(p)
  BY <1>2 DEF CreateFails, Becomes, Goto, KeyKept, Fallback, At
<1>3. CASE TempFails(p)
  BY <1>3 DEF TempFails, Becomes, Goto, KeyKept, Fallback
<1>4. CASE Link(p)
  <2>1. CASE world.disk = "noLinks" /\ ~ file.exists
    BY <1>4, <2>1 DEF Link, Becomes, Goto, KeyKept, Fallback
  <2>2. CASE file.exists
    BY <1>4, <2>2 DEF Link, Goto, KeyKept
  <2>3. CASE world.disk # "noLinks" /\ ~ file.exists
    BY <1>4, <2>3 DEF Link, Becomes, Goto, KeyKept, Persisted, Fresh
  <2> QED
    BY <2>1, <2>2, <2>3
<1>5. CASE ReadWinner(p)
  BY <1>5 DEF ReadWinner, Becomes, Goto, KeyKept, Unpersisted
<1>6. CASE Truncate(p)
  BY <1>6 DEF Truncate, Becomes, Goto, KeyKept, Fallback
<1>7. CASE Tighten(p)
  BY <1>7 DEF Tighten, KeyKept, Tightened
<1>8. CASE WriteSalt(p)
  BY <1>8 DEF WriteSalt, Becomes, Goto, KeyKept, Fallback, Persisted
<1>9. CASE FindMode(p)
  BY <1>9 DEF FindMode, KeyKept
<1>10. CASE Restrict(p)
  BY <1>10 DEF Restrict, Becomes, Goto, KeyKept, Persisted, Tightened
<1>11. CASE Report(p)
  BY <1>11 DEF Report, Goto
<1> QED
  BY <1>1, <1>2, <1>3, <1>4, <1>5, <1>6, <1>7, <1>8, <1>9, <1>10, <1>11 DEF Load

(* A process that replaced the file stays one.                               *)
LEMMA ReplacersStay ==
    ASSUME KeyTyped, LossIsKnown, NEW p \in Procs, Load(p)
    PROVE  \A q \in Procs : lost'[q] = lost[q] \/ (q = p /\ Truncate(p) /\ lost[p] = "nothing"
                                                  /\ lost'[p] # "nothing")
<1>1. ASSUME Truncate(p), lost' # lost
      PROVE  \A q \in Procs : lost'[q] = lost[q] \/ (q = p /\ lost[p] = "nothing"
                                                     /\ lost'[p] # "nothing")
  <2>1. lost' = [lost EXCEPT ![p] = Loss(p)] /\ loader[p].at = "truncate"
    BY <1>1 DEF Truncate, At
  <2>2. Loss(p) # "nothing" /\ lost[p] = "nothing"
    BY <2>1 DEF Loss, LossIsKnown
  <2> QED
    BY <2>1, <2>2 DEF KeyTyped
<1>2. ~ Truncate(p) => lost' = lost
  BY DEF Load, ReadSalt, CreateFails, TempFails, Link, ReadWinner, Tighten, WriteSalt, FindMode,
     Restrict, Report
<1> QED
  BY <1>1, <1>2

(* Only a second replacement parts a key from the file.                      *)
LEMMA OneStillReplaces ==
    ASSUME KeyTyped, LossIsKnown, OneReplaces, NEW p \in Procs, Load(p)
    PROVE  OneReplaces'
<1>1. CASE TwoReplace
  BY <1>1, ReplacersStay DEF TwoReplace, OneReplaces
<1> USE KeyAssumption DEF KeyTyped, SaltFiles, Loaders, Statuses, KeyIsTheFiles, Goes, Useful,
                          NoneReplaces, At
<1>2. CASE ~ TwoReplace /\ Truncate(p) /\ lost' # lost
  <2>1. /\ lost' = [lost EXCEPT ![p] = Loss(p)] /\ loader[p].at = "truncate"
        /\ file' = [file EXCEPT !.bytes = Short] /\ status' = status
        /\ loader' = [loader EXCEPT ![p].at = "tighten"]
    BY <1>2 DEF Truncate, Goto
  <2>2. lost'[p] # "nothing" /\ lost[p] = "nothing"
    BY <2>1 DEF Loss, LossIsKnown
  <2>3. CASE \E q \in Procs : lost[q] # "nothing"
    <3>1. PICK q \in Procs : lost[q] # "nothing"
      BY <2>3
    <3>2. p # q /\ lost'[q] # "nothing"
      BY <2>1, <2>2, <3>1
    <3> QED
      BY <2>2, <3>2 DEF TwoReplace, OneReplaces
  <2>4. CASE NoneReplaces
    <3>1. KeyIsTheFiles
      BY <1>2 DEF OneReplaces
    <3>2. file.exists /\ ~ Useful
      BY <2>1, <2>4, <3>1
    <3>3. \A q \in Procs : ~ Goes(q) /\ loader[q].at \notin {"tighten", "write"}
      BY <2>4, <3>1, <3>2 DEF LossIsKnown
    <3>4. KeyIsTheFiles'
      BY <2>1, <2>2, <3>2, <3>3
    <3> QED
      BY <3>4 DEF OneReplaces
  <2> QED
    BY <2>3, <2>4
<1>3. CASE ~ TwoReplace /\ lost' = lost
  <2>1. KeyIsTheFiles /\ lost' = lost
    BY <1>3 DEF OneReplaces
  <2>2. CASE ReadSalt(p)
    BY <2>1, <2>2 DEF ReadSalt, KeyKept, OneReplaces
  <2>3. CASE CreateFails(p)
    BY <2>1, <2>3 DEF CreateFails, Becomes, Goto, KeyKept, Fallback, OneReplaces
  <2>4. CASE TempFails(p)
    BY <2>1, <2>4 DEF TempFails, Becomes, Goto, KeyKept, Fallback, OneReplaces
  <2>5. CASE Link(p) /\ file' = file
    <3>1. CASE Becomes(p, Fallback(FALSE)) /\ UNCHANGED file
      BY <2>1, <3>1 DEF Becomes, Goto, Fallback, OneReplaces
    <3>2. CASE file.exists /\ Goto(p, "winner") /\ UNCHANGED <<file, status>>
      BY <2>1, <3>2 DEF Goto, OneReplaces
    <3>3. file' # Fresh(p) \/ file.exists
      BY <2>5 DEF Fresh
    <3> QED
      BY <2>5, <3>1, <3>2, <3>3 DEF Link
  <2>6. CASE Link(p) /\ file' # file
    <3>1. /\ ~ file.exists /\ file' = Fresh(p) /\ Becomes(p, Persisted(p, "none", FALSE))
      BY <2>6 DEF Link
    <3>2. \A q \in Procs : ~ Goes(q) /\ loader[q].at \notin {"tighten", "write"}
                            /\ lost[q] = "nothing" /\ loader[q].at # "truncate"
      BY <2>1, <3>1
    <3> QED
      BY <2>1, <3>1, <3>2 DEF Becomes, Goto, Persisted, Fresh, OneReplaces
  <2>7. CASE ReadWinner(p)
    BY <2>1, <2>7 DEF ReadWinner, Becomes, Goto, KeyKept, Unpersisted, OneReplaces
  <2>8. CASE Truncate(p)
    <3>1. Becomes(p, Fallback(FALSE)) /\ UNCHANGED file
      BY <2>1, <2>8 DEF Truncate, Loss, LossIsKnown
    <3> QED
      BY <2>1, <3>1 DEF Becomes, Goto, Fallback, OneReplaces
  <2>9. CASE Tighten(p)
    <3>1. lost[p] # "nothing"
      BY <2>9 DEF Tighten, LossIsKnown
    <3> QED
      BY <2>1, <2>9, <3>1 DEF Tighten, Tightened, KeyKept, OneReplaces
  <2>10. CASE WriteSalt(p)
    <3>1. lost[p] # "nothing" /\ file.exists /\ file.bytes = Short
      BY <2>1, <2>10 DEF WriteSalt, LossIsKnown
    <3>2. \A q \in Procs : /\ ~ Goes(q)
                           /\ q # p => lost[q] = "nothing" /\ loader[q].at \notin {"tighten", "write"}
      BY <1>3, <2>1, <3>1 DEF TwoReplace, LossIsKnown
    <3>3. CASE Becomes(p, Fallback(loader[p].unread)) /\ UNCHANGED file
      BY <2>1, <3>1, <3>2, <3>3 DEF Becomes, Goto, Fallback, OneReplaces
    <3>4. CASE /\ file' = [file EXCEPT !.bytes = p]
               /\ Becomes(p, Persisted(p, IF loader[p].found THEN "open" ELSE "none", loader[p].unread))
      BY <2>1, <3>1, <3>2, <3>4 DEF Becomes, Goto, Persisted, OneReplaces
    <3> QED
      BY <2>10, <3>3, <3>4 DEF WriteSalt
  <2>11. CASE FindMode(p)
    BY <2>1, <2>11 DEF FindMode, KeyKept, OneReplaces
  <2>12. CASE Restrict(p)
    <3>1. /\ loader[p].at = "restrict" /\ file' = Tightened
          /\ loader' = [loader EXCEPT ![p].at = "report"]
          /\ \E e : status' = [status EXCEPT ![p] = Persisted(loader[p].read, e, FALSE)]
      BY <2>12 DEF Restrict, Becomes, Goto
    <3> QED
      BY <2>1, <3>1 DEF Tightened, Persisted, OneReplaces
  <2>13. CASE Report(p)
    BY <2>1, <2>13 DEF Report, Goto, OneReplaces
  <2> QED
    BY <2>2, <2>3, <2>4, <2>5, <2>6, <2>7, <2>8, <2>9, <2>10, <2>11, <2>12, <2>13 DEF Load
<1>4. Truncate(p) \/ lost' = lost
  BY DEF Load, ReadSalt, CreateFails, TempFails, Link, ReadWinner, Tighten, WriteSalt, FindMode,
     Restrict, Report
<1> QED
  BY <1>1, <1>2, <1>3, <1>4

(* What the sink did not take the message carries.                           *)
LEMMA AllStaysTold ==
    ASSUME KeyTyped, AllIsTold, NEW p \in Procs, Load(p)
    PROVE  AllIsTold'
<1>1. world' = world
  BY DEF Load, ReadSalt, CreateFails, TempFails, Link, ReadWinner, Truncate, Tighten,
     WriteSalt, FindMode, Restrict, Report, KeyKept
<1>2. ASSUME NEW q \in Procs \ Daemons, loader[q] = loader'[q], status[q] = status'[q],
             recorded[q] = recorded'[q], message[q] = message'[q]
      PROVE  AllIsTold!(q)'
  BY <1>1, <1>2 DEF AllIsTold, Told, Degradations
<1>3. \A q \in Procs : q # p => /\ loader[q] = loader'[q] /\ status[q] = status'[q]
                                /\ recorded[q] = recorded'[q] /\ message[q] = message'[q]
  BY DEF KeyTyped, Load, ReadSalt, CreateFails, TempFails, Link, ReadWinner, Truncate, Tighten,
     WriteSalt, FindMode, Restrict, Report, KeyKept, Becomes, Goto
<1>4. ASSUME ~ Report(p)
      PROVE  loader'[p].at # "keyed"
  <2> DEFINE Elsewhere == Where \ {"keyed"}
  <2>1. ASSUME NEW where \in Elsewhere, Goto(p, where)
        PROVE  loader'[p].at # "keyed"
    BY <2>1 DEF Goto, KeyTyped, Loaders
  <2>2. ASSUME \/ CreateFails(p) \/ TempFails(p) \/ Link(p) \/ Truncate(p) \/ WriteSalt(p)
               \/ Restrict(p)
        PROVE  \E where \in Elsewhere : Goto(p, where)
    <3>1. {"report", "winner", "tighten"} \subseteq Elsewhere
      BY DEF Where
    <3> HIDE DEF Elsewhere
    <3> QED
      BY <2>2, <3>1 DEF CreateFails, TempFails, Link, Truncate, WriteSalt, Restrict, Becomes
  <2> USE DEF KeyTyped, Loaders
  <2>3. CASE ReadSalt(p)
    BY <2>3 DEF ReadSalt
  <2>4. CASE ReadWinner(p)
    BY <2>4 DEF ReadWinner, Becomes, Goto
  <2>5. CASE Tighten(p)
    BY <2>5 DEF Tighten
  <2>6. CASE FindMode(p)
    BY <2>6 DEF FindMode
  <2> QED
    BY <1>4, <2>1, <2>2, <2>3, <2>4, <2>5, <2>6 DEF Load
<1>5. ASSUME Report(p), p \notin Daemons, world.sink # "none"
      PROVE  Told(p)' = Degradations(status[p])'
  <2> DEFINE owed == Degradations(status[p])
  <2>1. PICK taken \in Taken(owed) : /\ recorded' = [recorded EXCEPT ![p] = taken]
                                     /\ message' = [message EXCEPT ![p] = MessageOf(p, owed, taken)]
    BY <1>5 DEF Report
  <2>2. recorded'[p] = taken /\ message'[p] = owed \ taken
    BY <1>5, <2>1 DEF KeyTyped, MessageOf
  <2>3. taken \subseteq owed
    BY <2>1 DEF Taken
  <2>4. status' = status
    BY <1>5 DEF Report
  <2>5. Told(p)' = owed
    <3> HIDE DEF owed
    <3> QED
      BY <2>2, <2>3 DEF Told
  <2> QED
    BY <2>4, <2>5 DEF Degradations
<1> QED
  BY <1>1, <1>2, <1>3, <1>4, <1>5 DEF AllIsTold

-----------------------------------------------------------------------------
(* The theorems.                                                            *)

(* A process that starts has lost, told and agreed on nothing.               *)
LEMMA KeyInitHolds ==
    ASSUME KeyInit
    PROVE  KeyInv
<1> USE KeyAssumption DEF KeyInit, Idle, NoStatus
<1>1. KeyTyped
  BY DEF KeyTyped, Loaders, Statuses, Where, Bytes, Losses
<1>2. LossIsKnown /\ AllIsTold
  BY DEF LossIsKnown, AllIsTold
<1>3. KeyIsShared
  BY DEF KeyIsShared, FileServes
<1>4. ModeIsSeen
  BY DEF ModeIsSeen, FoundLoose, Adopted
<1>5. OneReplaces
  BY DEF OneReplaces, KeyIsTheFiles, Goes
<1> QED
  BY <1>1, <1>2, <1>3, <1>4, <1>5 DEF KeyInv

(* Any number of processes keep the key, whichever of them moves.            *)
LEMMA KeyInductive == Spec => []KeyInv
<1>1. Init => KeyInv
  BY KeyInitHolds DEF Init
<1>2. ASSUME KeyInv, [Next]_vars
      PROVE  KeyInv'
  <2>1. ASSUME NEW p \in Procs, Loading(p)
        PROVE  KeyInv'
    BY <1>2, <2>1, TypesKept, LossStaysKnown, AllStaysTold, KeyStaysShared, ModeStaysSeen,
       OneStillReplaces DEF KeyInv, Loading
  <2>2. CASE UNCHANGED keyVars
    BY <1>2, <2>2 DEF keyVars, KeyInv, KeyTyped, LossIsKnown, AllIsTold, Told, Degradations, KeyIsShared,
       FileServes, ModeIsSeen, FoundLoose, Adopted, OneReplaces, TwoReplace, KeyIsTheFiles, Goes,
       Useful, NoneReplaces
  <2>3. (\E p \in Procs : Loading(p)) \/ UNCHANGED keyVars
    BY <1>2 DEF Next, vars, Settle, Begin, Facts, Rejected, FactsExpire, DenyBeforeRead, PreExpires,
       Run, Answer, AnswerExpires, Silence, SessionKept, EngineKept
  <2> QED
    BY <2>1, <2>2, <2>3
<1> QED
  BY <1>1, <1>2, PTL DEF Spec

(* Processes that start together derive their placeholders from one key, the *)
(* one the file holds, unless the file was one nobody could use: hook.rs,    *)
(* publish_secret_atomically and what it does when it loses the race.        *)
THEOREM KeyIsOne == Spec => []OneMachineKey
<1>1. KeyInv => OneMachineKey
  BY DEF KeyInv, KeyIsShared, FileServes, OneMachineKey
<1> QED
  BY <1>1, KeyInductive, PTL

(* Whatever is weaker than it looks is told by an event or a message: a key  *)
(* that is not the machine's, bytes that were destroyed unread, and a mode   *)
(* that let others read the key, by whichever process found it (hook.rs,     *)
(* degradations and found_exposure).  A persisted key that is not the file's *)
(* any more is told by nobody, and takes two processes that both replace the *)
(* file (load_or_create_machine_salt, at SaltFileState::Corrupt).            *)
THEOREM NoWeaknessGoesUntold == Spec => []WeaknessIsTold
<1>1. ASSUME KeyInv
      PROVE  DegradationLeavesTrace
  <2> SUFFICES ASSUME NEW p \in Procs \ Daemons, Keyed(p), world.sink # "none"
               PROVE  /\ "hook-salt-replaced-unread" \in Told(p) <=> lost[p] = "unread"
                      /\ status[p].source # "persisted" <=> "hook-salt-fallback" \in Told(p)
    BY DEF DegradationLeavesTrace
  <2>1. Told(p) = Degradations(status[p])
    BY <1>1 DEF KeyInv, AllIsTold, Keyed
  <2>2. /\ status[p].replaced = (lost[p] = "unread")
        /\ status[p].source \in {"persisted", "unpersisted", "fallback"}
    BY <1>1 DEF KeyInv, KeyTyped, LossIsKnown, Statuses, Keyed
  <2>3. "hook-salt-replaced-unread" \in Degradations(status[p]) <=> status[p].replaced
    BY <2>2 DEF Degradations
  <2>4. "hook-salt-fallback" \in Degradations(status[p]) <=> status[p].source # "persisted"
    BY <2>2 DEF Degradations
  <2> QED
    BY <2>1, <2>2, <2>3, <2>4
<1>2. ASSUME KeyInv
      PROVE  ExposureIsTold
  <2> SUFFICES ASSUME FoundLoose, world.sink # "none",
                      \A p \in Procs : loader[p].at \in {"start", "keyed"},
                      \E p \in Procs : Keyed(p),
                      \A p \in Daemons : loader[p].at = "start"
               PROVE  \E p \in Procs :
                         Told(p) \cap {"hook-salt-exposed", "hook-salt-was-exposed"} # {}
    BY DEF ExposureIsTold, FoundLoose
  <2>1. PICK p \in Procs : /\ loader[p].at = "keyed" /\ status[p].source = "persisted"
                           /\ status[p].exposure \in {"open", "closed"}
    BY <1>2 DEF KeyInv, ModeIsSeen, Adopted, Keyed
  <2>2. Told(p) = Degradations(status[p])
    BY <1>2, <2>1 DEF KeyInv, AllIsTold
  <2>3. Degradations(status[p]) \cap {"hook-salt-exposed", "hook-salt-was-exposed"} # {}
    BY <2>1 DEF Degradations
  <2> QED
    BY <2>2, <2>3
<1>3. KeyInv => StaleKeyTakesTwo
  BY DEF KeyInv, OneReplaces, KeyIsTheFiles, StaleKeyTakesTwo
<1>4. KeyInv => WeaknessIsTold
  BY <1>1, <1>2, <1>3 DEF WeaknessIsTold
<1> QED
  BY <1>4, KeyInductive, PTL

-----------------------------------------------------------------------------
(* The session lookup.                                                      *)

Steps == {"start", "facts", "pre", "run", "post", "done"}

SessionTyped ==
    /\ lookups \in Seq({"pending", "ok", "failed"})
    /\ cached \in 0 .. Len(lookups)
    /\ awaits \in [Calls -> Nat] /\ \A c \in Calls : awaits[c] <= Len(lookups)
    /\ step \in [Calls -> Steps]

(* Until the cached lookup has succeeded, some call awaits it.               *)
SessionInv ==
    /\ SessionTyped
    /\ \A c \in Calls : step[c] = "start" => awaits[c] = 0
    /\ cached # 0 => lookups[cached] = "ok" \/ \E c \in Calls : awaits[c] = cached

(* A call that begins awaits the lookup it finds, or starts.                 *)
LEMMA BeginsAwaiting ==
    ASSUME SessionInv, NEW c \in Calls, Begin(c)
    PROVE  SessionInv'
<1> USE DEF SessionInv, SessionTyped, Steps
<1>1. CASE Call(c).kind = "command"
  BY <1>1 DEF Begin, SessionKept
<1>2. CASE Call(c).kind # "command" /\ cached # 0
  <2>1. /\ lookups' = lookups /\ cached' = cached
        /\ awaits' = [awaits EXCEPT ![c] = cached] /\ step' = [step EXCEPT ![c] = "facts"]
    BY <1>2 DEF Begin
  <2> QED
    BY <1>2, <2>1
<1>3. CASE Call(c).kind # "command" /\ cached = 0
  <2>1. /\ lookups' = Append(lookups, "pending") /\ cached' = Len(lookups) + 1
        /\ awaits' = [awaits EXCEPT ![c] = cached'] /\ step' = [step EXCEPT ![c] = "facts"]
    BY <1>3 DEF Begin
  <2>2. /\ lookups' \in Seq({"pending", "ok", "failed"}) /\ Len(lookups') = Len(lookups) + 1
        /\ Len(lookups) \in Nat
    BY <2>1
  <2> QED
    BY <2>1, <2>2
<1> QED
  BY <1>1, <1>2, <1>3

(* A lookup that has settled settles no more.                                *)
LEMMA SettlesOnce ==
    ASSUME SessionInv, NEW n \in 1 .. Len(lookups), Settle(n)
    PROVE  SessionInv'
<1>1. PICK how \in {"ok", "failed"} : lookups' = [lookups EXCEPT ![n] = how]
  BY DEF Settle
<1>2. /\ lookups' \in Seq({"pending", "ok", "failed"}) /\ Len(lookups') = Len(lookups)
      /\ \A k \in 1 .. Len(lookups) : lookups[k] = "ok" => lookups'[k] = "ok"
  BY <1>1 DEF Settle, SessionInv, SessionTyped
<1> QED
  BY <1>2 DEF Settle, SessionInv, SessionTyped

(* Who stops awaiting what failed evicts it.                                 *)
LEMMA AwaitersEvict ==
    ASSUME SessionInv, NEW c \in Calls, Facts(c) \/ Rejected(c)
    PROVE  SessionInv'
<1>1. /\ awaits[c] # 0 /\ awaits' = [awaits EXCEPT ![c] = 0] /\ lookups' = lookups
  BY DEF Facts, Rejected
<1>2. \/ cached' = cached /\ (cached # awaits[c] \/ lookups[cached] = "ok")
      \/ cached' = 0
  BY DEF Facts, Rejected, SessionInv, SessionTyped
<1>3. step[c] # "start" /\ \E s \in Steps \ {"start"} : step' = [step EXCEPT ![c] = s]
  <2>1. step[c] # "start" /\ step = [step EXCEPT ![c] = step[c]] /\ step[c] \in Steps
    BY <1>1 DEF SessionInv, SessionTyped
  <2> QED
    BY <2>1 DEF Facts, Rejected, Unavailable, Withholds, Proceeds, Ends, Steps
<1> QED
  BY <1>1, <1>2, <1>3 DEF SessionInv, SessionTyped

(* The steps after it, or past the end of the budget, evict nothing.         *)
LEMMA OthersLeaveTheSession ==
    ASSUME SessionInv, UNCHANGED <<lookups, cached, awaits>>,
           \/ UNCHANGED step
           \/ \E c \in Calls, s \in Steps \ {"start"} : step' = [step EXCEPT ![c] = s]
    PROVE  SessionInv'
BY DEF SessionInv, SessionTyped

(* Where the others take a call.                                             *)
LEMMA Moves ==
    ASSUME NEW c \in Calls,
           \/ FactsExpire(c) \/ DenyBeforeRead(c) \/ PreExpires(c) \/ Run(c)
           \/ Answer(c) \/ AnswerExpires(c) \/ Silence(c)
    PROVE  /\ UNCHANGED <<lookups, cached, awaits, setting>>
           /\ \E s \in Steps \ {"start"} : step' = [step EXCEPT ![c] = s]
<1>1. UNCHANGED <<lookups, cached, awaits, setting>>
  BY DEF FactsExpire, DenyBeforeRead, PreExpires, Run, Answer, AnswerExpires, Silence, EngineKept
<1>2. ASSUME NEW how, NEW value, Ends(c, how, value)
      PROVE  step' = [step EXCEPT ![c] = "done"]
  BY <1>2 DEF Ends
<1>3. ASSUME Unavailable(c) \/ Proceeds(c) \/ Withholds(c)
      PROVE  step' = [step EXCEPT ![c] = "done"]
  BY <1>2, <1>3 DEF Unavailable, Proceeds, Withholds
<1>4. ASSUME NEW reply, Judge(c, reply)
      PROVE  step' = [step EXCEPT ![c] = "done"]
  BY <1>2, <1>3, <1>4 DEF Judge, CommandVerdict, PromptVerdict, RedactError, RedactResult
<1>5. \/ step' = [step EXCEPT ![c] = "done"] \/ step' = [step EXCEPT ![c] = "run"]
      \/ step' = [step EXCEPT ![c] = "post"]
  BY <1>3, <1>4 DEF FactsExpire, DenyBeforeRead, PreExpires, Run, Answer, AnswerExpires, Silence, GoesOn
<1> QED
  BY <1>1, <1>5 DEF Steps

(* One lookup is shared by the calls of a session.                           *)
LEMMA SessionInductive == Spec => []SessionInv
<1>1. Init => SessionInv
  BY DEF Init, PluginInit, SessionInv, SessionTyped, Steps
<1>2. ASSUME SessionInv, [Next]_vars
      PROVE  SessionInv'
  <2>1. CASE UNCHANGED pluginVars
    BY <1>2, <2>1, OthersLeaveTheSession DEF pluginVars
  <2>2. ASSUME NEW n \in 1 .. Len(lookups), Settle(n)
        PROVE  SessionInv'
    BY <1>2, <2>2, SettlesOnce
  <2>3. ASSUME NEW c \in Calls, Begin(c)
        PROVE  SessionInv'
    BY <1>2, <2>3, BeginsAwaiting
  <2>4. ASSUME NEW c \in Calls, Facts(c) \/ Rejected(c)
        PROVE  SessionInv'
    BY <1>2, <2>4, AwaitersEvict
  <2>5. ASSUME NEW c \in Calls,
               \/ FactsExpire(c) \/ DenyBeforeRead(c) \/ PreExpires(c) \/ Run(c)
               \/ Answer(c) \/ AnswerExpires(c) \/ Silence(c)
        PROVE  SessionInv'
    BY <1>2, <2>5, Moves, OthersLeaveTheSession
  <2> QED
    BY <1>2, <2>1, <2>2, <2>3, <2>4, <2>5 DEF Next, vars, Loading
<1> QED
  BY <1>1, <1>2, PTL DEF Spec

(* A rejected lookup never stays behind for the calls to come: whoever       *)
(* awaited it evicts it, even a hook whose budget has ended (honmoon.ts,     *)
(* once and sessionFacts).                                                  *)
THEOREM FailureIsEvicted == Spec => []RejectionIsNotKept
<1>1. SessionInv => RejectionIsNotKept
  BY DEF SessionInv, RejectionIsNotKept
<1> QED
  BY <1>1, SessionInductive, PTL

-----------------------------------------------------------------------------
(* What redaction leaves.                                                   *)

(* A value that was redacted holds nothing that would be redacted again.     *)
LEMMA RedactedIsClean ==
    ASSUME NEW value, NEW salt
    PROVE  Exposed(RedactJson(value, salt)) = {}
<1>1. SUFFICES ASSUME NEW s \in StringsOf(RedactJson(value, salt))
               PROVE  Hit(s, 2) = {}
  BY DEF Exposed
<1>2. PICK q \in DOMAIN RedactJson(value, salt) :
         s = RedactJson(value, salt)[q] /\ s.is = "string"
  BY <1>1 DEF StringsOf
<1>3. \/ s = Marker \/ s = RedactString(value[q], salt, 2)
  BY <1>2 DEF RedactJson
<1>4. CASE s = Marker
  BY <1>4 DEF Marker, Str, Hit
<1>5. CASE s = RedactString(value[q], salt, 2)
  <2>1. s.holds = value[q].holds \ Hit(value[q], 2)
    BY <1>5 DEF RedactString, Str
  <2> QED
    BY <2>1 DEF Hit
<1> QED
  BY <1>3, <1>4, <1>5

(* A value redaction leaves alone holds nothing to redact.                   *)
LEMMA UnchangedIsClean ==
    ASSUME NEW value, ~ Changes(value)
    PROVE  Exposed(value) = {}
BY DEF Exposed, Changes

(* There is always something left of a value.                                *)
LEMMA RedactedIsThere ==
    ASSUME NEW value, NEW salt, <<>> \in DOMAIN value
    PROVE  /\ RedactJson(value, salt) # NoValue
           /\ <<>> \in DOMAIN RedactJson(value, salt)
<1>1. Len(<<>>) <= MaxRedactDepth
  BY PluginAssumption DEF PluginAssumption
<1>2. <<>> \in DOMAIN RedactJson(value, salt)
  BY <1>1 DEF RedactJson
<1>3. DOMAIN NoValue = {}
  BY DEF NoValue
<1> QED
  BY <1>2, <1>3

LEMMA NothingIsClean == Exposed(NoValue) = {}
BY DEF Exposed, StringsOf, NoValue

(* What is picked out of a clean value is clean.                             *)
LEMMA ErroredIsClean ==
    ASSUME NEW value, Exposed(value) = {}
    PROVE  Exposed(ErroredStrings(value)) = {}
<1>1. StringsOf(ErroredStrings(value)) \subseteq StringsOf(value)
  BY DEF StringsOf, ErroredStrings
<1> QED
  BY <1>1 DEF Exposed

LEMMA FirstStringIsClean ==
    ASSUME NEW updated, Exposed(updated) = {}
    PROVE  Exposed(FirstString(updated)) = {}
<1>1. CASE FirstString(updated) = NoValue
  BY <1>1, NothingIsClean
<1>2. CASE FirstString(updated) # NoValue
  <2>1. PICK k \in {"text", "result"} :
           /\ <<k>> \in DOMAIN updated /\ updated[<<k>>].is = "string"
           /\ FirstString(updated) = Leaf(updated[<<k>>])
    BY <1>2 DEF FirstString
  <2>2. updated[<<k>>] \in StringsOf(updated)
    BY <2>1 DEF StringsOf
  <2>3. Hit(updated[<<k>>], 2) = {}
    BY <2>2 DEF Exposed
  <2>4. \A s \in StringsOf(Leaf(updated[<<k>>])) : s = updated[<<k>>]
    BY DEF StringsOf, Leaf
  <2> QED
    BY <2>1, <2>3, <2>4 DEF Exposed
<1> QED
  BY <1>1, <1>2

(* An error without a string has nothing that is scanned.                    *)
LEMMA UnaskedIsClean ==
    ASSUME NEW c \in Calls, setting \in Situations, ~ Asked(c), Call(c).isError
    PROVE  Exposed(ErroredStrings(Call(c).result)) = {}
<1>1. DOMAIN ErroredStrings(Call(c).result) = {<<>>}
  BY DEF Asked
<1>2. ErroredStrings(Call(c).result)[<<>>].is # "string"
  BY PluginAssumption DEF PluginAssumption, Call, ErroredStrings, Root
<1>3. StringsOf(ErroredStrings(Call(c).result)) = {}
  BY <1>1, <1>2 DEF StringsOf
<1> QED
  BY <1>3 DEF Exposed

-----------------------------------------------------------------------------
(* Failing closed.                                                          *)

ClosedTyped ==
    /\ setting \in Situations
    /\ outcome \in [Calls -> {"none", "withheld", "passed", "rewritten"}]
    /\ DOMAIN shown = Calls /\ step \in [Calls -> Steps]

(* What is to be scanned of a value shown for a call.                        *)
ScannedOf(c, value) ==
    IF Call(c).isError THEN ErroredStrings(value)
    ELSE IF Call(c).scannable THEN value ELSE NoValue

(* Before a call is over nothing of it is shown, and what would open         *)
(* credentials is neither run nor about to be.                               *)
Closed(c) ==
    /\ step[c] # "done" => outcome[c] = "none"
    /\ outcome[c] # "none" => Exposed(ScannedOf(c, shown[c])) = {}
    /\ SensitiveRead(c) => step[c] # "run" /\ c \notin ran

Guarded(c) == setting.failClosed /\ c \notin misled /\ Call(c).kind # "command"

ClosedInv == ClosedTyped /\ \A c \in Calls : Guarded(c) => Closed(c)

LEMMA CleanScansClean ==
    ASSUME NEW c \in Calls, NEW value, Exposed(value) = {}
    PROVE  Exposed(ScannedOf(c, value)) = {}
BY NothingIsClean, ErroredIsClean DEF ScannedOf

(* A reply that says nothing of what it was not asked about.                 *)
Misleads(c, reply) == Ok(reply) /\ reply.verdict = Noop /\ reply \notin Honest(c)

(* A reply that lets a result through has found nothing in it to redact, and *)
(* one that rewrites it leaves nothing of it.                                *)
Clean(c, reply) ==
    /\ Ok(reply)
    /\ ~ Misrouted(reply.verdict, "PostToolUse", IF Call(c).kind = "prompt" THEN NotPrompt ELSE NotPost)
    => /\ Exposed(reply.verdict.updated) = {}
       /\ reply.verdict.updated = NoValue /\ reply.verdict.decision = Absent
            => Exposed(ScannedOf(c, Call(c).result)) = {}

LEMMA RepliesAreClean ==
    ASSUME ClosedTyped, NEW c \in Calls, Call(c).kind # "command", step[c] = "post",
           NEW reply \in Replies(c), ~ Misleads(c, reply)
    PROVE  Clean(c, reply)
<1>1. ASSUME Shows(reply)
      PROVE  Clean(c, reply)
  <2>1. CASE Exposed(reply.verdict.updated) = {} /\ reply.verdict.updated # NoValue
    BY <2>1 DEF Clean
  <2>2. CASE Exposed(reply.verdict.updated) = {} /\ reply.verdict.decision # Absent
    BY <2>2 DEF Clean
  <2>3. CASE reply.verdict.permission # Absent
    BY <2>3 DEF Clean, Misrouted, NotPrompt, NotPost
  <2>4. CASE reply.verdict.event # Absent /\ reply.verdict.updated = NoValue
                /\ reply.verdict.decision = Absent /\ reply.verdict.permission = Absent
    BY <2>4 DEF Clean, Misrouted
  <2>5. CASE ~ Ok(reply)
    BY <2>5 DEF Clean
  <2> QED
    BY <1>1, <2>1, <2>2, <2>3, <2>4, <2>5 DEF Shows, Ok
<1>2. CASE reply = Status
  BY <1>2 DEF Clean, Ok, Status, Empty, Of
<1>3. CASE reply \in Honest(c)
  <2> DEFINE payload == PayloadOf(c)
             salt == Salt(status[Answerer(c)].key, setting.pinned, Session)
             v == Verdict(payload, salt, Resolution(c, payload.path))
             asked == payload.response
  <2>1. payload.event = "PostToolUse" /\ payload.tool \in {"Read", "Bash", "Grep"}
    BY DEF PayloadOf, Payload, EngineToolName
  <2>2. asked = Call(c).result \/ (Call(c).isError /\ asked = ErroredStrings(Call(c).result))
    BY DEF PayloadOf, Payload
  <2>3. <<>> \in DOMAIN asked
    <3>1. <<>> \in DOMAIN Call(c).result
      BY PluginAssumption DEF PluginAssumption, ClosedTyped, Call
    <3> HIDE DEF asked
    <3> QED
      BY <2>2, <3>1 DEF ErroredStrings
  <2>4. Exposed(asked) = {} => Exposed(ScannedOf(c, Call(c).result)) = {}
    <3> HIDE DEF asked
    <3> QED
      BY <2>2, CleanScansClean DEF ScannedOf
  <2>5. reply.verdict = v
    BY <1>3 DEF Honest, EngineReply, Of, Empty
  <2>6. v = PostToolUse(payload, salt)
    BY <2>1 DEF Verdict
  <2>7. CASE Changes(asked)
    <3>1. v.updated = RedactJson(asked, salt)
      BY <2>1, <2>6, <2>7 DEF PostToolUse, Noop
    <3> QED
      BY <2>3, <2>5, <3>1, RedactedIsClean, RedactedIsThere DEF Clean
  <2>8. CASE ~ Changes(asked)
    <3>1. v.updated = NoValue
      BY <2>1, <2>6, <2>8 DEF PostToolUse, Noop
    <3>2. Exposed(ScannedOf(c, Call(c).result)) = {}
      BY <2>4, <2>8, UnchangedIsClean
    <3> QED
      BY <2>5, <3>1, <3>2, NothingIsClean DEF Clean
  <2> QED
    BY <2>7, <2>8
<1>4. CASE reply \in setting.faults \ Honest(c)
  <2>1. Shows(reply) \/ reply.verdict = Noop
    BY <1>4, PluginAssumption DEF PluginAssumption, ClosedTyped
  <2>2. CASE reply.verdict = Noop
    BY <1>4, <2>2 DEF Misleads, Clean
  <2> QED
    BY <1>1, <2>1, <2>2
<1> QED
  BY <1>2, <1>3, <1>4 DEF Replies

(* What would open credentials is denied, whatever answers.                  *)
LEMMA RepliesDeny ==
    ASSUME ClosedTyped, setting.failClosed, NEW c \in Calls, SensitiveRead(c), step[c] = "pre",
           NEW reply \in Replies(c), ~ Misleads(c, reply)
    PROVE  Denies(c, reply)
<1>1. ASSUME Shows(reply)
      PROVE  Denies(c, reply)
  <2>1. CASE ~ Ok(reply)
    BY <2>1 DEF Denies
  <2>2. CASE reply.verdict.decision # Absent \/ reply.verdict.updated # NoValue
    BY <2>2 DEF Denies, Misrouted, NotPre
  <2>3. CASE reply.verdict.permission # Absent
    BY <2>3 DEF Denies
  <2>4. CASE reply.verdict.event # Absent /\ reply.verdict.updated = NoValue
                /\ reply.verdict.decision = Absent /\ reply.verdict.permission = Absent
    BY <2>4 DEF Denies, Misrouted
  <2> QED
    BY <1>1, <2>1, <2>2, <2>3, <2>4 DEF Shows, Ok
<1>2. CASE reply = Status
  BY <1>2 DEF Denies, Ok, Status, Empty, Of
<1>3. CASE reply \in Honest(c)
  <2> DEFINE payload == PayloadOf(c)
             salt == Salt(status[Answerer(c)].key, setting.pinned, Session)
             v == Verdict(payload, salt, Resolution(c, payload.path))
  <2>1. payload.event = "PreToolUse" /\ payload.path = Call(c).path /\ payload.tool = "Read"
    BY DEF PayloadOf, Payload
  <2>2. v = PreToolUse(payload, Resolution(c, payload.path))
    BY <2>1 DEF Verdict
  <2>3. v = [Noop EXCEPT !.event = "PreToolUse", !.permission = "deny"]
    BY <2>1, <2>2 DEF PreToolUse, SensitiveRead
  <2>4. reply.verdict = v
    BY <1>3 DEF Honest, EngineReply, Of, Empty
  <2>5. v.event = "PreToolUse" /\ v.permission = "deny" /\ v.decision = Absent
        /\ v.updated = NoValue
    BY <2>3 DEF Noop
  <2> QED
    BY <2>4, <2>5 DEF Denies, Misrouted, NotPre, Absent
<1>4. CASE reply \in setting.faults \ Honest(c)
  <2>1. Shows(reply) \/ reply.verdict = Noop
    BY <1>4, PluginAssumption DEF PluginAssumption, ClosedTyped
  <2>2. CASE reply.verdict = Noop
    BY <1>4, <2>2 DEF Misleads, Denies
  <2> QED
    BY <1>1, <2>1, <2>2
<1> QED
  BY <1>2, <1>3, <1>4 DEF Replies

(* What a handler ends with is withheld, or clean, when it fails closed.     *)
LEMMA EndsClosed ==
    ASSUME ClosedInv, NEW c \in Calls, UNCHANGED setting, misled \subseteq misled',
           ran' = ran \/ (ran' = ran \cup {c} /\ step[c] = "run"),
           NEW how \in {"withheld", "passed", "rewritten"}, NEW value, Ends(c, how, value),
           Guarded(c)' => Exposed(ScannedOf(c, value)) = {}
    PROVE  ClosedInv'
<1>1. /\ step' = [step EXCEPT ![c] = "done"] /\ outcome' = [outcome EXCEPT ![c] = how]
      /\ shown' = [shown EXCEPT ![c] = value]
  BY DEF Ends
<1>2. ClosedTyped'
  BY <1>1 DEF ClosedInv, ClosedTyped, Steps
<1>3. ASSUME NEW d \in Calls, Guarded(d)'
      PROVE  Closed(d)'
  <2>1. Guarded(d) /\ Closed(d)
    BY <1>3 DEF ClosedInv, Guarded, Call
  <2>2. SensitiveRead(d)' = SensitiveRead(d)
    BY DEF Call, SensitiveRead, Resolution
  <2>3. \A w : ScannedOf(d, w)' = ScannedOf(d, w)
    BY DEF ScannedOf, Call
  <2>4. CASE d # c
    <3>1. /\ step'[d] = step[d] /\ outcome'[d] = outcome[d] /\ shown'[d] = shown[d]
          /\ d \in ran' => d \in ran
      BY <1>1, <2>4 DEF ClosedInv, ClosedTyped
    <3>2. ScannedOf(d, shown[d])' = ScannedOf(d, shown[d])
      BY <3>1 DEF ScannedOf, Call
    <3> QED
      BY <2>1, <2>2, <3>1, <3>2 DEF Closed
  <2>5. CASE d = c
    <3>1. step'[d] = "done" /\ shown'[d] = value
      BY <1>1, <2>5 DEF ClosedInv, ClosedTyped
    <3>2. ScannedOf(d, shown[d])' = ScannedOf(d, value)
      BY <3>1 DEF ScannedOf, Call
    <3> QED
      BY <1>3, <2>1, <2>2, <2>5, <3>1, <3>2 DEF Closed
  <2> QED
    BY <2>4, <2>5
<1> QED
  BY <1>2, <1>3 DEF ClosedInv

(* Whatever a handler ends with, if something said nothing unasked.          *)
LEMMA MisledEnds ==
    ASSUME ClosedInv, NEW c \in Calls, UNCHANGED <<setting, ran>>, misled \subseteq misled',
           ~ Guarded(c)', Withholds(c) \/ Proceeds(c) \/ \E value : Ends(c, "rewritten", value)
    PROVE  ClosedInv'
<1>1. CASE Withholds(c)
  BY <1>1, EndsClosed DEF Withholds
<1>2. CASE Proceeds(c)
  BY <1>2, EndsClosed DEF Proceeds
<1>3. CASE \E value : Ends(c, "rewritten", value)
  BY <1>3, EndsClosed
<1> QED
  BY <1>1, <1>2, <1>3

(* Where a call may go on to: what would open credentials does not run.      *)
Onward(c) == {to \in Steps : SensitiveRead(c) /\ setting.failClosed => to # "run" \/ c \in misled'}

(* A handler that goes on has nothing to show, and goes on to run a tool     *)
(* only when it may.                                                        *)
LEMMA GoesOnClosed ==
    ASSUME ClosedInv, NEW c \in Calls, UNCHANGED <<setting, outcome, shown>>,
           misled \subseteq misled', NEW to \in Onward(c), step' = [step EXCEPT ![c] = to],
           step[c] # "done",
           ran' = ran \/ (step[c] = "run" /\ ran' = ran \cup {c})
    PROVE  ClosedInv'
<1>1. ClosedTyped'
  BY DEF ClosedInv, ClosedTyped, Onward
<1>2. ASSUME NEW d \in Calls, Guarded(d)'
      PROVE  Closed(d)'
  <2>1. Guarded(d) /\ Closed(d)
    BY <1>2 DEF ClosedInv, Guarded, Call
  <2>2. SensitiveRead(d)' = SensitiveRead(d)
    BY DEF Call, SensitiveRead, Resolution
  <2>3. ScannedOf(d, shown[d])' = ScannedOf(d, shown[d])
    BY DEF ScannedOf, Call
  <2>4. CASE d # c
    <3>1. step'[d] = step[d] /\ (d \in ran' => d \in ran)
      BY <2>4 DEF ClosedInv, ClosedTyped
    <3> QED
      BY <2>1, <2>2, <2>3, <3>1 DEF Closed
  <2>5. CASE d = c
    <3>1. outcome[d] = "none"
      BY <2>1, <2>5 DEF Closed
    <3>2. step'[d] = to /\ (SensitiveRead(d) => to # "run")
      BY <1>2, <2>1, <2>5 DEF ClosedInv, ClosedTyped, Guarded, Onward
    <3>3. SensitiveRead(d) => d \notin ran'
      BY <2>1, <2>5 DEF Closed
    <3> QED
      BY <2>2, <3>1, <3>2, <3>3 DEF Closed
  <2> QED
    BY <2>4, <2>5
<1> QED
  BY <1>1, <1>2 DEF ClosedInv

(* The engine that cannot be trusted, with the tool run or not.              *)
LEMMA UnavailableIsClosed ==
    ASSUME ClosedInv, NEW c \in Calls, UNCHANGED setting, misled \subseteq misled', Unavailable(c),
           ran' = ran \/ ~ setting.failClosed
    PROVE  ClosedInv'
<1>1. CASE setting.failClosed
  <2>1. Ends(c, "withheld", NoValue) /\ ran' = ran
    BY <1>1 DEF Unavailable, Withholds
  <2> QED
    BY <2>1, NothingIsClean, CleanScansClean, EndsClosed
<1>2. CASE ~ setting.failClosed
  <2>1. /\ step' = [step EXCEPT ![c] = "done"] /\ outcome' = [outcome EXCEPT ![c] = "passed"]
        /\ shown' = [shown EXCEPT ![c] = Call(c).result]
    BY <1>2 DEF Unavailable, Proceeds, Ends
  <2> QED
    BY <1>2, <2>1 DEF ClosedInv, ClosedTyped, Steps, Guarded
<1> QED
  BY <1>1, <1>2

(* The session lookup.                                                      *)
LEMMA LookupIsClosed ==
    ASSUME ClosedInv, SessionInv, NEW c \in Calls, Begin(c) \/ Facts(c) \/ Rejected(c) \/ FactsExpire(c)
    PROVE  ClosedInv'
<1>1. UNCHANGED <<setting, misled>>
  BY DEF Begin, Facts, Rejected, FactsExpire, SessionKept, EngineKept
<1>2. CASE Begin(c)
  <2>1. /\ UNCHANGED <<outcome, shown, ran>> /\ step[c] = "start"
        /\ \E to \in {"post", "facts"} : step' = [step EXCEPT ![c] = to]
    BY <1>2 DEF Begin
  <2>2. \E to \in Onward(c) : step' = [step EXCEPT ![c] = to]
    BY <2>1 DEF Steps, Onward
  <2>3. step[c] # "done"
    BY <2>1
  <2> QED
    BY <1>1, <2>1, <2>2, <2>3, GoesOnClosed
<1>3. CASE Facts(c) /\ step[c] = "facts"
  <2>1. /\ UNCHANGED <<outcome, shown, ran>>
        /\ \E to \in {"post", "pre", "run"} : /\ step' = [step EXCEPT ![c] = to]
                                              /\ SensitiveRead(c) => to # "run"
    BY <1>3 DEF Facts, SensitiveRead
  <2>2. \E to \in Onward(c) : step' = [step EXCEPT ![c] = to]
    BY <2>1 DEF Steps, Onward
  <2>3. step[c] # "done"
    BY <1>3
  <2> QED
    BY <1>1, <2>1, <2>2, <2>3, GoesOnClosed
<1>4. CASE (Facts(c) \/ Rejected(c)) /\ step[c] # "facts"
  <2>1. UNCHANGED <<setting, step, outcome, shown, ran, misled>>
    BY <1>1, <1>4 DEF Facts, Rejected
  <2> QED
    BY <2>1 DEF ClosedInv, ClosedTyped, Guarded, Closed, SensitiveRead, Call, Resolution, ScannedOf
<1>5. CASE Rejected(c) /\ step[c] = "facts"
  BY <1>1, <1>5, UnavailableIsClosed DEF Rejected
<1>6. CASE FactsExpire(c)
  BY <1>1, <1>6, UnavailableIsClosed DEF FactsExpire
<1> QED
  BY <1>2, <1>3, <1>4, <1>5, <1>6

(* Before a Read, and when the tool runs.                                   *)
LEMMA ReadIsClosed ==
    ASSUME ClosedInv, NEW c \in Calls, DenyBeforeRead(c) \/ PreExpires(c) \/ Run(c)
    PROVE  ClosedInv'
<1>1. UNCHANGED setting /\ misled \subseteq misled'
  BY DEF DenyBeforeRead, PreExpires, Run, EngineKept, Misled
<1>2. ASSUME Withholds(c), ran' = ran
      PROVE  ClosedInv'
  BY <1>1, <1>2, NothingIsClean, CleanScansClean, EndsClosed DEF Withholds
<1>3. ASSUME GoesOn(c), ran' = ran, step[c] = "pre",
             setting.failClosed => ~ SensitiveRead(c) \/ c \in misled'
      PROVE  ClosedInv'
  <2>1. "run" \in Onward(c) /\ step[c] # "done"
    BY <1>3 DEF Steps, Onward
  <2>2. step' = [step EXCEPT ![c] = "run"] /\ UNCHANGED <<outcome, shown>>
    BY <1>3 DEF GoesOn
  <2> QED
    BY <1>1, <1>3, <2>1, <2>2, GoesOnClosed
<1>4. CASE DenyBeforeRead(c)
  <2>1. ran' = ran /\ step[c] = "pre"
    BY <1>4 DEF DenyBeforeRead
  <2>2. PICK reply \in Replies(c) : /\ IF Denies(c, reply) THEN Withholds(c) ELSE GoesOn(c)
                                    /\ Misled(c, reply)
    BY <1>4 DEF DenyBeforeRead
  <2>3. Misleads(c, reply) => c \in misled'
    BY <2>2 DEF Misled, Misleads
  <2> QED
    BY <1>2, <1>3, <2>1, <2>2, <2>3, RepliesDeny DEF ClosedInv
<1>5. CASE PreExpires(c)
  BY <1>2, <1>3, <1>5 DEF PreExpires
<1>6. CASE Run(c) /\ Asked(c)
  <2>1. /\ UNCHANGED <<outcome, shown>> /\ ran' = ran \cup {c} /\ step[c] = "run"
        /\ step' = [step EXCEPT ![c] = "post"]
    BY <1>6 DEF Run
  <2>2. "post" \in Onward(c)
    BY DEF Steps, Onward
  <2> QED
    BY <1>1, <2>1, <2>2, GoesOnClosed
<1>7. CASE Run(c) /\ ~ Asked(c)
  <2>1. step[c] = "run" /\ ran' = ran \cup {c} /\ Ends(c, "passed", Call(c).result)
    BY <1>7 DEF Run, Proceeds
  <2>2. Exposed(ScannedOf(c, Call(c).result)) = {}
    BY <1>7, UnaskedIsClean, NothingIsClean DEF Asked, ScannedOf, ClosedInv, ClosedTyped
  <2> QED
    BY <1>1, <2>1, <2>2, EndsClosed
<1> QED
  BY <1>4, <1>5, <1>6, <1>7

(* After a tool, and for a prompt.                                          *)
LEMMA JudgesClosed ==
    ASSUME ClosedInv, NEW c \in Calls, UNCHANGED <<setting, ran>>, misled \subseteq misled',
           Call(c).kind # "command", NEW reply, Clean(c, reply), Judge(c, reply)
    PROVE  ClosedInv'
<1> DEFINE v == reply.verdict
<1>1. ASSUME Unavailable(c)
      PROVE  ClosedInv'
  BY <1>1, UnavailableIsClosed
<1>2. ASSUME Withholds(c)
      PROVE  ClosedInv'
  BY <1>2, NothingIsClean, CleanScansClean, EndsClosed DEF Withholds
<1>3. ASSUME NEW value, Exposed(value) = {}, Ends(c, "rewritten", value)
      PROVE  ClosedInv'
  BY <1>3, CleanScansClean, EndsClosed
<1>4. ASSUME Proceeds(c), Exposed(ScannedOf(c, Call(c).result)) = {}
      PROVE  ClosedInv'
  BY <1>4, EndsClosed DEF Proceeds
<1>5. CASE ~ Ok(reply) \/ Misrouted(v, "PostToolUse", IF Call(c).kind = "prompt" THEN NotPrompt ELSE NotPost)
  BY <1>1, <1>5 DEF Judge
<1>6. CASE ~ (~ Ok(reply) \/ Misrouted(v, "PostToolUse", IF Call(c).kind = "prompt" THEN NotPrompt ELSE NotPost))
  <2>1. /\ Exposed(v.updated) = {}
        /\ v.updated = NoValue /\ v.decision = Absent => Exposed(ScannedOf(c, Call(c).result)) = {}
    BY <1>6 DEF Clean
  <2>2. Call(c).kind # "prompt" => v.decision = Absent
    BY <1>6 DEF Misrouted, NotPost
  <2>3. CASE Call(c).kind = "prompt"
    <3>1. PromptVerdict(c, v)
      BY <1>6, <2>3 DEF Judge
    <3> QED
      BY <1>1, <1>2, <1>3, <1>4, <2>1, <3>1 DEF PromptVerdict
  <2>4. CASE Call(c).kind # "prompt" /\ Call(c).isError
    <3>1. RedactError(c, v)
      BY <1>6, <2>4 DEF Judge
    <3> QED
      BY <1>1, <1>3, <1>4, <2>1, <2>2, <2>4, <3>1, FirstStringIsClean DEF RedactError
  <2>5. CASE Call(c).kind # "prompt" /\ ~ Call(c).isError
    <3>1. RedactResult(c, v)
      BY <1>6, <2>5 DEF Judge
    <3> QED
      BY <1>1, <1>3, <1>4, <2>1, <2>2, <2>5, <3>1 DEF RedactResult
  <2> QED
    BY <2>3, <2>4, <2>5
<1> QED
  BY <1>5, <1>6

(* A judgement ends the call, one way or another.                            *)
LEMMA JudgesEnd ==
    ASSUME NEW c, NEW reply, Judge(c, reply)
    PROVE  Withholds(c) \/ Proceeds(c) \/ \E value : Ends(c, "rewritten", value)
<1>1. Unavailable(c) => Withholds(c) \/ Proceeds(c)
  BY DEF Unavailable
<1> QED
  BY <1>1 DEF Judge, CommandVerdict, PromptVerdict, RedactError, RedactResult

LEMMA AnswersAreClosed ==
    ASSUME ClosedInv, NEW c \in Calls, Answer(c) \/ AnswerExpires(c) \/ Silence(c)
    PROVE  ClosedInv'
<1>1. UNCHANGED <<setting, ran>> /\ misled \subseteq misled'
  BY DEF Answer, AnswerExpires, Silence, EngineKept, Misled
<1>2. CASE Answer(c)
  <2>1. PICK reply \in Replies(c) : Judge(c, reply) /\ Misled(c, reply)
    BY <1>2 DEF Answer
  <2>2. CASE Call(c).kind = "command" \/ Misleads(c, reply)
    <3>1. ~ Guarded(c)'
      BY <1>1, <2>1, <2>2 DEF Guarded, Call, Misled, Misleads
    <3> QED
      BY <1>1, <2>1, <3>1, JudgesEnd, MisledEnds
  <2>3. CASE Call(c).kind # "command" /\ ~ Misleads(c, reply)
    <3>1. step[c] = "post"
      BY <1>2 DEF Answer
    <3>2. Clean(c, reply)
      BY <2>1, <2>3, <3>1, RepliesAreClean DEF ClosedInv
    <3> QED
      BY <1>1, <2>1, <2>3, <3>2, JudgesClosed
  <2> QED
    BY <2>2, <2>3
<1>3. CASE AnswerExpires(c) /\ Call(c).kind = "command"
  <2>1. ~ Guarded(c)' /\ Proceeds(c)
    BY <1>1, <1>3 DEF Guarded, Call, AnswerExpires
  <2> QED
    BY <1>1, <2>1, MisledEnds
<1>4. CASE AnswerExpires(c) /\ Call(c).kind # "command"
  BY <1>1, <1>4, UnavailableIsClosed DEF AnswerExpires
<1>5. CASE Silence(c) /\ step[c] = "pre"
  <2>1. /\ UNCHANGED <<outcome, shown>> /\ misled' = misled \cup {c}
        /\ step' = [step EXCEPT ![c] = "run"]
    BY <1>5 DEF Silence, GoesOn
  <2>2. "run" \in Onward(c) /\ step[c] # "done"
    BY <1>5, <2>1 DEF Steps, Onward
  <2> QED
    BY <1>1, <2>1, <2>2, GoesOnClosed
<1>6. CASE Silence(c) /\ step[c] = "post"
  <2>1. Proceeds(c) /\ ~ Guarded(c)'
    BY <1>6 DEF Silence, Guarded
  <2> QED
    BY <1>1, <2>1, MisledEnds
<1> QED
  BY <1>2, <1>3, <1>4, <1>5, <1>6 DEF Silence

(* Nothing that is scanned is shown before it is clean.                      *)
LEMMA ClosedInductive == Spec => []ClosedInv
<1>1. Init => ClosedInv
  BY DEF Init, PluginInit, ClosedInv, ClosedTyped, Steps, Closed
<1>2. ASSUME ClosedInv, SessionInv, [Next]_vars
      PROVE  ClosedInv'
  <2>1. CASE UNCHANGED <<setting, step, outcome, shown, ran, misled>>
    BY <1>2, <2>1 DEF ClosedInv, ClosedTyped, Guarded, Closed, SensitiveRead, Call, Resolution, ScannedOf
  <2>2. ASSUME NEW n \in 1 .. Len(lookups), Settle(n)
        PROVE  ClosedInv'
    BY <2>1, <2>2 DEF Settle, SessionKept
  <2>3. ASSUME NEW c \in Calls, Begin(c) \/ Facts(c) \/ Rejected(c) \/ FactsExpire(c)
        PROVE  ClosedInv'
    BY <1>2, <2>3, LookupIsClosed
  <2>4. ASSUME NEW c \in Calls, DenyBeforeRead(c) \/ PreExpires(c) \/ Run(c)
        PROVE  ClosedInv'
    BY <1>2, <2>4, ReadIsClosed
  <2>5. ASSUME NEW c \in Calls, Answer(c) \/ AnswerExpires(c) \/ Silence(c)
        PROVE  ClosedInv'
    BY <1>2, <2>5, AnswersAreClosed
  <2> QED
    BY <1>2, <2>1, <2>2, <2>3, <2>4, <2>5 DEF Next, vars, Loading, pluginVars
<1> QED
  BY <1>1, <1>2, SessionInductive, PTL DEF Spec

(* A plugin that fails closed shows the model nothing the engine would have  *)
(* rewritten, and opens no credentials, whatever fails, is late or answers   *)
(* something else (honmoon.ts: unavailable, denyBeforeRead, redactResult,    *)
(* promptVerdict), for any number of calls, values of any shape and any      *)
(* filesystem.                                                              *)
THEOREM FailingClosedIsSafe == Spec => []FailClosedWithholds
<1>1. ClosedInv => FailClosedWithholds
  BY DEF ClosedInv, Closed, Guarded, FailClosedWithholds, ShownScanned, ScannedOf
<1> QED
  BY <1>1, ClosedInductive, PTL
=============================================================================
