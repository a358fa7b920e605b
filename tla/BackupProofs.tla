----------------------------- MODULE BackupProofs -----------------------------
(***************************************************************************)
(* For any files, options, clock and number of calls, with failures and    *)
(* with crashes between any two steps: when backupFiles may take the last  *)
(* copy of a file away, and what it has saved when it returns.             *)
(***************************************************************************)
EXTENDS Backup, TLAPS

\* backupDir has a complete copy of f, no older than the call.
Fresh(f) == dirs[BackupDir][f] \in Versions /\ dirs[BackupDir][f] >= began[f]

\* or a mixture, if f was written to since the call began.
Saved(f) == Fresh(f) \/ (dirs[BackupDir][f] = Mixed /\ began[f] # Gone /\ src[f] # began[f])

\* What is being copied is f, in a version no older than the call, and in more than
\* one only if f was written to since the call began.
Copying(f) ==
  /\ began[f] # Gone /\ copying # {}
  /\ \A c \in copying :
       /\ c[1] = f /\ c[2] \in Versions /\ c[2] >= began[f]
       /\ src[f] # Gone => src[f] >= c[2]

\* The call under way: the name it chose is not that of a directory; what it
\* copies it has still to copy, and is no older than the call.
CallInv ==
  /\ pc = "name" => BackupDir \in exists
  /\ pc = "move" => renamed \in 1 .. MaxTime /\ renamed \notin exists
  /\ pc \in {"exists", "name", "move", "create"} => todo = Files
  /\ pc # "data" => copying = {}
  /\ pc = "data" => \E f \in todo : Copying(f)
  /\ \A f \in Files : src[f] # Gone => began[f] # Gone /\ src[f] >= began[f]
  /\ outcome = "returned" => pc = "idle"

\* The directories: one that does not exist holds nothing; a backupDir that is new
\* has no copy of what is still to be copied; one of everything else, unless an
\* exception was swallowed.
DirsInv ==
  /\ \A n \in Names \ exists : dirs[n] = Empty
  /\ pc = "create" /\ option.reset => BackupDir \notin exists
  /\ pc \in {"copy", "data"} => BackupDir \in exists
  /\ pc \in {"copy", "data"} /\ option.reset
       => \A f \in todo : dirs[BackupDir][f] \notin Versions
  /\ pc \in {"copy", "data"} /\ ~failed => \A f \in Files \ todo : Saved(f)
  /\ pc = "delete" => renamed # BackupDir /\ option.remove
  /\ (outcome = "returned" \/ pc = "delete") /\ ~failed => \A f \in Files : Saved(f)

Inv == TypeOK /\ CallInv /\ DirsInv

NoLoss == \A f \in Files : HasCopy(f) /\ ~HasCopy(f)'
            => \/ ~option.reset
               \/ option.remove /\ (failed \/ dirs[BackupDir][f] = Mixed)

\* The names and contents that the steps below tell apart.
LEMMA Contents ==
  /\ BackupDir \in Names
  /\ \A t \in 1 .. MaxTime : t \in Names /\ t # BackupDir
  /\ Nothing \notin Versions /\ Partial \notin Versions /\ Mixed \notin Versions /\ Gone \notin Versions
  /\ 0 \in Versions /\ Versions \cup {Gone} \subseteq Int
  /\ Empty \in [Files -> Versions \cup {Nothing, Partial, Mixed}]
  /\ \A f \in Files : Empty[f] = Nothing
  BY BackupAssumption DEF BackupDir, Names, Versions, Nothing, Partial, Mixed, Gone, Empty

\* What writing content c for file f into directory n changes.
LEMMA Update ==
  ASSUME TypeOK, NEW n \in Names, NEW f \in Files,
         NEW c \in Versions \cup {Nothing, Partial, Mixed},
         dirs' = [dirs EXCEPT ![n][f] = c]
  PROVE  /\ dirs' \in [Names -> [Files -> Versions \cup {Nothing, Partial, Mixed}]]
         /\ dirs'[n][f] = c
         /\ \A g \in Files \ {f} : dirs'[n][g] = dirs[n][g]
         /\ \A m \in Names \ {n} : dirs'[m] = dirs[m]
         /\ \A m \in Names : \A g \in Files :
              dirs[m][g] \in Versions /\ dirs'[m][g] \notin Versions => m = n /\ g = f
  BY DEF TypeOK

LEMMA InitInv == Init => Inv
<1> SUFFICES ASSUME Init PROVE Inv
  OBVIOUS
<1>1. TypeOK
  <2>1. 1 \in 1 .. MaxTime
    BY BackupAssumption
  <2>2. src \in [Files -> Versions \cup {Gone}] /\ began = src
    BY Contents DEF Init
  <2>3. dirs \in [Names -> [Files -> Versions \cup {Nothing, Partial, Mixed}]]
    BY Contents DEF Init
  <2>4. QED
    BY <2>1, <2>2, <2>3, Contents DEF Init, TypeOK
<1>2. CallInv /\ DirsInv
  BY Contents DEF Init, CallInv, DirsInv
<1>3. QED
  BY <1>1, <1>2 DEF Inv

\* Every step keeps the invariant and takes no last copy away.
LEMMA NextInv == Inv /\ [Next]_vars => Inv' /\ NoLoss
<1> SUFFICES ASSUME Inv, [Next]_vars PROVE Inv' /\ NoLoss
  OBVIOUS
<1> USE Contents DEF Inv, TypeOK, CallInv, DirsInv, NoLoss, HasCopy, call, Fresh, Saved
<1>1. ASSUME NEW o \in Options, Call(o) PROVE Inv' /\ NoLoss
  <2>1. \A f \in Files : src[f] >= src[f]
    OBVIOUS
  <2>2. TypeOK'
    BY <1>1, BackupAssumption DEF Call
  <2>3. CallInv' /\ DirsInv'
    BY <1>1, <2>1 DEF Call
  <2>4. NoLoss
    BY <1>1 DEF Call
  <2>5. QED
    BY <2>2, <2>3, <2>4
<1>2. CASE CheckExisting
  BY <1>2 DEF CheckExisting
<1>3. CASE ChooseName
  BY <1>3 DEF ChooseName
<1>4. CASE Move
  <2>1. exists' \subseteq Names /\ dirs' \in [Names -> [Files -> Versions \cup {Nothing, Partial, Mixed}]]
    BY <1>4 DEF Move
  <2>2. /\ dirs'[BackupDir] = Empty /\ dirs'[renamed] = dirs[BackupDir]
        /\ \A n \in Names \ {BackupDir, renamed} : dirs'[n] = dirs[n]
        /\ dirs[renamed] = Empty /\ renamed # BackupDir
    BY <1>4 DEF Move
  <2>3. NoLoss
    <3> SUFFICES ASSUME NEW f \in Files, NEW n \in Names, dirs[n][f] \in Versions
                 PROVE  \E m \in Names : dirs'[m][f] \in Versions
      BY DEF NoLoss, HasCopy
    <3>1. n # renamed
      BY <2>2
    <3>2. CASE n = BackupDir
      BY <3>2, <2>2, <1>4 DEF Move
    <3>3. CASE n # BackupDir
      BY <3>1, <3>3, <2>2
    <3>4. QED
      BY <3>2, <3>3
  <2>4. TypeOK' /\ CallInv'
    BY <1>4, <2>1 DEF Move
  <2>5. DirsInv'
    BY <1>4, <2>1, <2>2 DEF Move
  <2>6. QED
    BY <2>3, <2>4, <2>5
<1>5. CASE CreateDirectory
  BY <1>5 DEF CreateDirectory
<1>6. ASSUME NEW f \in Files, CopyBegin(f) PROVE Inv' /\ NoLoss
  <2>1. /\ src[f] \in Versions /\ f \in todo /\ src[f] >= began[f]
        /\ (option.reset => dirs[BackupDir][f] \notin Versions)
    BY <1>6 DEF CopyBegin
  <2>2. dirs' = [dirs EXCEPT ![BackupDir][f] = Partial]
    BY <1>6 DEF CopyBegin
  <2>3. TypeOK' /\ CallInv'
    <3>1. copying' = {<<f, src[f]>>} /\ copying' \subseteq Files \X Versions
      BY <1>6, <2>1 DEF CopyBegin
    <3>2. CallInv'
      <4>1. Copying(f)'
        BY <1>6, <2>1, <3>1 DEF CopyBegin, Copying
      <4> QED BY <1>6, <2>1, <3>1, <4>1 DEF CopyBegin
    <3>3. TypeOK'
      BY <1>6, <2>2, <3>1, Update DEF CopyBegin
    <3>4. QED
      BY <3>2, <3>3
  <2>4. DirsInv'
    BY <1>6, <2>1, <2>2, Update DEF CopyBegin
  <2>5. NoLoss
    BY <2>1, <2>2, Update
  <2>6. QED
    BY <2>3, <2>4, <2>5
<1>7. CASE CopyEnd
  <2>1. PICK f \in todo : Copying(f)
    BY <1>7 DEF CopyEnd
  <2>2. PICK v \in Copied : dirs' = [dirs EXCEPT ![BackupDir][f] = v] /\ todo' = todo \ {f} /\ f \in Files
    BY <1>7, <2>1 DEF CopyEnd, Copying
  <2>7. \/ v \in Versions /\ v >= began[f]
        \/ v = Mixed /\ began[f] # Gone /\ src[f] # began[f]
    <3>1. v \in {c[2] : c \in copying} => v \in Versions /\ v >= began[f]
      BY <2>1 DEF Copying
    <3>2. CASE v \notin {c[2] : c \in copying}
      <4>1. v = Mixed /\ \A w \in Versions : {c[2] : c \in copying} # {w}
        BY <2>2, <3>2 DEF Copied
      <4>2. PICK c \in copying, d \in copying : c[2] # d[2]
        BY <2>1, <4>1 DEF Copying
      <4> QED BY <2>1, <4>1, <4>2 DEF Copying, Versions, Gone
    <3> QED BY <3>1, <3>2
  <2>3. TypeOK' /\ CallInv'
    BY <1>7, <2>2, <2>7, Update DEF CopyEnd
  <2>4. DirsInv'
    BY <1>7, <2>2, <2>7, Update DEF CopyEnd
  <2>5. NoLoss
    BY <1>7, <2>2, Update DEF CopyEnd
  <2>6. QED
    BY <2>3, <2>4, <2>5
<1>8. CASE CopyFails
  <2>1. CASE pc = "copy"
    <3>1. PICK f \in todo : src[f] = Gone /\ todo' = todo \ {f}
      BY <1>8, <2>1 DEF CopyFails
    <3>2. QED
      BY <1>8, <2>1, <3>1 DEF CopyFails
  <2>2. CASE pc # "copy"
    <3>1. PICK f \in todo : Copying(f)
      BY <1>8, <2>2 DEF CopyFails
    <3>2. /\ dirs' = [dirs EXCEPT ![BackupDir][f] = Nothing] /\ todo' = todo \ {f}
          /\ f \in Files /\ pc = "data"
          /\ pc' = "copy" /\ copying' = {} /\ failed' = TRUE
          /\ UNCHANGED <<src, exists, clock, option, renamed, began, outcome>>
      <4>1. \A c \in copying : c[1] = f
        BY <3>1 DEF Copying
      <4>2. QED
        BY <1>8, <2>2, <4>1 DEF CopyFails
    <3>3. TypeOK' /\ CallInv'
      BY <3>2, Update
    <3>4. DirsInv'
      BY <3>2, Update
    <3>5. NoLoss
      BY <3>2, Update
    <3>6. QED
      BY <3>3, <3>4, <3>5
  <2>3. QED
    BY <2>1, <2>2
<1>9. CASE EndLoop
  BY <1>9 DEF EndLoop, Leave
<1>10. ASSUME NEW f \in Files, DeleteFile(f) PROVE Inv' /\ NoLoss
  <2>1. dirs' = [dirs EXCEPT ![renamed][f] = Nothing] /\ renamed # BackupDir /\ pc = "delete"
    BY <1>10 DEF DeleteFile
  <2>2. TypeOK' /\ CallInv'
    BY <1>10, <2>1, Update DEF DeleteFile
  <2>3. DirsInv'
    BY <1>10, <2>1, Update DEF DeleteFile
  <2>4. NoLoss
    BY <2>1, Update
  <2>5. QED
    BY <2>2, <2>3, <2>4
<1>11. CASE DeleteDirectory
  BY <1>11 DEF DeleteDirectory, Leave
<1>12. CASE DeleteFails \/ Crash
  BY <1>12 DEF DeleteFails, Crash, Leave
<1>13. CASE Tick
  BY <1>13, BackupAssumption DEF Tick, Copying
<1>14. ASSUME NEW f \in Files, Rewrite(f) \/ Vanish(f) PROVE Inv' /\ NoLoss
  <2>1. CASE Rewrite(f)
    <3>1. src[f] + 1 \in Versions
      BY <2>1, BackupAssumption DEF Rewrite, Versions
    <3>2. /\ src[f] \in Versions /\ src' = [src EXCEPT ![f] = src[f] + 1]
          /\ copying' \subseteq copying \cup {<<f, src[f] + 1>>}
          /\ (copying # {} => copying' # {})
          /\ (\A v \in Versions : <<f, v>> \notin copying) => copying' = copying
          /\ UNCHANGED <<exists, dirs, clock, pc, option, renamed, todo, failed, began, outcome>>
      BY <2>1 DEF Rewrite
    <3>3. /\ src[f] < src'[f] /\ src'[f] # Gone /\ \A g \in Files \ {f} : src'[g] = src[g]
          /\ began[f] # Gone /\ began[f] < src'[f] /\ src'[f] >= began[f]
      BY <3>1, <3>2 DEF Versions, Gone
    <3>4. TypeOK'
      BY <3>1, <3>2
    <3>5. ASSUME NEW g \in Files, Copying(g) PROVE Copying(g)'
      <4>1. \A c \in copying' :
              /\ c[1] = g /\ c[2] \in Versions /\ c[2] >= began[g]
              /\ src'[g] # Gone => src'[g] >= c[2]
        <5> SUFFICES ASSUME NEW c \in copying'
                     PROVE  /\ c[1] = g /\ c[2] \in Versions /\ c[2] >= began[g]
                            /\ src'[g] # Gone => src'[g] >= c[2]
          OBVIOUS
        <5>1. CASE c \in copying
          BY <5>1, <3>2, <3>3, <3>5 DEF Copying, Versions
        <5>2. CASE c \notin copying
          <6>1. PICK v \in Versions : <<f, v>> \in copying
            BY <3>2, <5>2
          <6>2. f = g /\ c = <<f, src[f] + 1>>
            BY <3>2, <3>5, <5>2, <6>1 DEF Copying
          <6> QED BY <3>1, <3>2, <3>3, <6>2 DEF Versions
        <5> QED BY <5>1, <5>2
      <4> QED BY <3>2, <3>5, <4>1 DEF Copying
    <3>6. CallInv'
      <4>1. pc # "data" => copying' = {}
        <5>1. pc # "data" => copying = {}
          OBVIOUS
        <5> QED BY <3>2, <5>1
      <4>2. \A g \in Files : src'[g] # Gone => began[g] # Gone /\ src'[g] >= began[g]
        BY <3>3
      <4>3. ASSUME pc = "data" PROVE \E g \in todo : Copying(g)'
        <5>1. PICK g \in todo : Copying(g)
          BY <4>3
        <5> QED BY <3>5, <5>1
      <4> QED BY <3>2, <4>1, <4>2, <4>3
    <3>7. \A g \in Files : Saved(g) => Saved(g)'
      BY <3>2, <3>3
    <3>8. DirsInv'
      BY <3>2, <3>7
    <3>9. QED
      BY <3>2, <3>4, <3>6, <3>8
  <2>2. CASE Vanish(f)
    BY <2>2 DEF Vanish, Copying
  <2>3. QED
    BY <1>14, <2>1, <2>2
<1>15. CASE UNCHANGED vars
  BY <1>15 DEF vars, Copying
<1>16. QED
  BY <1>1, <1>2, <1>3, <1>4, <1>5, <1>6, <1>7, <1>8, <1>9, <1>10, <1>11, <1>12, <1>13,
     <1>14, <1>15 DEF Next, Step

\* Wherever backupFiles fails or dies, it takes the last complete copy of a file
\* away only when it overwrites in place, or removes the old backup after it has
\* swallowed an exception or has copied this file while it was written to
\* (FileBackupUtil.java:95-151).
THEOREM CopiesKept == Spec => CopyNeverLost
<1>1. Inv /\ [Next]_vars => Inv' /\ [NoLoss]_vars
  BY NextInv
<1>2. QED
  BY <1>1, InitInv, PTL DEF Spec, CopyNeverLost, NoLoss

\* A backup that returns, or goes on to delete the old one, without a swallowed
\* exception has saved every file as it was at the call or later, but for a mixture
\* of versions of one that was written to since (FileBackupUtil.java:124-151).
THEOREM BackupIsFresh == Spec => []FreshBackup
<1>1. Inv => FreshBackup
  <2> SUFFICES ASSUME Inv, outcome = "returned" \/ pc = "delete", ~failed, NEW f \in Files
               PROVE  \/ dirs[BackupDir][f] \in Versions /\ dirs[BackupDir][f] >= began[f]
                      \/ dirs[BackupDir][f] = Mixed /\ src[f] # began[f]
    BY Zenon DEF FreshBackup
  <2>1. DirsInv
    BY DEF Inv
  <2>2. Saved(f)
    BY <2>1 DEF DirsInv
  <2> QED BY <2>2 DEF Saved, Fresh
<1>2. Inv /\ [Next]_vars => Inv'
  BY NextInv
<1>3. QED
  BY <1>1, <1>2, InitInv, PTL DEF Spec

=============================================================================
