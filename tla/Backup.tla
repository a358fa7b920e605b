-------------------------------- MODULE Backup --------------------------------
(***************************************************************************)
(* FileBackupUtil.backupFiles (java/src/main/java/com/example/sample/util) *)
(* as the sequence of file-system operations it is, any of which may be    *)
(* the last one before the process dies, and any copy of which may fail.   *)
(*                                                                         *)
(* One process backs up the same list of files again and again.  A         *)
(* directory is named "backupDir" or by the second of a renaming; its      *)
(* content is, for each file, the version of the source it is a complete   *)
(* copy of.  A version is what a source holds between two writes to it.    *)
(***************************************************************************)
EXTENDS Integers

CONSTANTS
  Files,       \* sourceFiles
  Options,     \* the pairs [reset, remove] of resetbackupDir, removeOldBackup
  MaxVersion,  \* bound: how often a source file is rewritten
  MaxTime,     \* bound: seconds of the clock; calls start before the last one
  Unreliable,  \* TRUE: source files vanish, copies and deletions fail
  Crashes      \* TRUE: the process may die within a call

ASSUME BackupAssumption ==
  /\ Options \subseteq [reset : BOOLEAN, remove : BOOLEAN]
  /\ MaxVersion \in Nat /\ MaxTime \in Nat \ {0}
  /\ Unreliable \in BOOLEAN /\ Crashes \in BOOLEAN

VARIABLES
  src,       \* src[f]: version of the source file, Gone if there is none
  exists,    \* the directories that exist
  dirs,      \* dirs[n][f]: what directory n holds for f
  clock,     \* LocalDateTime.now() in seconds
  pc,
  option,    \* parameters of the call
  renamed,   \* renamedOldBackupRoot, BackupDir standing for null
  todo,      \* the files the loop has not reached
  copying,   \* the <<f, v>> such that the copy of f under way may read version v
  failed,    \* history: the catch block was entered in this call
  began,     \* history: src when the call began
  outcome    \* how the last call ended

vars == <<src, exists, dirs, clock, pc, option, renamed, todo, copying, failed,
          began, outcome>>
call == <<option, renamed, todo, copying, failed, began, outcome>>

BackupDir == 0
Names     == BackupDir .. MaxTime
Versions  == 0 .. MaxVersion
Gone      == -1           \* no such source file
Nothing   == -1           \* no such file in the directory
Partial   == -2           \* a file whose copy did not end
Mixed     == -3           \* a whole file that is of no version: parts of several
Empty     == [f \in Files |-> Nothing]

TypeOK ==
  /\ src \in [Files -> Versions \cup {Gone}]
  /\ exists \subseteq Names
  /\ dirs \in [Names -> [Files -> Versions \cup {Nothing, Partial, Mixed}]]
  /\ clock \in 1 .. MaxTime
  /\ pc \in {"idle", "exists", "name", "move", "create", "copy", "data", "delete"}
  /\ option \in [reset : BOOLEAN, remove : BOOLEAN]
  /\ renamed \in Names
  /\ todo \subseteq Files
  /\ copying \subseteq Files \X Versions
  /\ failed \in BOOLEAN
  /\ began \in [Files -> Versions \cup {Gone}]
  /\ outcome \in {"none", "returned", "thrown", "died"}

Init ==
  /\ src = [f \in Files |-> 0]
  /\ exists = {} /\ dirs = [n \in Names |-> Empty]
  /\ clock = 1
  /\ pc = "idle"
  /\ option = [reset |-> FALSE, remove |-> FALSE]
  /\ renamed = BackupDir /\ todo = {} /\ copying = {}
  /\ failed = FALSE /\ began = src /\ outcome = "none"

HasCopy(f) == \E n \in Names : dirs[n][f] \in Versions

-----------------------------------------------------------------------------
(* The machine.                                                            *)

\* A write to a source file in place, which a copy under way may see or not see.
Rewrite(f) ==
  /\ src[f] \in Versions /\ src[f] < MaxVersion
  /\ src' = [src EXCEPT ![f] = @ + 1]
  /\ copying' = copying \cup {c \in {<<f, src[f] + 1>>} : \E v \in Versions : <<f, v>> \in copying}
  /\ UNCHANGED <<exists, dirs, clock, pc, option, renamed, todo, failed, began, outcome>>

Vanish(f) ==
  /\ Unreliable
  /\ src[f] # Gone
  /\ src' = [src EXCEPT ![f] = Gone]
  /\ UNCHANGED <<exists, dirs, clock, pc, call>>

Tick ==
  /\ clock < MaxTime
  /\ clock' = clock + 1
  /\ UNCHANGED <<src, exists, dirs, pc, call>>

-----------------------------------------------------------------------------
(* backupFiles.                                                            *)

Leave(how) ==
  /\ pc' = "idle"
  /\ outcome' = how
  /\ todo' = {} /\ copying' = {} /\ renamed' = BackupDir
  /\ UNCHANGED <<option, failed, began>>

Call(o) ==
  /\ pc = "idle"
  /\ clock < MaxTime
  /\ option' = o
  /\ todo' = Files
  /\ failed' = FALSE /\ began' = src /\ outcome' = "none"
  /\ pc' = "exists"
  /\ UNCHANGED <<src, exists, dirs, clock, renamed, copying>>

CheckExistingNoReset ==
  /\ pc = "exists"
  /\ pc' = "create"
  /\ UNCHANGED <<src, exists, dirs, clock, call>>

CheckExisting ==
  /\ pc = "exists"
  /\ pc' = IF BackupDir \in exists /\ option.reset THEN "name" ELSE "create"
  /\ UNCHANGED <<src, exists, dirs, clock, call>>

ChooseFirstName ==
  /\ pc = "name"
  /\ 1 \notin exists
  /\ renamed' = 1
  /\ pc' = "move"
  /\ UNCHANGED <<src, exists, dirs, clock, option, todo, copying, failed, began, outcome>>

\* getUniqueBackupNameWithTimeSeconds: turns in its loop while the sibling named
\* by the current second exists.
ChooseName ==
  /\ pc = "name"
  /\ clock \notin exists
  /\ renamed' = clock
  /\ pc' = "move"
  /\ UNCHANGED <<src, exists, dirs, clock, option, todo, copying, failed, began, outcome>>

\* Files.move with ATOMIC_MOVE.
Move ==
  /\ pc = "move"
  /\ exists' = (exists \ {BackupDir}) \cup {renamed}
  /\ dirs' = [dirs EXCEPT ![renamed] = dirs[BackupDir], ![BackupDir] = Empty]
  /\ pc' = "create"
  /\ UNCHANGED <<src, clock, call>>

CreateDirectory ==
  /\ pc = "create"
  /\ exists' = exists \cup {BackupDir}
  /\ pc' = "copy"
  /\ UNCHANGED <<src, dirs, clock, call>>

\* Files.copy with REPLACE_EXISTING: the source must exist, then the target is
\* unlinked, created and filled.
CopyBegin(f) ==
  /\ pc = "copy" /\ f \in todo
  /\ src[f] # Gone
  /\ dirs' = [dirs EXCEPT ![BackupDir][f] = Partial]
  /\ copying' = {<<f, src[f]>>}
  /\ pc' = "data"
  /\ UNCHANGED <<src, exists, clock, option, renamed, todo, failed, began, outcome>>

\* What the target holds when the copy ends: the version of the source, if it was
\* not rewritten meanwhile; one of those it had, or parts of several, if it was.
Copied ==
  LET read == {c[2] : c \in copying}
  IN  IF \E v \in Versions : read = {v} THEN read ELSE read \cup {Mixed}

CopyEnd ==
  /\ pc = "data"
  /\ \E c \in copying, content \in Copied :
       /\ dirs' = [dirs EXCEPT ![BackupDir][c[1]] = content]
       /\ todo' = todo \ {c[1]}
  /\ copying' = {}
  /\ pc' = "copy"
  /\ UNCHANGED <<src, exists, clock, option, renamed, failed, began, outcome>>

\* The exceptions that "catch (Exception e) { continue; }" swallows: there is no
\* source, and nothing was done; or the copy fails and leaves no target.
CopyFails ==
  \/ \E f \in todo :
       /\ pc = "copy" /\ src[f] = Gone
       /\ todo' = todo \ {f}
       /\ failed' = TRUE
       /\ UNCHANGED <<src, exists, dirs, clock, pc, option, renamed, copying, began, outcome>>
  \/ \E c \in copying :
       /\ Unreliable
       /\ dirs' = [dirs EXCEPT ![BackupDir][c[1]] = Nothing]
       /\ todo' = todo \ {c[1]}
       /\ failed' = TRUE
       /\ copying' = {}
       /\ pc' = "copy"
       /\ UNCHANGED <<src, exists, clock, option, renamed, began, outcome>>

EndLoopEarly ==
  /\ pc = "copy"
  /\ IF option.reset /\ option.remove /\ renamed # BackupDir /\ renamed \in exists
     THEN pc' = "delete" /\ UNCHANGED call
     ELSE Leave("returned")
  /\ UNCHANGED <<src, exists, dirs, clock>>

\* The end of the loop and the four conditions of removing the old backup.
EndLoop ==
  /\ pc = "copy" /\ todo = {}
  /\ IF option.reset /\ option.remove /\ renamed # BackupDir /\ renamed \in exists
     THEN pc' = "delete" /\ UNCHANGED call
     ELSE Leave("returned")
  /\ UNCHANGED <<src, exists, dirs, clock>>

\* deleteDirectoryRecursively: file after file, then the directory itself; an
\* IOException leaves the call with what was not deleted.
DeleteFile(f) ==
  /\ pc = "delete"
  /\ dirs[renamed][f] # Nothing
  /\ dirs' = [dirs EXCEPT ![renamed][f] = Nothing]
  /\ UNCHANGED <<src, exists, clock, pc, call>>

DeleteDirectory ==
  /\ pc = "delete"
  /\ dirs[renamed] = Empty
  /\ exists' = exists \ {renamed}
  /\ Leave("returned")
  /\ UNCHANGED <<src, dirs, clock>>

DeleteFails ==
  /\ Unreliable
  /\ pc = "delete"
  /\ Leave("thrown")
  /\ UNCHANGED <<src, exists, dirs, clock>>

Crash ==
  /\ Crashes
  /\ pc # "idle"
  /\ Leave("died")
  /\ UNCHANGED <<src, exists, dirs, clock>>

Step ==
  \/ CheckExisting \/ ChooseName \/ Move \/ CreateDirectory
  \/ \E f \in Files : CopyBegin(f) \/ DeleteFile(f)
  \/ CopyEnd \/ CopyFails \/ EndLoop \/ DeleteDirectory \/ DeleteFails

Next ==
  \/ Step \/ Crash \/ Tick
  \/ \E o \in Options : Call(o)
  \/ \E f \in Files : Rewrite(f) \/ Vanish(f)

\* The process is scheduled and the clock goes on.
Spec == Init /\ [][Next]_vars /\ WF_vars(Step) /\ WF_vars(Tick)

-----------------------------------------------------------------------------
(* Properties.                                                             *)

\* No step, a crash or a failed copy included, takes away the last complete copy
\* of a file, unless the call was made without resetbackupDir, and overwrites the
\* backup in place, or with removeOldBackup, after it has swallowed an exception or
\* has mixed the versions of this file.
\* This is what resetbackupDir is for: the backup is "preserved and renamed" (line 88).
CopyNeverLost ==
  [][\A f \in Files : HasCopy(f) /\ ~HasCopy(f)'
       => \/ ~option.reset
          \/ option.remove /\ (failed \/ dirs[BackupDir][f] = Mixed)]_vars

\* A call that has not swallowed an exception leaves in backupDir, before it deletes
\* the old backup, a complete copy of every file, no older than the call; of a file
\* that was written to since the call began it may be a mixture.
FreshBackup ==
  (outcome = "returned" \/ pc = "delete") /\ ~failed
    => \A f \in Files :
         \/ dirs[BackupDir][f] \in Versions /\ dirs[BackupDir][f] >= began[f]
         \/ dirs[BackupDir][f] = Mixed /\ src[f] # began[f]

\* Every call ends: the search for an unused name waits at most for the next
\* second.
Terminates == pc = "exists" ~> pc = "idle"

=============================================================================
