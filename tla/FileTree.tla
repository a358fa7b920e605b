------------------------------- MODULE FileTree -------------------------------
(***************************************************************************)
(* The functions of cxx/src/util/path.cc and FileUtil.java that change a   *)
(* directory tree by several system calls, run by processes that share the *)
(* tree: mkdir and rmdir of util::path; createDirectory, moveFile,         *)
(* deleteFiles and deleteDirectory of FileUtil.                            *)
(*                                                                         *)
(* A path is a sequence of names.  There are no symbolic links, and every  *)
(* process may write everywhere: calls fail by what others have done.      *)
(***************************************************************************)
EXTENDS Integers, FiniteSets, SequencesExt

CONSTANTS
  Procs,
  Paths,     \* the paths there are
  Trees,     \* the trees there may be at first
  Calls      \* the calls that the processes may make, one each

None    == [kind |-> "none"]
Dir     == [kind |-> "dir"]
File(p) == [kind |-> "file", made |-> p]     \* the content that was first at p

VARIABLES
  fs,        \* fs[p]: what is at path p
  before,    \* history: fs at first
  call,      \* call[w]: the call w makes
  pc,
  stack,     \* the recursion: the directory of each frame and its entries to come
  result     \* what the call returned or that it threw

vars == <<fs, before, call, pc, stack, result>>

Parent(p) == Front(p)
Under(d, p) == IsPrefix(d, p)
IsFile(p) == fs[p].kind = "file"
IsDir(p)  == fs[p] = Dir

Things == {None, Dir} \cup {File(p) : p \in Paths}

\* In a tree, what there is is in a directory.
IsTree(t) == t \in [Paths -> Things] /\ \A p \in Paths \ {<<>>} : t[p] # None => t[Parent(p)] = Dir

Removers == {"rmdir", "deleteFiles", "deleteDirectory"}

ASSUME TreesAssumption ==
  /\ Paths \subseteq Seq(STRING) /\ IsFiniteSet(Paths)
  /\ \A p \in Paths \ {<<>>} : Parent(p) \in Paths
  /\ \A t \in Trees : IsTree(t)
  /\ \A c \in Calls : \A w \in Procs :
       /\ c[w].path \in Paths
       /\ \/ c[w].op \in Removers \cup {"mkdir", "createDirectory"}
          \* bound: there are no paths below a file to be moved, so that a directory
          \* that takes its place holds nothing
          \/ /\ c[w].op = "moveFile" /\ c[w].tar \in Paths
             /\ \A p \in Paths : IsPrefix(c[w].path, p) => p = c[w].path

ASSUME ProcsAssumption == Procs # {}

Results == {"none", "true", "false", "void", "throw"}
Labels  == {"mkdir", "base", "make", "exists", "mkdirs", "mkdirs2", "isFile", "parent",
            "rename", "readdir", "rmdir", "listFiles", "test", "delete", "notExists",
            "walk", "entries", "done"}

TypeOK ==
  /\ IsTree(fs)
  /\ pc \in [Procs -> Labels] /\ result \in [Procs -> Results]
  /\ \A w \in Procs : \A i \in DOMAIN stack[w] :
       /\ stack[w][i].path \in Paths
       /\ i > 1 => Parent(stack[w][i].path) = stack[w][i - 1].path
                   \/ Parent(stack[w][i - 1].path) = stack[w][i].path

Frame(p) == [path |-> p, todo |-> <<>>]

Entry(op) == CASE op = "mkdir" -> "mkdir"       [] op = "rmdir" -> "readdir"
               [] op = "createDirectory" -> "exists" [] op = "moveFile" -> "isFile"
               [] op = "deleteFiles" -> "listFiles"  [] op = "deleteDirectory" -> "notExists"

Init ==
  /\ fs \in Trees /\ before = fs
  /\ call \in Calls
  /\ pc = [w \in Procs |-> Entry(call[w].op)]
  /\ stack = [w \in Procs |-> <<Frame(call[w].path)>>]
  /\ result = [w \in Procs |-> "none"]

-----------------------------------------------------------------------------
(* System calls, and the control of a recursive function.                  *)

Entries(d) == {p \in Paths : p # <<>> /\ Parent(p) = d /\ fs[p] # None}

\* Directories list their entries in any order.
Listings(d) ==
  {[i \in DOMAIN order |-> [path |-> order[i], dir |-> IsDir(order[i])]] : order \in SetToSeqs(Entries(d))}

CanMake(d)   == fs[d] = None /\ IsDir(Parent(d))
CanRmdir(d)  == IsDir(d) /\ Entries(d) = {}
CanRemove(p) == IsFile(p) \/ CanRmdir(p)          \* remove(3), File.delete

\* rename(2): a file replaces a file, a directory one that holds nothing.
CanRename(src, tar) ==
  /\ fs[src] # None /\ IsDir(Parent(tar))
  /\ IF IsFile(src) THEN ~IsDir(tar) ELSE fs[tar] = None \/ CanRmdir(tar)

Put(p, x)   == fs' = [fs EXCEPT ![p] = x]
Top(w)      == Last(stack[w])
Here(w)     == Top(w).path
Todo(w)     == Top(w).todo
At(w, label) == pc[w] = label
Goto(w, label) == pc' = [pc EXCEPT ![w] = label] /\ UNCHANGED <<stack, result>>
Finish(w, r) ==
  /\ pc' = [pc EXCEPT ![w] = "done"]
  /\ result' = [result EXCEPT ![w] = r]
  /\ stack' = [stack EXCEPT ![w] = <<>>]

Push(w, p, label) ==
  /\ stack' = [stack EXCEPT ![w] = Append(@, Frame(p))]
  /\ pc' = [pc EXCEPT ![w] = label] /\ UNCHANGED result
Pop(w, label) ==
  /\ stack' = [stack EXCEPT ![w] = Front(@)]
  /\ pc' = [pc EXCEPT ![w] = label] /\ UNCHANGED result
Return(w, r, label) == IF Len(stack[w]) = 1 THEN Finish(w, r) ELSE Pop(w, label)

With(w, todo) == Append(Front(stack[w]), [path |-> Here(w), todo |-> todo])
SetTodo(w, todo, label) ==
  /\ stack' = [stack EXCEPT ![w] = With(w, todo)]
  /\ pc' = [pc EXCEPT ![w] = label] /\ UNCHANGED result
Enter(w, p, label) ==        \* go on with the next entry, then down into p
  /\ stack' = [stack EXCEPT ![w] = Append(With(w, Tail(Todo(w))), Frame(p))]
  /\ pc' = [pc EXCEPT ![w] = label] /\ UNCHANGED result
Next1(w) == Head(Todo(w))
Skip(w, label) == SetTodo(w, Tail(Todo(w)), label)

-----------------------------------------------------------------------------
(* util::path::mkdir.                                                      *)

MkdirIsDir(w) ==
  /\ At(w, "mkdir")
  /\ IF IsDir(Here(w)) THEN Return(w, "true", "make") ELSE Goto(w, "base")
  /\ UNCHANGED fs

MkdirBaseUnchecked(w) == At(w, "base") /\ Goto(w, "make") /\ UNCHANGED fs

MkdirBaseSelf(w) ==
  /\ At(w, "base")
  /\ IF IsDir(Parent(Here(w))) THEN Goto(w, "make") ELSE Push(w, Here(w), "mkdir")
  /\ UNCHANGED fs

MkdirBase(w) ==
  /\ At(w, "base")
  /\ IF IsDir(Parent(Here(w))) THEN Goto(w, "make") ELSE Push(w, Parent(Here(w)), "mkdir")
  /\ UNCHANGED fs

\* ::mkdir; a frame that fails makes every frame below it return false.
MkdirMake(w) ==
  /\ At(w, "make")
  /\ IF CanMake(Here(w))
     THEN Put(Here(w), Dir) /\ Return(w, "true", "make")
     ELSE Finish(w, "false") /\ UNCHANGED fs

-----------------------------------------------------------------------------
(* util::path::rmdir, with readdir; its entries have the type they had when *)
(* they were listed.                                                        *)

Readdir(w) ==
  /\ At(w, "readdir")
  /\ \/ IsDir(Here(w)) /\ \E list \in Listings(Here(w)) : SetTodo(w, list, "rmdir")
     \/ ~IsDir(Here(w)) /\ Finish(w, "throw")
  /\ UNCHANGED fs

RmdirEntryFlat(w) ==
  /\ At(w, "rmdir") /\ Todo(w) # <<>>
  /\ LET e == Next1(w)
     IN  IF CanRemove(e.path) THEN Put(e.path, None) /\ Skip(w, "rmdir")
                              ELSE SetTodo(w, <<>>, "rmdir") /\ UNCHANGED fs

RmdirEntryRetry(w) ==
  /\ At(w, "rmdir") /\ Todo(w) # <<>>
  /\ LET e == Next1(w)
     IN  IF e.dir THEN Enter(w, e.path, "readdir") /\ UNCHANGED fs
         ELSE IF CanRemove(e.path) THEN Put(e.path, None) /\ Skip(w, "rmdir")
         ELSE SetTodo(w, Append(Tail(Todo(w)), e), "rmdir") /\ UNCHANGED fs

RmdirEntry(w) ==
  /\ At(w, "rmdir") /\ Todo(w) # <<>>
  /\ LET e == Next1(w)
     IN  IF e.dir THEN Enter(w, e.path, "readdir") /\ UNCHANGED fs
         ELSE IF CanRemove(e.path) THEN Put(e.path, None) /\ Skip(w, "rmdir")
         ELSE SetTodo(w, <<>>, "rmdir") /\ UNCHANGED fs

RmdirSelfUnchecked(w) ==
  /\ At(w, "rmdir") /\ Todo(w) = <<>>
  /\ IF CanRmdir(Here(w)) THEN Put(Here(w), None) ELSE UNCHANGED fs
  /\ Return(w, "true", "rmdir")

RmdirSelf(w) ==
  /\ At(w, "rmdir") /\ Todo(w) = <<>>
  /\ IF CanRmdir(Here(w))
     THEN Put(Here(w), None) /\ Return(w, "true", "rmdir")
     ELSE Finish(w, "throw") /\ UNCHANGED fs

-----------------------------------------------------------------------------
(* FileUtil.createDirectory and moveFile, with File.mkdirs.                *)

CreateDirectoryFlat(w) ==
  /\ At(w, "exists")
  /\ IF fs[Here(w)] # None THEN Finish(w, "void") ELSE Goto(w, "mkdirs2")
  /\ UNCHANGED fs

CreateDirectory(w) ==
  /\ At(w, "exists")
  /\ IF fs[Here(w)] # None THEN Finish(w, "void") ELSE Goto(w, "mkdirs")
  /\ UNCHANGED fs

\* The end of a frame of mkdirs; whether it made the directory is not looked at.
EndMkdirs(w) ==
  IF Len(stack[w]) > 1 THEN Pop(w, "mkdirs2")
  ELSE IF call[w].op = "moveFile" THEN Goto(w, "rename")
  ELSE Finish(w, "void")

Mkdirs(w) ==
  /\ At(w, "mkdirs")
  /\ \/ CanMake(Here(w)) /\ Put(Here(w), Dir) /\ EndMkdirs(w)
     \/ fs[Here(w)] # None /\ EndMkdirs(w) /\ UNCHANGED fs
     \/ /\ fs[Here(w)] = None /\ ~CanMake(Here(w))
        /\ Push(w, Parent(Here(w)), "mkdirs") /\ UNCHANGED fs

\* "(parent.mkdirs() || parent.exists()) && canonFile.mkdir()", the last call.
MkdirsAgain(w) ==
  /\ At(w, "mkdirs2")
  /\ IF CanMake(Here(w)) THEN Put(Here(w), Dir) ELSE UNCHANGED fs
  /\ EndMkdirs(w)

MoveIsFile(w) ==
  /\ At(w, "isFile")
  /\ IF IsFile(call[w].path) THEN Goto(w, "parent") ELSE Finish(w, "false")
  /\ UNCHANGED fs

MoveParent(w) ==
  /\ At(w, "parent")
  /\ LET d == Parent(call[w].tar)
     IN  /\ stack' = [stack EXCEPT ![w] = <<Frame(d)>>]
         /\ pc' = [pc EXCEPT ![w] = IF IsDir(d) THEN "rename" ELSE "mkdirs"]
  /\ UNCHANGED <<fs, result>>

RenameByCopy(w) ==
  /\ At(w, "rename")
  /\ LET src == call[w].path   tar == call[w].tar
     IN  IF fs[src] # None
         THEN /\ fs' = [fs EXCEPT ![src] = None,
                                  ![tar] = IF IsDir(Parent(tar)) THEN fs[src] ELSE @]
              /\ Finish(w, "true")
         ELSE Finish(w, "false") /\ UNCHANGED fs

\* renameTo, of whatever has the name by now: it was a file when isFile looked.
Rename(w) ==
  /\ At(w, "rename")
  /\ LET src == call[w].path   tar == call[w].tar
     IN  IF CanRename(src, tar)
         THEN fs' = [fs EXCEPT ![src] = None, ![tar] = fs[src]] /\ Finish(w, "true")
         ELSE Finish(w, "false") /\ UNCHANGED fs

-----------------------------------------------------------------------------
(* FileUtil.deleteFiles: a directory that lists nothing is left, and what  *)
(* delete() returns is not looked at.                                      *)

ListFiles(w) ==
  /\ At(w, "listFiles")
  /\ \/ ~IsDir(Here(w)) /\ Finish(w, "throw")             \* listFiles() is null
     \/ IsDir(Here(w)) /\ Entries(Here(w)) = {} /\ Return(w, "void", "test")
     \/ /\ IsDir(Here(w)) /\ Entries(Here(w)) # {}
        /\ \E list \in Listings(Here(w)) : SetTodo(w, list, "test")
  /\ UNCHANGED fs

DeleteTestFlat(w) ==
  /\ At(w, "test") /\ Todo(w) # <<>>
  /\ IF IsFile(Next1(w).path) THEN Goto(w, "delete") ELSE Skip(w, "test")
  /\ UNCHANGED fs

DeleteTest(w) ==
  /\ At(w, "test") /\ Todo(w) # <<>>
  /\ LET p == Next1(w).path
     IN  IF IsFile(p) THEN Goto(w, "delete")
         ELSE IF IsDir(p) THEN Enter(w, p, "listFiles")
         ELSE Skip(w, "test")
  /\ UNCHANGED fs

DeleteEntry(w) ==
  /\ At(w, "delete")
  /\ IF CanRemove(Next1(w).path) THEN Put(Next1(w).path, None) ELSE UNCHANGED fs
  /\ Skip(w, "test")

DeleteSelf(w) ==
  /\ At(w, "test") /\ Todo(w) = <<>>
  /\ IF CanRemove(Here(w)) THEN Put(Here(w), None) ELSE UNCHANGED fs
  /\ Return(w, "void", "test")

-----------------------------------------------------------------------------
(* FileUtil.deleteDirectory: a walk of the tree in which a failure throws. *)

NotExists(w) ==
  /\ At(w, "notExists")
  /\ IF fs[Here(w)] = None THEN Finish(w, "void") ELSE Goto(w, "walk")
  /\ UNCHANGED fs

Visit(w) ==
  /\ At(w, "walk")
  /\ \/ IsDir(Here(w)) /\ UNCHANGED fs /\ \E list \in Listings(Here(w)) : SetTodo(w, list, "entries")
     \/ IsFile(Here(w)) /\ Put(Here(w), None) /\ Return(w, "void", "entries")
     \/ fs[Here(w)] = None /\ Finish(w, "throw") /\ UNCHANGED fs

VisitEntry(w) ==
  /\ At(w, "entries") /\ Todo(w) # <<>>
  /\ Enter(w, Next1(w).path, "walk")
  /\ UNCHANGED fs

PostVisit(w) ==
  /\ At(w, "entries") /\ Todo(w) = <<>>
  /\ IF CanRmdir(Here(w))
     THEN Put(Here(w), None) /\ Return(w, "void", "entries")
     ELSE Finish(w, "throw") /\ UNCHANGED fs

-----------------------------------------------------------------------------

Step(w) ==
  /\ \/ MkdirIsDir(w) \/ MkdirBase(w) \/ MkdirMake(w)
     \/ Readdir(w) \/ RmdirEntry(w) \/ RmdirSelf(w)
     \/ CreateDirectory(w) \/ Mkdirs(w) \/ MkdirsAgain(w)
     \/ MoveIsFile(w) \/ MoveParent(w) \/ Rename(w)
     \/ ListFiles(w) \/ DeleteTest(w) \/ DeleteEntry(w) \/ DeleteSelf(w)
     \/ NotExists(w) \/ Visit(w) \/ VisitEntry(w) \/ PostVisit(w)
  /\ UNCHANGED <<before, call>>

Next == \E w \in Procs : Step(w)

\* Every process is scheduled.
Spec == Init /\ [][Next]_vars /\ \A w \in Procs : WF_vars(Step(w))

-----------------------------------------------------------------------------
(* Properties.                                                             *)

Ended == \A w \in Procs : pc[w] = "done"
Only(ops) == \A w \in Procs : call[w].op \in ops
SamePath == \A v, w \in Procs : call[v].path = call[w].path

Makers == {"mkdir", "createDirectory"}

\* mkdir may return false because another process made a directory first, although
\* nothing is wrong (path.cc:75-84).  But of processes that make the same path one
\* returns true, and the path is a directory when it does.
SomeMkdirSucceeds ==
  /\ Only({"mkdir"}) /\ SamePath /\ Ended
  /\ \A w \in Procs, p \in Paths : Under(p, call[w].path) => before[p] \in {None, Dir}
  => \E w \in Procs : result[w] = "true" /\ IsDir(call[w].path)

\* createDirectory leaves its directory whoever else makes directories meanwhile,
\* unless a file is in the way (FileUtil.java:144-149).
CreateDirectoryCreates ==
  \A w \in Procs :
    /\ Only(Makers) /\ call[w].op = "createDirectory" /\ result[w] = "void"
    /\ \A p \in Paths : Under(p, call[w].path) => before[p].kind # "file"
    => IsDir(call[w].path)

\* Of processes that remove the same directory one at most returns true, exactly when
\* the directory is gone.  It may be none: each stops at the first entry that another
\* has removed, and throws unless it was the last (path.cc:86-104).
OneRmdirSucceeds ==
  /\ Only({"rmdir"}) /\ SamePath /\ \A w \in Procs : before[call[w].path] = Dir
  => /\ \A w \in Procs : fs[call[w].path] = None <=> \E v \in Procs : result[v] = "true"
     /\ \A v, w \in Procs : result[v] = "true" /\ result[w] = "true" => v = w

\* No other call has to do with the part of the tree at w's path.
Apart(w) ==
  \A v \in Procs \ {w} :
    /\ ~Under(call[w].path, call[v].path) /\ ~Under(call[v].path, call[w].path)
    /\ call[v].op = "moveFile" => ~Under(call[w].path, call[v].tar)

\* What deleteFiles leaves: the directories that were empty, and what is above them.
Kept(w, p) ==
  /\ call[w].op = "deleteFiles"
  /\ \E e \in Paths : /\ Under(p, e) /\ before[e] = Dir
                      /\ \A q \in Paths : Under(e, q) /\ q # e => before[q] = None

\* A directory that no one else has to do with is removed with all that is in it, to any
\* depth, by rmdir and deleteDirectory; deleteFiles leaves what was empty
\* (path.cc:86-104, FileUtil.java:252-291).
RemovesAll ==
  \A w \in Procs :
    /\ call[w].op \in Removers /\ before[call[w].path] = Dir /\ Apart(w) /\ pc[w] = "done"
    => /\ result[w] # "throw"
       /\ \A p \in Paths : Under(call[w].path, p) => fs[p] = IF Kept(w, p) THEN Dir ELSE None

\* A file that moveFile moves is always somewhere, unless a call deletes where it
\* was or goes, or moves another onto it (FileUtil.java:170-184).
FileSomewhere ==
  \A w \in Procs : call[w].op = "moveFile" /\ before[call[w].path] = File(call[w].path) =>
    \/ \E p \in {call[w].path, call[w].tar} : fs[p] = File(call[w].path)
    \/ \E v \in Procs \ {w} : \E p \in {call[w].path, call[w].tar} :
         IF call[v].op = "moveFile" THEN p \in {call[v].path, call[v].tar}
         ELSE call[v].op \notin Makers /\ Under(call[v].path, p)

\* A call that makes directories where moveFile takes files from.
MakesAtSource ==
  \E v, u \in Procs : call[v].op \in Makers /\ call[u].op = "moveFile" /\ Under(call[u].path, call[v].path)

\* Between the test at FileUtil.java:172 and the rename at 181 a directory may take the
\* place of the file, and is moved instead of it; but only if a call makes directories
\* where files are moved from.
SourceStaysFile ==
  \A w \in Procs : call[w].op = "moveFile" /\ pc[w] \in {"parent", "mkdirs", "mkdirs2", "rename"}
    => ~IsDir(call[w].path) \/ MakesAtSource

\* What becomes of a file that moveFile moves in several steps, and what it moves.
MovedFileKept == FileSomewhere /\ SourceStaysFile

\* Every call ends, whatever the others do.
CallsEnd == <>Ended

\* Calls of one kind in one place: of those that make a directory one at least says so,
\* of those that remove it one at most; createDirectory does what it is for, and so do
\* all removals that are not disturbed (path.cc:70-104, FileUtil.java:144-149, 252-291).
CallsSucceed ==
  /\ SomeMkdirSucceeds /\ OneRmdirSucceeds
  /\ CreateDirectoryCreates /\ RemovesAll
=============================================================================
