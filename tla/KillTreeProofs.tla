--------------------------- MODULE KillTreeProofs ---------------------------
(***************************************************************************)
(* For any processes, in trees of any shape and depth, and whatever they   *)
(* fork, exit and reap while kill_pstree runs: whom it kills, and when it  *)
(* has killed them all.                                                    *)
(***************************************************************************)
EXTENDS KillTree, TLAPS

Began == pc \notin {"start", "throw"}
Snapshot == ~disturbed /\ tree \cap spaced = {}
LiveMembers == {p \in tree : proc[p] \in Alive}

\* The kernel's tree: a process with a parent was born, and the parent is alive.
KernelTree ==
  \A p \in Procs : parent[p] = InitProc \/ (proc[p] # "unborn" /\ proc[parent[p]] \in Alive)

\* "tree" has the children of its members.
TreeInv ==
  IF Began THEN Root \in tree /\ Closed(tree, parent) /\ \A p \in tree : proc[p] # "unborn"
           ELSE tree = {}

\* v hangs in what was read at or below a process outside the tree whose ppid was wrong.
Hung(v) == \E m \in misread \ tree : v \in Descendants(m, childpids)

\* But for wrong ppids what was read hangs nothing below the tree that is not of it,
\* and a process that was read as a parent had been born, so that it does not join
\* the tree later.
ReadAsTree ==
  \A p \in Procs \ misread :
    childpids[p] \in Procs => proc[childpids[p]] # "unborn" /\ (childpids[p] \in tree => p \in tree)

ReadInv ==
  /\ pc = "start" => childpids = [p \in Procs |-> Unknown] /\ misread = {}
  /\ pids_tokill \cup victims # {} => pc \in {"kill", "done"}
  /\ \A p \in unread \cup misread : proc[p] # "unborn"
  /\ ReadAsTree
  /\ \A v \in pids_tokill \cup victims : v \in tree \/ Hung(v)

\* Members that live hang below the root until the list is built, since no one
\* above them has exited.
LiveBelow ==
  ~disturbed /\ pc \in {"list", "scan", "build"} => LiveMembers \subseteq Descendants(Root, parent)

\* They were read as they hang, and are on the list until they are killed.
AllListed ==
  /\ pc \in {"scan", "build"} =>
       \A p \in LiveMembers \ {Root} : p \in unread \/ childpids[p] = parent[p]
  /\ pc = "build" => unread = {}
  /\ pc \in {"kill", "done"} /\ killed => LiveMembers \subseteq pids_tokill
  /\ pc = "done" => pids_tokill = {}

SnapshotInv == Snapshot => AllListed

IInv == TypeOK /\ KernelTree /\ TreeInv /\ ReadInv /\ LiveBelow /\ SnapshotInv

-----------------------------------------------------------------------------
(* Descendants.                                                            *)

\* The descendants are a closed set with the root, and the smallest one.
LEMMA DescendantsClosed ==
  ASSUME NEW f, NEW r \in Procs
  PROVE  /\ r \in Descendants(r, f) /\ Descendants(r, f) \subseteq Procs
         /\ Closed(Descendants(r, f), f)
         /\ \A S \in SUBSET Procs : r \in S /\ Closed(S, f) => Descendants(r, f) \subseteq S
  BY ProcsAssumption DEF Descendants, Closed

\* Every descendant but the root has its parent among them.
LEMMA DescendantsParent ==
  ASSUME NEW f, NEW p \in Descendants(Root, f), p # Root
  PROVE  f[p] \in Descendants(Root, f)
<1> DEFINE D == Descendants(Root, f)
<1>0. Root \in Procs
  BY ProcsAssumption
<1>1. Root \in D /\ D \subseteq Procs /\ Closed(D, f)
  BY <1>0, DescendantsClosed
<1>2. SUFFICES ASSUME f[p] \notin D PROVE FALSE
  OBVIOUS
<1>3. Root \in D \ {p} /\ Closed(D \ {p}, f) /\ D \ {p} \in SUBSET Procs
  BY <1>1, <1>2 DEF Closed
<1> HIDE DEF D
<1>4. D \subseteq D \ {p}
  BY <1>0, <1>3, DescendantsClosed DEF D
<1> QED BY <1>4 DEF D

\* If every live member is attached in g as it is in f, those that are descendants
\* in f are descendants in g.
LEMMA DescendantsMove ==
  ASSUME NEW f, NEW g, NEW M,
         \A p \in M \ {Root} : f[p] \in Procs => f[p] \in M /\ g[p] = f[p]
  PROVE  \A p \in Descendants(Root, f) \cap M : p \in Descendants(Root, g)
<1> SUFFICES ASSUME NEW S \in SUBSET Procs, Root \in S, Closed(S, g),
                    NEW p \in Descendants(Root, f), p \in M
             PROVE  p \in S
  BY DEF Descendants
<1> DEFINE T == S \cup (Procs \ M)
<1>1. T \in SUBSET Procs /\ Root \in T
  OBVIOUS
<1>2. Closed(T, f)
  BY DEF Closed
<1> HIDE DEF T
<1>3. p \in T
  BY <1>1, <1>2, ProcsAssumption, DescendantsClosed
<1> QED BY <1>3 DEF T

-----------------------------------------------------------------------------
LEMMA InitIInv == Init => IInv
<1> SUFFICES ASSUME Init PROVE IInv
  OBVIOUS
<1> USE ProcsAssumption DEF Init, Alive, Unknown
<1>1. TypeOK
  BY DEF TypeOK
<1>2. KernelTree /\ TreeInv /\ ReadInv /\ LiveBelow /\ SnapshotInv
  BY DEF KernelTree, TreeInv, Began, ReadInv, ReadAsTree, Closed, LiveBelow, SnapshotInv, AllListed
<1> QED BY <1>1, <1>2 DEF IInv

-----------------------------------------------------------------------------
(* The other processes.                                                    *)

\* A step that leaves what was read and the tree alone keeps ReadInv if it only takes
\* away from the lists.
LEMMA ReadKept ==
  ASSUME TypeOK, ReadInv,
         UNCHANGED <<childpids, misread, tree>>, unread' \subseteq unread,
         \A p \in Procs : proc[p] # "unborn" => proc'[p] # "unborn",
         pids_tokill' \cup victims' \subseteq pids_tokill \cup victims,
         pc' = "start" => pc = "start", pc \in {"kill", "done"} => pc' \in {"kill", "done"}
  PROVE  ReadInv'
<1>1. \A v : Hung(v) => Hung(v)'
  BY DEF Hung
<1>2. ReadAsTree'
  BY DEF TypeOK, ReadInv, ReadAsTree
<1> QED BY <1>1, <1>2 DEF TypeOK, ReadInv

\* A live member that hangs below the root, and is not the root, has a live parent
\* in the tree.
LEMMA LiveParent ==
  ASSUME IInv, ~disturbed, pc \in {"list", "scan", "build"}
  PROVE  \A p \in LiveMembers \ {Root} : parent[p] \in LiveMembers
<1> SUFFICES ASSUME NEW p \in LiveMembers, p # Root PROVE parent[p] \in LiveMembers
  OBVIOUS
<1>1. Descendants(Root, parent) \subseteq tree
  BY ProcsAssumption, DescendantsClosed DEF IInv, TypeOK, TreeInv, Began
<1>2. parent[p] \in Descendants(Root, parent)
  BY DescendantsParent DEF IInv, LiveBelow
<1>3. p \in Procs /\ parent[p] \in Procs
  BY <1>1, <1>2 DEF IInv, TypeOK, LiveMembers
<1> QED BY <1>1, <1>2, <1>3, ProcsAssumption DEF IInv, KernelTree, LiveMembers

LEMMA ForkStep ==
  ASSUME IInv, NEW p \in Procs, NEW q \in Procs, Fork(p, q)
  PROVE  IInv'
<1> USE ProcsAssumption DEF IInv, Alive
<1>0. /\ proc[p] = "running" /\ proc[q] = "unborn" /\ p # q
      /\ proc' = [proc EXCEPT ![q] = "running"] /\ parent' = [parent EXCEPT ![q] = p]
      /\ tree' = IF p \in tree THEN tree \cup {q} ELSE tree
      /\ UNCHANGED code
      /\ disturbed' = (disturbed \/ (p \in tree /\ pc \in {"scan", "build", "kill"}))
  BY DEF Fork
<1>1. TypeOK'
  BY <1>0 DEF TypeOK, code
<1>2. KernelTree'
  BY <1>0 DEF TypeOK, KernelTree
<1>3. /\ q \notin tree /\ parent[q] = InitProc
      /\ \A x \in Procs : parent[x] # q
  BY <1>0 DEF TypeOK, KernelTree, TreeInv
<1>4. TreeInv'
  BY <1>0, <1>3 DEF TypeOK, TreeInv, Began, Closed, code
<1>5. ReadInv'
  <2>1. q \notin unread \cup misread /\ \A x \in Procs \ misread : childpids[x] # q
    BY <1>0 DEF ReadInv, ReadAsTree
  <2>2. \A v : Hung(v) => Hung(v)'
    BY <1>0, <2>1 DEF Hung, code
  <2>3. ReadAsTree'
    BY <1>0, <2>1 DEF TypeOK, ReadInv, ReadAsTree, code
  <2> QED BY <1>0, <2>1, <2>2, <2>3 DEF TypeOK, ReadInv, code
<1>6. LiveMembers' = IF p \in tree THEN LiveMembers \cup {q} ELSE LiveMembers
  BY <1>0, <1>3 DEF TypeOK, LiveMembers
<1>7. LiveBelow'
  <2> SUFFICES ASSUME ~disturbed', pc' \in {"list", "scan", "build"}
               PROVE  LiveMembers' \subseteq Descendants(Root, parent')
    BY DEF LiveBelow
  <2>1. ~disturbed /\ pc \in {"list", "scan", "build"}
    BY <1>0 DEF code
  <2>2. \A x \in Procs \ {Root} : parent[x] \in Procs => parent'[x] = parent[x]
    BY <1>0, <1>3 DEF TypeOK
  <2>3. LiveMembers \subseteq Descendants(Root, parent')
    <3>1. \A x \in Procs \ {Root} : parent[x] \in Procs => parent[x] \in Procs /\ parent'[x] = parent[x]
      BY <2>2
    <3>2. \A x \in Descendants(Root, parent) \cap Procs : x \in Descendants(Root, parent')
      BY <3>1, DescendantsMove
    <3> QED BY <3>2, <2>1, DescendantsClosed DEF LiveBelow
  <2>4. CASE p \in tree
    <3>1. p \in Descendants(Root, parent')
      BY <1>0, <2>3, <2>4 DEF LiveMembers
    <3>2. q \in Descendants(Root, parent')
      BY <1>0, <3>1, DescendantsClosed DEF TypeOK, Closed
    <3> QED BY <1>6, <2>3, <3>2
  <2>5. CASE p \notin tree
    BY <1>6, <2>3, <2>5
  <2> QED BY <2>4, <2>5
<1>8. SnapshotInv'
  <2> SUFFICES ASSUME Snapshot' PROVE AllListed'
    BY DEF SnapshotInv
  <2>1. Snapshot
    BY <1>0 DEF Snapshot, code
  <2>2. CASE p \in tree
    <3>1. pc' = pc /\ pc \notin {"scan", "build", "kill"}
      BY <1>0, <2>2 DEF Snapshot, code
    <3>2. ~ (pc = "done" /\ killed)
      BY <1>0, <2>1, <2>2 DEF SnapshotInv, AllListed, LiveMembers
    <3> QED BY <1>0, <2>1, <3>1, <3>2 DEF SnapshotInv, AllListed, code
  <2>3. CASE p \notin tree
    <3>1. \A x \in LiveMembers : parent'[x] = parent[x]
      BY <1>0, <1>3 DEF TypeOK, LiveMembers
    <3> QED BY <1>0, <1>6, <2>1, <2>3, <3>1 DEF SnapshotInv, AllListed, code
  <2> QED BY <2>2, <2>3
<1> QED BY <1>1, <1>2, <1>4, <1>5, <1>7, <1>8

LEMMA ExitStep ==
  ASSUME IInv, NEW p \in Procs, Exit(p)
  PROVE  IInv'
<1> USE ProcsAssumption DEF IInv, Alive
<1>0. /\ proc[p] = "running" /\ proc' = [proc EXCEPT ![p] = "zombie"]
      /\ parent' = [q \in Procs |-> IF parent[q] = p THEN InitProc ELSE parent[q]]
      /\ disturbed' = (disturbed \/ (p \in tree /\ HasChild(p)))
      /\ UNCHANGED <<code, tree>>
  BY DEF Exit, Orphan
<1>1. TypeOK'
  BY <1>0 DEF TypeOK, code
<1>2. KernelTree'
  BY <1>0 DEF TypeOK, KernelTree
<1>3. TreeInv'
  BY <1>0 DEF TypeOK, TreeInv, Began, Closed, code
<1>4. ReadInv'
  BY <1>0, ReadKept DEF TypeOK, code
<1>5. LiveMembers' \subseteq LiveMembers
  BY <1>0 DEF TypeOK, LiveMembers
<1>6. ASSUME ~disturbed', pc \in {"list", "scan", "build"}
      PROVE  \A x \in LiveMembers \ {Root} : parent[x] \in LiveMembers /\ parent'[x] = parent[x]
  <2>1. ~disturbed
    BY <1>0, <1>6
  <2> SUFFICES ASSUME NEW x \in LiveMembers, x # Root
               PROVE  parent[x] \in LiveMembers /\ parent'[x] = parent[x]
    OBVIOUS
  <2>2. parent[x] \in LiveMembers /\ x \in Procs
    BY <2>1, <1>6, LiveParent DEF LiveMembers, TypeOK
  <2>3. parent[x] # p
    BY <2>2, <1>0, <1>6 DEF HasChild, LiveMembers
  <2> QED BY <2>2, <2>3, <1>0
<1>7. LiveBelow'
  <2> SUFFICES ASSUME ~disturbed', pc' \in {"list", "scan", "build"}
               PROVE  LiveMembers' \subseteq Descendants(Root, parent')
    BY DEF LiveBelow
  <2>1. ~disturbed /\ pc \in {"list", "scan", "build"}
    BY <1>0 DEF code
  <2>2. \A x \in LiveMembers \ {Root} :
          parent[x] \in Procs => parent[x] \in LiveMembers /\ parent'[x] = parent[x]
    BY <1>6, <2>1
  <2>3. \A x \in Descendants(Root, parent) \cap LiveMembers : x \in Descendants(Root, parent')
    BY <2>2, DescendantsMove
  <2> QED BY <2>1, <2>3, <1>5 DEF LiveBelow
<1>8. SnapshotInv'
  <2> SUFFICES ASSUME Snapshot' PROVE AllListed'
    BY DEF SnapshotInv
  <2>1. Snapshot
    BY <1>0 DEF Snapshot, code
  <2>2. ASSUME pc \in {"scan", "build"}
        PROVE  \A x \in LiveMembers' \ {Root} : x \in unread \/ childpids[x] = parent'[x]
    BY <2>1, <2>2, <1>5, <1>6 DEF SnapshotInv, AllListed, Snapshot
  <2> QED BY <1>0, <1>5, <2>1, <2>2 DEF SnapshotInv, AllListed, code
<1> QED BY <1>1, <1>2, <1>3, <1>4, <1>7, <1>8

LEMMA ReapStep ==
  ASSUME IInv, NEW p \in Procs, Reap(p)
  PROVE  IInv'
<1> USE ProcsAssumption DEF IInv, Alive
<1>0. /\ proc[p] = "zombie" /\ proc' = [proc EXCEPT ![p] = "gone"]
      /\ UNCHANGED <<parent, code, tree, disturbed>>
  BY DEF Reap
<1>1. TypeOK'
  BY <1>0 DEF TypeOK, code
<1>2. KernelTree'
  BY <1>0 DEF TypeOK, KernelTree
<1>3. TreeInv' /\ ReadInv'
  BY <1>0, ReadKept DEF TypeOK, TreeInv, Began, Closed, code
<1>4. LiveMembers' = LiveMembers
  BY <1>0 DEF TypeOK, LiveMembers
<1>5. LiveBelow' /\ SnapshotInv'
  BY <1>0, <1>4 DEF LiveBelow, SnapshotInv, AllListed, Snapshot, code
<1> QED BY <1>1, <1>2, <1>3, <1>5

-----------------------------------------------------------------------------
(* kill_pstree.                                                            *)

LEMMA StopRootStep ==
  ASSUME IInv, StopRoot
  PROVE  IInv'
<1> USE ProcsAssumption DEF IInv, Alive
<1> DEFINE D == Descendants(Root, parent)
<1>0. /\ pc = "start"
      /\ UNCHANGED <<parent, unread, childpids, pids_tokill, killed, victims, misread,
                     disturbed, spaced>>
  BY DEF StopRoot
<1>1. CASE Exists(Root)
  <2>1. /\ pc' = "list" /\ tree' = D
        /\ proc' = IF proc[Root] = "running" THEN [proc EXCEPT ![Root] = "stopped"] ELSE proc
    BY <1>1 DEF StopRoot
  <2>2. Root \in D /\ D \subseteq Procs /\ Closed(D, parent)
    BY DescendantsClosed
  <2>3. \A p \in D : proc[p] # "unborn"
    <3> DEFINE Born == {p \in Procs : proc[p] # "unborn"}
    <3>1. Born \in SUBSET Procs /\ Root \in Born
      BY <1>1 DEF Exists
    <3>2. Closed(Born, parent)
      BY DEF Closed, KernelTree
    <3> HIDE DEF Born
    <3>3. D \subseteq Born
      BY <3>1, <3>2, DescendantsClosed
    <3> QED BY <3>3 DEF Born
  <2> HIDE DEF D
  <2>4. TypeOK'
    BY <1>0, <2>1, <2>2 DEF TypeOK
  <2>5. KernelTree'
    BY <1>0, <2>1 DEF TypeOK, KernelTree
  <2>6. TreeInv'
    BY <1>0, <2>1, <2>2, <2>3 DEF TypeOK, TreeInv, Began, Closed
  <2>7. ReadInv'
    BY <1>0, <2>1, <2>2 DEF TypeOK, ReadInv, ReadAsTree, Unknown
  <2>8. LiveBelow'
    BY <1>0, <2>1 DEF LiveBelow, LiveMembers, D
  <2>9. SnapshotInv'
    BY <2>1 DEF SnapshotInv, AllListed
  <2> QED BY <2>4, <2>5, <2>6, <2>7, <2>8, <2>9
<1>2. CASE ~Exists(Root)
  <2>1. pc' = "throw" /\ UNCHANGED <<proc, tree>>
    BY <1>2 DEF StopRoot
  <2>2. TypeOK' /\ KernelTree'
    BY <1>0, <2>1 DEF TypeOK, KernelTree
  <2>3. TreeInv' /\ ReadInv' /\ LiveBelow' /\ SnapshotInv'
    BY <1>0, <2>1, ReadKept DEF TreeInv, LiveBelow, SnapshotInv, AllListed, Began, Closed
  <2> QED BY <2>2, <2>3
<1> QED BY <1>1, <1>2

LEMMA ListStep ==
  ASSUME IInv, List
  PROVE  IInv'
<1> USE ProcsAssumption DEF IInv, Alive
<1>0. /\ pc = "list" /\ pc' = "scan" /\ unread' = {p \in Procs : Exists(p)}
      /\ UNCHANGED <<proc, parent, childpids, pids_tokill, killed, tree, victims, misread,
                     disturbed, spaced>>
  BY DEF List
<1>1. TypeOK' /\ KernelTree'
  BY <1>0 DEF TypeOK, KernelTree
<1>2. TreeInv' /\ LiveBelow'
  BY <1>0 DEF TreeInv, LiveBelow, Began, Closed, LiveMembers
<1>4. ReadInv'
  <2>1. pids_tokill \cup victims = {} /\ \A x \in unread' : proc[x] # "unborn"
    BY <1>0 DEF ReadInv, Exists
  <2> QED BY <1>0, <2>1 DEF ReadInv, ReadAsTree
<1>3. SnapshotInv'
  BY <1>0 DEF TypeOK, SnapshotInv, AllListed, LiveMembers, Exists
<1> QED BY <1>1, <1>2, <1>3, <1>4

LEMMA ScanStep ==
  ASSUME IInv, NEW p \in Procs, Scan(p)
  PROVE  IInv'
<1> USE ProcsAssumption DEF IInv, Alive
<1>0. PICK q \in Ppidof(p) :
        /\ pc = "scan" /\ p \in unread /\ unread' = unread \ {p}
        /\ childpids' = [childpids EXCEPT ![p] = q]
        /\ misread' = IF Misreads(p) /\ q \in Procs \ {parent[p]} THEN misread \cup {p}
                                                                  ELSE misread
        /\ UNCHANGED <<proc, parent, pc, pids_tokill, killed, tree, victims, disturbed, spaced>>
  BY DEF Scan
<1>1. q \in Procs \cup {InitProc}
  BY DEF Ppidof, AnyPid, TypeOK
<1>2. Exists(p) /\ p \notin spaced => q = parent[p]
  BY DEF Ppidof, Misreads
<1>3. p \notin misread' => q \in {InitProc, parent[p]}
  BY <1>0, <1>1 DEF Ppidof
<1>4. TypeOK' /\ KernelTree'
  BY <1>0, <1>1 DEF TypeOK, KernelTree
<1>5. TreeInv' /\ LiveBelow'
  BY <1>0 DEF TreeInv, LiveBelow, Began, Closed, LiveMembers
<1>6. ReadInv'
  <2>1. p \notin misread' /\ q \in Procs => proc[q] # "unborn" /\ (q \in tree => p \in tree)
    BY <1>0, <1>3 DEF TypeOK, KernelTree, TreeInv, Began, Closed
  <2>2. ReadAsTree'
    BY <1>0, <2>1 DEF TypeOK, ReadInv, ReadAsTree
  <2>3. pids_tokill' \cup victims' = {}
    BY <1>0 DEF ReadInv
  <2>4. \A x \in unread' \cup misread' : proc[x] # "unborn"
    BY <1>0 DEF ReadInv
  <2> QED BY <1>0, <2>2, <2>3, <2>4 DEF ReadInv
<1>7. SnapshotInv'
  BY <1>0, <1>2 DEF TypeOK, SnapshotInv, AllListed, Snapshot, LiveMembers, Exists
<1> QED BY <1>4, <1>5, <1>6, <1>7

LEMMA BuildStep ==
  ASSUME IInv, Build
  PROVE  IInv'
<1> USE ProcsAssumption DEF IInv, Alive
<1> DEFINE D == Descendants(Root, childpids)
<1>0. /\ pc = "build"
      /\ UNCHANGED <<proc, parent, unread, childpids, killed, tree, victims, misread,
                     disturbed, spaced>>
      /\ \/ pc' = "spin" /\ UNCHANGED pids_tokill
         \/ pc' = "kill" /\ pids_tokill' = D
  BY DEF Build
<1>1. D \subseteq Procs
  BY DescendantsClosed
<1>2. \A v \in D : v \in tree \/ Hung(v)
  <2> DEFINE S == tree \cup {v \in Procs : Hung(v)}
  <2>1. S \in SUBSET Procs /\ Root \in S
    BY <1>0 DEF TypeOK, TreeInv, Began
  <2>2. ASSUME NEW x \in Procs, childpids[x] \in S PROVE x \in S
    <3>1. CASE childpids[x] \in tree
      <4>1. x \in tree \/ x \in misread \ tree
        BY <3>1 DEF TypeOK, ReadInv, ReadAsTree
      <4> QED BY <4>1, DescendantsClosed DEF Hung
    <3>2. CASE Hung(childpids[x])
      <4>1. PICK m \in misread \ tree : childpids[x] \in Descendants(m, childpids)
        BY <3>2 DEF Hung
      <4>2. x \in Descendants(m, childpids)
        BY <4>1, DescendantsClosed DEF TypeOK, Closed
      <4> QED BY <4>1, <4>2 DEF Hung
    <3> QED BY <2>2, <3>1, <3>2
  <2>3. Closed(S, childpids)
    BY <2>2 DEF Closed
  <2> HIDE DEF S
  <2>4. D \subseteq S
    BY <2>1, <2>3, DescendantsClosed
  <2> QED BY <2>4 DEF S
<1>3. Snapshot => LiveMembers \subseteq D
  <2> SUFFICES ASSUME Snapshot PROVE LiveMembers \subseteq D
    OBVIOUS
  <2>1. \A x \in LiveMembers \ {Root} : parent[x] \in LiveMembers /\ childpids[x] = parent[x]
    BY <1>0, LiveParent DEF Snapshot, SnapshotInv, AllListed
  <2>2. \A x \in LiveMembers \ {Root} :
          parent[x] \in Procs => parent[x] \in LiveMembers /\ childpids[x] = parent[x]
    BY <2>1
  <2>3. \A x \in Descendants(Root, parent) \cap LiveMembers : x \in D
    BY <2>2, DescendantsMove
  <2> QED BY <1>0, <2>3 DEF LiveBelow, Snapshot
<1> HIDE DEF D
<1>4. TypeOK' /\ KernelTree'
  BY <1>0, <1>1 DEF TypeOK, KernelTree
<1>5. TreeInv' /\ LiveBelow'
  BY <1>0 DEF TreeInv, LiveBelow, Began, Closed
<1>6. ReadInv'
  <2>1. \A v : Hung(v) => Hung(v)'
    BY <1>0 DEF Hung
  <2>2. ReadAsTree'
    BY <1>0 DEF ReadInv, ReadAsTree
  <2> QED BY <1>0, <1>2, <2>1, <2>2 DEF ReadInv
<1>7. SnapshotInv'
  BY <1>0, <1>3 DEF SnapshotInv, AllListed, Snapshot, LiveMembers
<1> QED BY <1>4, <1>5, <1>6, <1>7

LEMMA KillStep ==
  ASSUME IInv, NEW p \in Procs, Kill(p)
  PROVE  IInv'
<1> USE ProcsAssumption DEF IInv, Alive
<1>0. /\ pc = "kill" /\ p \in pids_tokill /\ pids_tokill' = pids_tokill \ {p}
      /\ UNCHANGED <<pc, unread, childpids, tree, misread, disturbed, spaced>>
  BY DEF Kill
<1>1. CASE Exists(p)
  <2>0. /\ proc' = [proc EXCEPT ![p] = "zombie"]
        /\ parent' = IF proc[p] \in Alive THEN Orphan(p) ELSE parent
        /\ victims' = victims \cup {p} /\ UNCHANGED killed
    BY <1>1 DEF Kill
  <2>1. TypeOK'
    BY <1>0, <2>0 DEF TypeOK, Orphan
  <2>2. KernelTree'
    BY <1>0, <1>1, <2>0 DEF TypeOK, KernelTree, Orphan, Exists
  <2>3. TreeInv'
    BY <1>0, <2>0 DEF TypeOK, TreeInv, Began, Closed, Orphan
  <2>4. ReadInv'
    BY <1>0, <2>0, ReadKept DEF TypeOK
  <2>5. LiveMembers' = LiveMembers \ {p}
    BY <1>0, <2>0 DEF TypeOK, LiveMembers
  <2>6. LiveBelow' /\ SnapshotInv'
    BY <1>0, <2>0, <2>5 DEF LiveBelow, SnapshotInv, AllListed, Snapshot
  <2> QED BY <2>1, <2>2, <2>3, <2>4, <2>6
<1>2. CASE ~Exists(p)
  <2>0. killed' = FALSE /\ UNCHANGED <<proc, parent, victims>>
    BY <1>2 DEF Kill
  <2>1. TypeOK' /\ KernelTree'
    BY <1>0, <2>0 DEF TypeOK, KernelTree
  <2>2. TreeInv' /\ ReadInv'
    BY <1>0, <2>0, ReadKept DEF TypeOK, TreeInv, Began, Closed
  <2>3. LiveBelow' /\ SnapshotInv'
    BY <1>0, <2>0 DEF LiveBelow, SnapshotInv, AllListed, Snapshot
  <2> QED BY <2>1, <2>2, <2>3
<1> QED BY <1>1, <1>2

\* The ends of the scan and of the kills.
LEMMA EndStep ==
  ASSUME IInv, EndScan \/ Return
  PROVE  IInv'
<1> USE ProcsAssumption DEF IInv, Alive
<1>0. /\ UNCHANGED <<proc, parent, unread, childpids, pids_tokill, killed, tree, victims,
                     misread, disturbed, spaced>>
      /\ \/ pc = "scan" /\ pc' = "build" /\ unread = {}
         \/ pc = "kill" /\ pc' = "done" /\ pids_tokill = {}
  BY DEF EndScan, Return
<1>1. TypeOK' /\ KernelTree'
  BY <1>0 DEF TypeOK, KernelTree
<1>2. TreeInv' /\ ReadInv'
  BY <1>0, ReadKept DEF TreeInv, Began, Closed
<1>3. LiveBelow' /\ SnapshotInv'
  BY <1>0 DEF LiveBelow, SnapshotInv, AllListed, Snapshot, LiveMembers
<1> QED BY <1>1, <1>2, <1>3

LEMMA NextIInv == IInv /\ [Next]_vars => IInv'
<1> SUFFICES ASSUME IInv, [Next]_vars PROVE IInv'
  OBVIOUS
<1>1. CASE Step
  BY <1>1, StopRootStep, ListStep, ScanStep, KillStep, EndStep, BuildStep DEF Step
<1>2. CASE Environment
  BY <1>2, ExitStep, ReapStep, ForkStep DEF Environment
<1>3. CASE UNCHANGED vars
  <2>1. TypeOK' /\ KernelTree'
    BY <1>3 DEF IInv, TypeOK, KernelTree, vars
  <2>2. TreeInv' /\ ReadInv'
    BY <1>3, ReadKept DEF IInv, TreeInv, Began, Closed, vars
  <2>3. LiveBelow' /\ SnapshotInv'
    BY <1>3 DEF IInv, LiveBelow, SnapshotInv, AllListed, Snapshot, LiveMembers, vars
  <2> QED BY <2>1, <2>2, <2>3 DEF IInv
<1> QED BY <1>1, <1>2, <1>3 DEF Next

LEMMA SpecIInv == Spec => []IInv
  BY InitIInv, NextIInv, PTL DEF Spec

\* A process outside the root's tree is killed only if a wrong ppid - that of a
\* vanished process, or of one with a space and a number in its name - hung it, or
\* what is above it, below the root (process.cc:248-258, 275-302).
THEOREM OnlyTreeTheorem == Spec => []OnlyTreeKilled
<1>1. IInv => OnlyTreeKilled
  BY DEF IInv, ReadInv, Hung, OnlyTreeKilled, KillsOnlyTree
<1> QED BY <1>1, SpecIInv, PTL

\* When kill_pstree returns TRUE and nothing disturbed its snapshot, no process of the
\* tree is left, however large the tree was (process.cc:282-302).
THEOREM CompleteTheorem == Spec => []CompleteIfUndisturbed
<1>1. IInv => CompleteIfUndisturbed
  BY DEF IInv, SnapshotInv, AllListed, Snapshot, LiveMembers, CompleteIfUndisturbed
<1> QED BY <1>1, SpecIInv, PTL

=============================================================================
