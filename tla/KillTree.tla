------------------------------- MODULE KillTree -------------------------------
(***************************************************************************)
(* kill_pstree of cxx/src/util/process.cc:275-302, with proc_pids and      *)
(* ppidof, against the processes of the machine, which go on forking and   *)
(* exiting between its system calls.  Only the root is stopped.            *)
(*                                                                         *)
(* Process identifiers are not reused.  The listing of /proc is one step:  *)
(* a process created while it is read may or may not be in it, which is    *)
(* the same as being forked before or after the step.                      *)
(***************************************************************************)
EXTENDS Integers, FiniteSets

CONSTANTS
  Procs,     \* the process identifiers
  Root,      \* the parameter root_pid
  Others,    \* processes that exist from the start and do not descend from the root
  RootParent,
  MaySpace,  \* the sets of processes that may have a space in their name
  InitProc   \* the process that adopts orphans; also any number that is not in Procs

ASSUME ProcsAssumption ==
  /\ IsFiniteSet(Procs)
  /\ Root \in Procs /\ Others \subseteq Procs \ {Root}
  /\ RootParent \in Others \cup {InitProc}
  /\ MaySpace \subseteq SUBSET Procs
  /\ InitProc \notin Procs /\ "unknown" \notin Procs

VARIABLES
  proc,      \* proc[p]: unborn, running, stopped, zombie or gone (reaped)
  parent,    \* the kernel's parent of p
  pc,        \* where kill_pstree is
  unread,    \* listed pids whose ppid was not read yet
  childpids, \* childpids[p]: the ppid read for p, Unknown if none was
  pids_tokill,
  killed,    \* the result
  spaced,    \* the processes with a space in their name
  tree,      \* history: the root's descendants when it was stopped, and theirs
  victims,   \* history: processes that got the SIGKILL
  misread,   \* history: those read, for one of the two reasons of Misreads, as the
             \* children of a process that is not their parent
  disturbed  \* history: a member forked, or orphaned a child, under way

code == <<pc, unread, childpids, pids_tokill, killed, victims, misread, spaced>>
vars == <<proc, parent, pc, unread, childpids, pids_tokill, killed, tree,
          victims, misread, disturbed, spaced>>

Unknown == "unknown"
Alive   == {"running", "stopped"}

TypeOK ==
  /\ proc \in [Procs -> Alive \cup {"unborn", "zombie", "gone"}]
  /\ parent \in [Procs -> Procs \cup {InitProc}]
  /\ pc \in {"start", "list", "scan", "build", "spin", "kill", "done", "throw"}
  /\ unread \subseteq Procs
  /\ childpids \in [Procs -> Procs \cup {InitProc, Unknown}]
  /\ pids_tokill \subseteq Procs
  /\ killed \in BOOLEAN /\ disturbed \in BOOLEAN
  /\ tree \subseteq Procs /\ victims \subseteq Procs /\ misread \subseteq Procs
  /\ spaced \in MaySpace

Init ==
  /\ proc = [p \in Procs |-> IF p \in Others \cup {Root} THEN "running" ELSE "unborn"]
  /\ parent = [p \in Procs |-> IF p = Root THEN RootParent ELSE InitProc]
  /\ pc = "start"
  /\ unread = {} /\ childpids = [p \in Procs |-> Unknown] /\ pids_tokill = {}
  /\ killed = TRUE
  /\ tree = {} /\ victims = {} /\ misread = {} /\ disturbed = FALSE
  /\ spaced \in MaySpace

Exists(p) == proc[p] \in Alive \cup {"zombie"}

\* What hangs below r under the parent relation f: the smallest set with r that has
\* the children of its members.
Closed(S, f) == \A p \in Procs : f[p] \in S => p \in S
Descendants(r, f) == {p \in Procs : \A S \in SUBSET Procs : r \in S /\ Closed(S, f) => p \in S}

\* The generations below r: Generation(r, f)[0] = {r}.
Generation(r, f) ==
  LET gen[n \in 0 .. Cardinality(Procs)] ==
        IF n = 0 THEN {r}
        ELSE LET parents == gen[n - 1] IN {p \in Procs : f[p] \in parents}
  IN  gen

-----------------------------------------------------------------------------
(* The other processes.                                                    *)

Orphan(p) == [q \in Procs |-> IF parent[q] = p THEN InitProc ELSE parent[q]]
HasChild(p) == \E q \in Procs : parent[q] = p /\ proc[q] \in Alive

Fork(p, q) ==
  /\ proc[p] = "running" /\ proc[q] = "unborn"
  /\ proc' = [proc EXCEPT ![q] = "running"]
  /\ parent' = [parent EXCEPT ![q] = p]
  /\ tree' = IF p \in tree THEN tree \cup {q} ELSE tree
  /\ disturbed' = (disturbed \/ (p \in tree /\ pc \in {"scan", "build", "kill"}))
  /\ UNCHANGED code

Exit(p) ==
  /\ proc[p] = "running"
  /\ proc' = [proc EXCEPT ![p] = "zombie"]
  /\ parent' = Orphan(p)
  /\ disturbed' = (disturbed \/ (p \in tree /\ HasChild(p)))
  /\ UNCHANGED <<code, tree>>

Reap(p) ==
  /\ proc[p] = "zombie"
  /\ parent[p] \in {InitProc} \cup {q \in Procs : proc[q] = "running"}
  /\ proc' = [proc EXCEPT ![p] = "gone"]
  /\ UNCHANGED <<parent, code, tree, disturbed>>

-----------------------------------------------------------------------------
(* kill_pstree.                                                            *)

StopRoot ==
  /\ pc = "start"
  /\ IF Exists(Root)
     THEN /\ pc' = "list"
          /\ proc' = IF proc[Root] = "running" THEN [proc EXCEPT ![Root] = "stopped"]
                                               ELSE proc
          /\ tree' = Descendants(Root, parent)
     ELSE pc' = "throw" /\ UNCHANGED <<proc, tree>>
  /\ UNCHANGED <<parent, unread, childpids, pids_tokill, killed, victims, misread, disturbed, spaced>>

List ==
  /\ pc = "list"
  /\ unread' = {p \in Procs : Exists(p)}
  /\ pc' = "scan"
  /\ UNCHANGED <<proc, parent, childpids, pids_tokill, killed, tree, victims, misread, disturbed, spaced>>

\* What a wrong ppidof may return: any process, the one asked about included.
AnyPid == Procs \cup {InitProc}

PpidofOfLive(p) ==
  IF proc[p] \notin Alive \/ p \in spaced THEN AnyPid ELSE {parent[p]}

\* The stat file of a vanished process does not open, and the uninitialised
\* variable is returned.  A space in the name shifts the fields by one: the fourth
\* is then what the name holds there, the number of "copy (2)", and 0 if that is
\* not a number.
Misreads(p) == ~Exists(p) \/ p \in spaced

Ppidof(p) == IF Misreads(p) THEN AnyPid ELSE {parent[p]}

Scan(p) ==
  /\ pc = "scan" /\ p \in unread
  /\ unread' = unread \ {p}
  /\ \E q \in Ppidof(p) :
       /\ childpids' = [childpids EXCEPT ![p] = q]
       /\ misread' = IF Misreads(p) /\ q \in Procs \ {parent[p]} THEN misread \cup {p}
                                                                  ELSE misread
  /\ UNCHANGED <<proc, parent, pc, pids_tokill, killed, tree, victims, disturbed, spaced>>

EndScan ==
  /\ pc = "scan" /\ unread = {}
  /\ pc' = "build"
  /\ UNCHANGED <<proc, parent, unread, childpids, pids_tokill, killed, tree, victims,
                 misread, disturbed, spaced>>

Cyclic == \E n \in 1 .. Cardinality(Procs) : Root \in Generation(Root, childpids)[n]

BuildChildrenOnly ==
  /\ pc = "build"
  /\ pids_tokill' = {Root} \cup Generation(Root, childpids)[1]
  /\ pc' = "kill"
  /\ UNCHANGED <<proc, parent, unread, childpids, killed, tree, victims, misread, disturbed, spaced>>

\* The list of the root and what hangs below it in childpids, built by appending
\* the children of each element: it never ends if the root is below itself.
Build ==
  /\ pc = "build"
  /\ IF Cyclic
     THEN pc' = "spin" /\ UNCHANGED pids_tokill
     ELSE pc' = "kill" /\ pids_tokill' = Descendants(Root, childpids)
  /\ UNCHANGED <<proc, parent, unread, childpids, killed, tree, victims, misread, disturbed, spaced>>

\* p is in the last generation that is left: the list has the younger ones first.
Youngest(p) ==
  LET gen == Generation(Root, childpids)
  IN  \E n \in 0 .. Cardinality(Procs) :
        p \in gen[n] /\ \A m \in n + 1 .. Cardinality(Procs) : gen[m] \cap pids_tokill = {}

KillUnlisted(p) ==
  /\ pc = "kill" /\ p \in pids_tokill /\ Youngest(p)
  /\ pids_tokill' = (pids_tokill \ {p}) \cup {parent[p]}
  /\ UNCHANGED <<proc, parent, pc, unread, childpids, killed, tree, victims, misread, disturbed, spaced>>

KillRetrying(p) ==
  /\ pc = "kill" /\ p \in pids_tokill /\ Youngest(p)
  /\ IF Exists(p)
     THEN /\ proc' = [proc EXCEPT ![p] = "zombie"]
          /\ parent' = IF proc[p] \in Alive THEN Orphan(p) ELSE parent
          /\ victims' = victims \cup {p}
          /\ pids_tokill' = pids_tokill \ {p}
          /\ UNCHANGED killed
     ELSE killed' = ~killed /\ UNCHANGED <<proc, parent, victims, pids_tokill>>
  /\ UNCHANGED <<pc, unread, childpids, tree, misread, disturbed, spaced>>

\* kill(p, SIGKILL): a zombie takes it without effect, a reaped process is ESRCH.
Kill(p) ==
  /\ pc = "kill" /\ p \in pids_tokill /\ Youngest(p)
  /\ pids_tokill' = pids_tokill \ {p}
  /\ IF Exists(p)
     THEN /\ proc' = [proc EXCEPT ![p] = "zombie"]
          /\ parent' = IF proc[p] \in Alive THEN Orphan(p) ELSE parent
          /\ victims' = victims \cup {p}
          /\ UNCHANGED killed
     ELSE killed' = FALSE /\ UNCHANGED <<proc, parent, victims>>
  /\ UNCHANGED <<pc, unread, childpids, tree, misread, disturbed, spaced>>

Return ==
  /\ pc = "kill" /\ pids_tokill = {}
  /\ pc' = "done"
  /\ UNCHANGED <<proc, parent, unread, childpids, pids_tokill, killed, tree, victims,
                 misread, disturbed, spaced>>

Step == StopRoot \/ List \/ (\E p \in Procs : Scan(p) \/ Kill(p)) \/ EndScan \/ Build \/ Return

\* What the other processes do is followed until the call has ended.
Environment ==
  /\ pc \notin {"done", "spin", "throw"}
  /\ \E p \in Procs : Exit(p) \/ Reap(p) \/ \E q \in Procs : Fork(p, q)

Next == Step \/ Environment

\* kill_pstree runs on; nothing is assumed of the other processes.
Spec == Init /\ [][Next]_vars /\ WF_vars(Step)

-----------------------------------------------------------------------------
(* Properties.                                                             *)

\* When kill_pstree returns TRUE and its snapshot was that of the tree - no
\* member forked after the listing, none left a child to init, no name has a
\* space - no process of the tree is left, whatever exits and reaps went on.
CompleteIfUndisturbed ==
  pc = "done" /\ killed /\ ~disturbed /\ tree \cap spaced = {}
    => \A p \in tree : proc[p] \notin Alive

\* A process outside the tree is killed only if it is, or hangs in what was read
\* below, a process outside the tree that ppidof was wrong about: one that had
\* vanished (the uninitialised variable of process.cc:252) or whose name has a space
\* and a number (process.cc:256).
KillsOnlyTree ==
  \A v \in victims \ tree : \E m \in misread \ tree : v \in Descendants(m, childpids)

\* The scan, the list and the kills end; the list has no end only if a process that
\* ppidof was wrong about closes a cycle through the root.
Terminates ==
  pc = "list" ~>
    \/ pc = "done"
    \/ /\ pc = "spin"
       /\ \E m \in misread : Root \in Descendants(m, childpids) /\ m \in Descendants(Root, childpids)

\* The type invariant, and of the processes outside the tree none is killed that no
\* wrong ppid hung below the root (process.cc:248-258, 275-302).
OnlyTreeKilled == TypeOK /\ KillsOnlyTree
=============================================================================
