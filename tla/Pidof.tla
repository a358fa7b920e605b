--------------------------------- MODULE Pidof ---------------------------------
(***************************************************************************)
(* pidof, pidofcmd and pidofexe of cxx/src/util/process.cc with proc_pids, *)
(* nameof, cmdof, execof and util::path::readlink, against the processes   *)
(* of the machine, which come and go between its system calls.             *)
(*                                                                         *)
(* /proc lists the process identifiers in ascending order, each looked up  *)
(* when its turn comes.  Identifiers are reused.                           *)
(***************************************************************************)
EXTENDS Integers, FiniteSetsExt

CONSTANTS
  MaxPid,      \* bound: the process identifiers are 1 .. MaxPid
  Programs,    \* what a process may run: [comm, argv0, file, exe, denied]
  AtStart,     \* AtStart[p]: the program that p runs at first, or None
  NoProgram,   \* what a process that is not there runs
  MaxEvents    \* bound: what happens to processes

Pids == 1 .. MaxPid

ASSUME MaxPidAssumption == MaxPid \in Nat
ASSUME AtStartAssumption == AtStart \in [Pids -> Programs \cup {NoProgram}]
ASSUME FileAssumption == \A x \in Programs : x.argv0 = "" => x.file = "."   \* basename
ASSUME NoProgramAssumption == NoProgram \notin Programs

VARIABLES
  table,       \* table[p]: the program of process p, or NoProgram
  zombies,     \* the processes that have exited and were not reaped
  events,      \* what happened to processes so far
  query,       \* the function called and its argument
  reader,      \* where it is
  cursor,      \* the last identifier read from /proc
  to_examine,  \* proc_pids()
  pids,        \* its result
  ran,         \* history: who has run what since the call
  unreaped,    \* history: the zombies at the call, and what they had run
  stayed,      \* history: who has run the same program since the call
  vanished     \* history: some process was reaped since the call

processes == <<table, zombies, events, ran, unreaped, stayed, vanished>>
PidofVars == <<processes, query, reader, cursor, to_examine, pids>>

PidofInit ==
  /\ table = AtStart /\ zombies = {} /\ events = 0
  /\ query = [fn |-> "none"] /\ reader = "idle" /\ cursor = 0
  /\ to_examine = {} /\ pids = {}
  /\ ran = {} /\ unreaped = {} /\ stayed = {} /\ vanished = FALSE

Gone(p) == table[p] = NoProgram

-----------------------------------------------------------------------------
(* What is read of a process, and what a program would show.               *)

\* "comm" of a process that is gone cannot be opened: the name stays empty.
nameof(p) == IF Gone(p) THEN "" ELSE table[p].comm

\* "cmdline" is empty for a zombie as well, and for a kernel thread.
cmdof(p) == IF Gone(p) \/ p \in zombies THEN "" ELSE table[p].argv0

\* basename of the empty text is ".".
filenameof(p) == IF cmdof(p) = "" THEN "." ELSE table[p].file

Attribute(fn, p) ==
  CASE fn = "pidof" -> nameof(p)
    [] fn = "pidofcmd" -> filenameof(p)
    [] fn = "pidofcmd fullpath" -> cmdof(p)

Shows(x, fn) ==
  CASE fn = "pidof" -> x.comm
    [] fn = "pidofcmd" -> x.file
    [] fn = "pidofcmd fullpath" -> x.argv0
    [] fn = "pidofexe" -> x.exe

Functions4 == {"pidof", "pidofcmd", "pidofcmd fullpath", "pidofexe"}

-----------------------------------------------------------------------------
(* The call.                                                               *)

CallPidof ==
  /\ reader = "idle"
  /\ \E fn \in Functions4 :
       \E name \in {Shows(x, fn) : x \in Programs} \cup {"", "."} :
         query' = [fn |-> fn, name |-> name]
  /\ reader' = "list"
  /\ stayed' = {p \in Pids : ~Gone(p) /\ p \notin zombies}
  /\ ran' = {<<p, table[p]>> : p \in stayed'}
  /\ unreaped' = {<<p, table[p]>> : p \in zombies}
  /\ UNCHANGED <<table, zombies, events, vanished, cursor, to_examine, pids>>

proc_pids ==
  /\ reader = "list"
  /\ LET rest == {p \in Pids : p > cursor /\ ~Gone(p)}
     IN  IF rest = {}
         THEN reader' = "examine" /\ UNCHANGED <<cursor, to_examine>>
         ELSE /\ cursor' = Min(rest) /\ to_examine' = to_examine \cup {Min(rest)}
              /\ UNCHANGED reader
  /\ UNCHANGED <<processes, query, pids>>

\* The next process that was listed, and the rest.
Turn(p) == to_examine # {} /\ p = Min(to_examine)

Examined(p, found) ==
  /\ pids' = IF found THEN pids \cup {p} ELSE pids
  /\ to_examine' = to_examine \ {p}
  /\ reader' = "examine"

ReadTextOfFirst(p) ==
  /\ reader = "examine" /\ query.fn # "pidofexe" /\ Turn(p)
  /\ pids' = IF Attribute(query.fn, p) = query.name THEN {p} ELSE pids
  /\ to_examine' = IF pids' = {} THEN to_examine \ {p} ELSE {}
  /\ UNCHANGED <<processes, query, cursor, reader>>

ReadText(p) ==
  /\ reader = "examine" /\ query.fn # "pidofexe" /\ Turn(p)
  /\ Examined(p, Attribute(query.fn, p) = query.name)
  /\ UNCHANGED <<processes, query, cursor>>

\* path::readlink begins with is_symlink, and throws an invalid_argument for an
\* entry that is no longer there: pidofexe does not catch it.
IsSymlink(p) ==
  /\ reader = "examine" /\ query.fn = "pidofexe" /\ Turn(p)
  /\ reader' = IF Gone(p) THEN "thrown" ELSE "readlink"
  /\ UNCHANGED <<processes, query, cursor, to_examine, pids>>

ReadlinkThrowing(p) ==
  /\ reader = "readlink" /\ Turn(p)
  /\ IF ~Gone(p) /\ p \in zombies
     THEN reader' = "thrown" /\ UNCHANGED <<to_examine, pids>>
     ELSE Examined(p, ~Gone(p) /\ ~table[p].denied /\ table[p].exe = query.name)
  /\ UNCHANGED <<processes, query, cursor>>

ReadlinkDeniedToo(p) ==
  /\ reader = "readlink" /\ Turn(p)
  /\ Examined(p, ~Gone(p) /\ (table[p].denied \/ table[p].exe = query.name))
  /\ UNCHANGED <<processes, query, cursor>>

\* ENOENT (a zombie, a kernel thread) reads as the empty text; EACCES is caught and
\* the process passed over; one that is gone gives either.
Readlink(p) ==
  /\ reader = "readlink" /\ Turn(p)
  /\ IF Gone(p)
     THEN \E found \in {query.name = "", FALSE} : Examined(p, found)
     ELSE Examined(p, ~table[p].denied
                        /\ (IF p \in zombies THEN "" ELSE table[p].exe) = query.name)
  /\ UNCHANGED <<processes, query, cursor>>

ReturnPids ==
  /\ reader = "examine" /\ to_examine = {}
  /\ reader' = "returned"
  /\ UNCHANGED <<processes, query, cursor, to_examine, pids>>

PidofStep ==
  \/ CallPidof \/ proc_pids \/ ReturnPids
  \/ \E p \in Pids : ReadText(p) \/ IsSymlink(p) \/ Readlink(p)

-----------------------------------------------------------------------------
(* The other processes.                                                    *)

Happens ==
  /\ events < MaxEvents /\ events' = events + 1
  /\ reader \notin {"returned", "thrown"}
  /\ UNCHANGED <<query, reader, cursor, to_examine, pids>>

\* A new process, or the execve of one; kernel threads do neither.
Exec(p, x) ==
  /\ Happens /\ p \notin zombies /\ table[p] # x /\ x.argv0 # ""
  /\ ~Gone(p) => table[p].argv0 # ""
  /\ table' = [table EXCEPT ![p] = x]
  /\ ran' = IF reader = "idle" THEN ran ELSE ran \cup {<<p, x>>}
  /\ stayed' = stayed \ {p}
  /\ UNCHANGED <<zombies, unreaped, vanished>>

ExitProcess(p) ==
  /\ Happens /\ ~Gone(p) /\ p \notin zombies
  /\ zombies' = zombies \cup {p}
  /\ stayed' = stayed \ {p}
  /\ UNCHANGED <<table, ran, unreaped, vanished>>

ReapProcess(p) ==
  /\ Happens /\ p \in zombies
  /\ zombies' = zombies \ {p}
  /\ table' = [table EXCEPT ![p] = NoProgram]
  /\ vanished' = (reader # "idle")
  /\ UNCHANGED <<ran, unreaped, stayed>>

PidofNext ==
  \/ PidofStep
  \/ \E p \in Pids : ExitProcess(p) \/ ReapProcess(p) \/ \E x \in Programs : Exec(p, x)

PidofSpec == PidofInit /\ [][PidofNext]_PidofVars

-----------------------------------------------------------------------------
(* Properties.                                                             *)

\* Whoever may be returned: those that have run while the call lasted; and of pidof, which
\* reads the comm of a zombie too (process.cc:44-49), those that had exited before.
MayBeFound == ran \cup IF query.fn = "pidof" THEN unreaped ELSE {}

\* Every process that is returned has run the program while the call lasted, though
\* it need not do so any more, or is a zombie that pidof still finds by the name: no
\* process that took over the identifier of another is mistaken for it, and none that
\* had exited before is found by command line or executable.
\* Only the empty name, and ".", find what cannot be read (process.cc:205-246).
FoundRanIt ==
  reader = "returned" /\ query.name \notin {"", "."} =>
    \A p \in pids : \E r \in MayBeFound : r[1] = p /\ Shows(r[2], query.fn) = query.name

\* A process that ran the program all the time is found, whatever the others did and
\* however many of them could not be read, unless it may not be read itself.
MissesNone ==
  reader = "returned" =>
    \A p \in stayed :
      /\ Shows(table[p], query.fn) = query.name
      /\ query.fn = "pidofexe" => ~table[p].denied
      => p \in pids

\* Only pidofexe throws, and only after a process vanished under it: zombies, kernel
\* threads and other users' processes do not make it throw (process.cc:64, 241).
ThrowsOnlyIfVanished == reader = "thrown" => query.fn = "pidofexe" /\ vanished

\* The two together: a call that does not throw finds every process that ran the
\* program throughout, and only pidofexe throws, for a process that vanished.
FindsAll == MissesNone /\ ThrowsOnlyIfVanished
=============================================================================
