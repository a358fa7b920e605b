-------------------------------- MODULE MCParts --------------------------------
(***************************************************************************)
(* The parts of the repository that are functions or small protocols, each *)
(* by itself: a behaviour is one of one part, chosen at the start, and the *)
(* state of the others stays as it is.                                     *)
(***************************************************************************)
EXTENDS Library, Slices, Pidof, Firewall, CmdPipe, RunBg, JavaThreads

VARIABLE part

Parts == {"library", "slices", "pidof", "firewall", "cmdpipe", "runbg", "javathreads"}

PartVars == <<LibraryVars, vars, PidofVars, FirewallVars, CmdVars, RunBgVars, JavaVars, part>>

Is(name) == part = name

\* The parts that do not run start in one state.
PartsInit ==
  /\ part \in Parts
  /\ LibraryInit /\ (Is("library") \/ zone.std = 0)
  /\ Init        /\ (Is("slices") \/ heap = <<>>)
  /\ PidofInit
  /\ FirewallInit /\ (Is("firewall") \/ iptables = "found")
  /\ CmdInit      /\ (Is("cmdpipe") \/ output = <<>>)
  /\ RunBgInit    /\ (Is("runbg") \/ command = [SIGTERM |-> Ignored, SIGUSR1 |-> Ignored])
  /\ JavaInit     /\ (Is("javathreads") \/ demo = "objectMonitorLock")

PartsNext ==
  \/ Is("library") /\ LibraryNext
     /\ UNCHANGED <<part, vars, PidofVars, FirewallVars, CmdVars, RunBgVars, JavaVars>>
  \/ Is("slices") /\ Next
     /\ UNCHANGED <<part, LibraryVars, PidofVars, FirewallVars, CmdVars, RunBgVars, JavaVars>>
  \/ Is("pidof") /\ PidofNext
     /\ UNCHANGED <<part, LibraryVars, vars, FirewallVars, CmdVars, RunBgVars, JavaVars>>
  \/ Is("firewall") /\ FirewallNext
     /\ UNCHANGED <<part, LibraryVars, vars, PidofVars, CmdVars, RunBgVars, JavaVars>>
  \/ Is("cmdpipe") /\ CmdNext
     /\ UNCHANGED <<part, LibraryVars, vars, PidofVars, FirewallVars, RunBgVars, JavaVars>>
  \/ Is("runbg") /\ RunBgNext
     /\ UNCHANGED <<part, LibraryVars, vars, PidofVars, FirewallVars, CmdVars, JavaVars>>
  \/ Is("javathreads") /\ JavaNext
     /\ UNCHANGED <<part, LibraryVars, vars, PidofVars, FirewallVars, CmdVars, RunBgVars>>

\* The fairness of CmdSpec, RunBgSpec and JavaSpec.
PartsSpec ==
  /\ PartsInit /\ [][PartsNext]_PartVars
  /\ WF_CmdVars(Is("cmdpipe") /\ Command)
  /\ WF_CmdVars(Is("cmdpipe") /\ Reader)
  /\ WF_RunBgVars(Is("runbg") /\ Script)
  /\ \A signal \in Signals : WF_RunBgVars(Is("runbg") /\ StartTrap(signal))
  /\ WF_RunBgVars(Is("runbg") /\ job.status # Ignored /\ JobEnds)
  /\ WF_JavaVars(Is("javathreads") /\ MainThread /\ UNCHANGED demo)
  /\ WF_JavaVars(Is("javathreads") /\ LoopingWorker /\ UNCHANGED <<demo, main_at>>)
  /\ \A w \in Workers : WF_JavaVars(Is("javathreads") /\ WorkerStep(w))

-----------------------------------------------------------------------------
\* UTC, Korea, and the American east, where daylight saving lasts from minute 600
\* to minute 1800 of standard time.
MCZones == {[std |-> 0, from |-> 0, to |-> 0], [std |-> 540, from |-> 0, to |-> 0],
            [std |-> -300, from |-> 600, to |-> 1800]}
MCWalls == {120 * h + 30 : h \in 0 .. 23}

\* A shell, one of another user that was started by its path, which is a link, and a
\* kernel thread.
sh  == [comm |-> "sh", argv0 |-> "sh", file |-> "sh", exe |-> "/bin/sh", denied |-> FALSE]
shd == [comm |-> "sh", argv0 |-> "/bin/sh", file |-> "sh", exe |-> "/bin/dash", denied |-> TRUE]
kt  == [comm |-> "kt", argv0 |-> "", file |-> ".", exe |-> "", denied |-> FALSE]
MCPrograms == {sh, shd, kt}
MCAtStart == <<shd, kt, sh>>
=============================================================================
