--------------------------------- MODULE RunBg ---------------------------------
(***************************************************************************)
(* shell/common/runbg.sh: a script that runs a command in the background,  *)
(* passes SIGTERM and SIGUSR1 on to it and waits for it, under "set -e".   *)
(*                                                                         *)
(* bash runs a trap between two commands, or out of a wait, which then     *)
(* returns 128 + the signal's number; a trap may interrupt a trap, and a   *)
(* signal that is pending is dropped if it is sent again.  Signals come    *)
(* after the traps were set.                                               *)
(***************************************************************************)
EXTENDS Integers, SequencesExt

CONSTANTS
  MaxSignals,   \* bound: signals sent to the script
  ByTerm,       \* statuses with which a command may end by SIGTERM, or Ignored
  ByUsr1,       \* the same for SIGUSR1
  ByItself,     \* statuses with which it may end by itself
  Ignored

ASSUME StatusAssumption == (ByTerm \cup ByUsr1 \cup ByItself) \ {Ignored} \subseteq Nat

VARIABLES
  command,      \* how the command treats the signals
  job,          \* the process: its state, and the status it ends or is to end with
  line,         \* the line of the script that is next
  PID,          \* the variable is set
  traps,        \* the handlers under way, the innermost last
  caught,       \* the signals that are pending
  sent,         \* the signals sent so far
  exit_status,
  early         \* history: SIGTERM was sent before the variable was set

RunBgVars == <<command, job, line, PID, traps, caught, sent, exit_status, early>>

Signals == {"SIGTERM", "SIGUSR1"}

RunBgInit ==
  /\ command \in [SIGTERM : ByTerm, SIGUSR1 : ByUsr1]
  /\ job = [state |-> "none", status |-> Ignored]
  /\ line = "job" /\ PID = FALSE /\ traps = <<>>
  /\ caught = {} /\ sent = <<>>
  /\ exit_status = Ignored /\ early = FALSE

Exited == line = "exited"
ExitWith(n) == line' = "exited" /\ exit_status' = n /\ traps' = <<>>

-----------------------------------------------------------------------------
(* The script's own commands, when no trap runs.                           *)

StartJob ==
  /\ traps = <<>> /\ line = "job" /\ line' = "PID"
  /\ job' = [state |-> "running", status |-> Ignored]
  /\ UNCHANGED <<PID, traps, exit_status>>

SetPID ==
  /\ traps = <<>> /\ line = "PID" /\ line' = "wait"
  /\ PID' = TRUE
  /\ UNCHANGED <<job, traps, exit_status>>

\* The last command: its status is the script's, with or without set -e.
WaitJob ==
  /\ traps = <<>> /\ line = "wait" /\ job.state = "ended"
  /\ ExitWith(job.status)
  /\ UNCHANGED <<job, PID>>

-----------------------------------------------------------------------------
(* terminate and sigusr1.                                                  *)

Frame == Last(traps)
Goes(at) == traps' = [traps EXCEPT ![Len(traps)].at = at] /\ UNCHANGED <<line, exit_status>>

\* The end of sigusr1: if it interrupted a wait, that has failed now.
EndOfSigusr1 ==
  IF Frame.interrupts THEN ExitWith(128 + 10)
  ELSE traps' = Front(traps) /\ UNCHANGED <<line, exit_status>>

EndOfReturningTrap == EndOfSigusr1
EndOfTrap == IF Frame.signal = "SIGTERM" THEN ExitWith(143) ELSE EndOfSigusr1

\* The command gets the signal and ends by it some time, or ignores it.
Receives(signal) ==
  IF job.state = "running" /\ job.status = Ignored
  THEN job' = [job EXCEPT !.status = command[signal]]
  ELSE UNCHANGED job

TrapKillOnly ==
  /\ traps # <<>> /\ Frame.at = "kill"
  /\ IF ~PID \/ job.state = "ended" THEN EndOfTrap /\ UNCHANGED job
     ELSE EndOfTrap /\ Receives(Frame.signal)
  /\ UNCHANGED PID

TrapWaitOnly ==
  /\ traps # <<>> /\ Frame.at = "kill"
  /\ IF PID THEN Goes("wait") ELSE EndOfTrap
  /\ UNCHANGED <<PID, job>>

\* kill fails, and set -e ends the script, if bash has reaped the job.
TrapKill ==
  /\ traps # <<>> /\ Frame.at = "kill"
  /\ \/ ~PID /\ EndOfTrap /\ UNCHANGED job
     \/ PID /\ Goes("wait") /\ Receives(Frame.signal)
     \/ PID /\ job.state = "ended" /\ ExitWith(1) /\ UNCHANGED job
  /\ UNCHANGED PID

\* A status other than 0 ends the script by set -e.
TrapWait ==
  /\ traps # <<>> /\ Frame.at = "wait" /\ job.state = "ended"
  /\ IF job.status # 0 THEN ExitWith(job.status) ELSE EndOfTrap
  /\ UNCHANGED <<job, PID>>

\* A trap starts between two commands, or out of the wait that was next.
StartTrap(signal) ==
  /\ signal \in caught /\ caught' = caught \ {signal} /\ ~Exited
  /\ \E interrupts \in BOOLEAN :
       /\ interrupts => IF traps = <<>> THEN line = "wait" ELSE Frame.at = "wait"
       /\ traps' = Append(traps, [signal |-> signal, at |-> "kill", interrupts |-> interrupts])
  /\ UNCHANGED <<command, job, line, PID, sent, exit_status, early>>

Script ==
  /\ StartJob \/ SetPID \/ WaitJob \/ TrapKill \/ TrapWait
  /\ UNCHANGED <<command, caught, sent, early>>

-----------------------------------------------------------------------------

JobEnds ==
  /\ job.state = "running"
  /\ IF job.status # Ignored THEN job' = [job EXCEPT !.state = "ended"]
     ELSE \E n \in ByItself : job' = [state |-> "ended", status |-> n]
  /\ UNCHANGED <<command, line, PID, traps, caught, sent, exit_status, early>>

SendSignal ==
  /\ ~Exited /\ Len(sent) < MaxSignals
  /\ \E signal \in Signals :
       /\ sent' = Append(sent, signal) /\ caught' = caught \cup {signal}
       /\ early' = (early \/ (signal = "SIGTERM" /\ ~PID))
  /\ UNCHANGED <<command, job, line, PID, traps, exit_status>>

RunBgNext == Script \/ JobEnds \/ SendSignal \/ \E signal \in Signals : StartTrap(signal)

\* The script goes on, takes its signals, and a job that is to end ends.
RunBgSpec ==
  /\ RunBgInit /\ [][RunBgNext]_RunBgVars
  /\ WF_RunBgVars(Script)
  /\ \A signal \in Signals : WF_RunBgVars(StartTrap(signal))
  /\ WF_RunBgVars(job.status # Ignored /\ JobEnds)

-----------------------------------------------------------------------------
(* Properties.                                                             *)

\* However the signals come and whatever the job makes of them, the script leaves no
\* job behind, but for a SIGTERM before PID=$! has run (runbg.sh:26-28).
NoOrphan == Exited /\ job.state = "running" => early

\* A script that was not disturbed has the status of its job; one that says 0 had a job
\* that ended with 0; and none says 0 that has begun to terminate, although set -e
\* makes the status the job's own, 1 or 138, rather than the 143 of the last
\* line of terminate (runbg.sh:8-21).
StatusSays ==
  Exited =>
    /\ sent = <<>> => exit_status = job.status
    /\ exit_status = 0 => job = [state |-> "ended", status |-> 0]
    /\ "SIGTERM" \in ToSet(sent) \ caught => exit_status # 0

\* A SIGTERM that the job ends by ends the script, even amid other traps, unless
\* SIGUSR1 comes between the start of terminate and its kill: then the script
\* waits in sigusr1 for a job that may ignore that signal.
TermEnds ==
  "SIGTERM" \in ToSet(sent) /\ command.SIGTERM # Ignored ~>
    \/ Exited
    \/ \E i, j \in DOMAIN traps :
         /\ i < j /\ traps[i].signal = "SIGTERM" /\ traps[i].at = "kill"
         /\ traps[j].signal = "SIGUSR1" /\ command.SIGUSR1 = Ignored

\* The two together, for a script that has exited (runbg.sh:8-29).
ExitMeansEnded == NoOrphan /\ StatusSays
=============================================================================
