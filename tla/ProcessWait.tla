----------------------------- MODULE ProcessWait -----------------------------
(***************************************************************************)
(* util::process of cxx/src/util/process.cc: execute, wait and wait_for.   *)
(*                                                                         *)
(* One thread of the parent calls the three functions on its children; the *)
(* children and the kernel's treatment of SIGCHLD are the environment:     *)
(*   - SIGCHLD has its default disposition (ignore): sent while the parent *)
(*     does not block it, it is discarded;                                 *)
(*   - it is a standard signal: while one is pending, others are dropped,  *)
(*     and siginfo is that of the first.                                   *)
(* Process identifiers are not reused.  A call that fails its argument     *)
(* checks changes nothing and is left out.                                 *)
(***************************************************************************)
EXTENDS Integers

CONSTANTS
  Children,      \* the pids that fork() may return to the parent
  NoPid,         \* 0, which is no process
  MaxDuration,   \* bound: the longest duration given to wait_for, in ticks
  Stops,         \* TRUE: children may be stopped and continued (job control)
  Handlers       \* TRUE: some signal has a handler without SA_RESTART

ASSUME DurationAssumption == MaxDuration \in Nat
ASSUME FlagAssumption == Stops \in BOOLEAN /\ Handlers \in BOOLEAN

ASSUME PidAssumption == NoPid \notin Children

NoChild == [pid |-> NoPid, code |-> "none"]   \* si_pid = 0; nothing is pending
SIGCHLD == 17

VARIABLES
  child,      \* child[c]: the kernel's state of the process
  cause,      \* cause[c]: how it terminated (what waitpid's status says)
  blocked,    \* SIGCHLD is in the parent's signal mask
  pending,    \* siginfo of the pending SIGCHLD, or NoChild
  pc,         \* where the parent is in the functions below
  fn,         \* the function it is in
  target,     \* parameter pid
  left,       \* d - (now - begin), not below 0
  sigold,     \* was SIGCHLD blocked when wait_for was called
  info,       \* siginfo filled by sigtimedwait
  wait_result,
  outcome     \* how the last call ended

kernel == <<child, cause, pending>>
locals == <<fn, target, sigold>>
vars   == <<child, cause, blocked, pending, pc, fn, target, left, sigold, info,
            wait_result, outcome>>

Live == {"forked", "unwinding", "running", "stopped"}

TypeOK ==
  /\ child \in [Children -> Live \cup {"none", "zombie", "reaped"}]
  /\ cause \in [Children -> {"none", "exited", "signaled"}]
  /\ blocked \in BOOLEAN
  /\ pending \in [pid : Children, code : {"term", "jobctl"}] \cup {NoChild}
  /\ pc \in {"idle", "loop", "sigtimedwait", "restore", "waitpid"}
  /\ fn \in {"none", "wait", "wait_for"}
  /\ target \in Children \cup {NoPid}
  /\ left \in 0 .. MaxDuration
  /\ sigold \in BOOLEAN
  /\ info \in [pid : Children, code : {"term", "jobctl"}] \cup {NoChild}
  /\ wait_result \in {-1, 0, SIGCHLD}
  /\ outcome \in [kind : {"none", "status", "timeout", "error"},
                  pid : Children \cup {NoPid}]

Init ==
  /\ child = [c \in Children |-> "none"]
  /\ cause = [c \in Children |-> "none"]
  /\ blocked \in BOOLEAN
  /\ pending = NoChild
  /\ pc = "idle" /\ fn = "none" /\ target = NoPid
  /\ left = 0 /\ sigold = FALSE
  /\ info = NoChild /\ wait_result = 0
  /\ outcome = [kind |-> "none", pid |-> NoPid]

-----------------------------------------------------------------------------
(* The children and the kernel.                                            *)

\* The kernel sends SIGCHLD with siginfo s: discarded while SIGCHLD is
\* unblocked, merged into the one that is already pending.
Send(s) == pending' = IF blocked /\ pending = NoChild THEN s ELSE pending

\* The child's side of execute: set_stdio, then execve.  execve may throw (the
\* file is no longer executable, ::execve fails); the exception then unwinds
\* the child's copy of the caller.
Exec(c) ==
  /\ child[c] = "forked"
  /\ \E s \in {"running", "unwinding"} : child' = [child EXCEPT ![c] = s]
  /\ UNCHANGED <<cause, blocked, pending, pc, left, locals, info, wait_result, outcome>>

Terminate(c, how) ==
  /\ child[c] \in Live
  /\ child[c] \in {"forked", "stopped"} => how = "signaled"
  /\ child' = [child EXCEPT ![c] = "zombie"]
  /\ cause' = [cause EXCEPT ![c] = how]
  /\ Send([pid |-> c, code |-> "term"])
  /\ UNCHANGED <<blocked, pc, left, locals, info, wait_result, outcome>>

\* Job control: both directions are reported to the parent by SIGCHLD.
StopOrContinue(c) ==
  /\ Stops
  /\ \/ child[c] = "running" /\ child' = [child EXCEPT ![c] = "stopped"]
     \/ child[c] = "stopped" /\ child' = [child EXCEPT ![c] = "running"]
  /\ Send([pid |-> c, code |-> "jobctl"])
  /\ UNCHANGED <<cause, blocked, pc, left, locals, info, wait_result, outcome>>

TickPastZero ==
  /\ left' = left - 1
  /\ UNCHANGED <<kernel, blocked, pc, locals, info, wait_result, outcome>>

Tick ==
  /\ left > 0
  /\ left' = left - 1
  /\ UNCHANGED <<kernel, blocked, pc, locals, info, wait_result, outcome>>

-----------------------------------------------------------------------------
(* The parent.                                                             *)

\* execute, in the parent: fork() succeeded and its pid is returned.
Execute(c) ==
  /\ pc = "idle"
  /\ child[c] = "none"
  /\ child' = [child EXCEPT ![c] = "forked"]
  /\ UNCHANGED <<cause, blocked, pending, pc, left, locals, info, wait_result, outcome>>

CallWait(c) ==
  /\ pc = "idle"
  /\ child[c] # "none"
  /\ pc' = "waitpid" /\ fn' = "wait" /\ target' = c
  /\ UNCHANGED <<kernel, blocked, left, sigold, info, wait_result, outcome>>

\* wait_for up to its loop: SIGCHLD is blocked, the old mask kept, time starts.
CallWaitFor(c, d) ==
  /\ pc = "idle"
  /\ child[c] # "none"
  /\ sigold' = blocked
  /\ blocked' = TRUE
  /\ wait_result' = 0
  /\ info' = NoChild
  /\ left' = d
  /\ pc' = "loop" /\ fn' = "wait_for" /\ target' = c
  /\ UNCHANGED <<kernel, outcome>>

\* The loop's condition and its test of the time left.
Loop ==
  /\ pc = "loop"
  /\ \/ /\ info.pid = target \/ wait_result # 0
        /\ pc' = "restore"
        /\ UNCHANGED wait_result
     \/ /\ info.pid # target /\ wait_result = 0
        /\ left = 0
        /\ wait_result' = -1
        /\ UNCHANGED pc
     \/ /\ info.pid # target /\ wait_result = 0
        /\ left > 0
        /\ pc' = "sigtimedwait"
        /\ UNCHANGED wait_result
  /\ UNCHANGED <<kernel, blocked, left, locals, info, outcome>>

\* sigtimedwait takes the pending SIGCHLD, whichever child it is about.
TakeSignal ==
  /\ pc = "sigtimedwait"
  /\ pending # NoChild
  /\ info' = pending
  /\ pending' = NoChild
  /\ wait_result' = SIGCHLD
  /\ pc' = "loop"
  /\ UNCHANGED <<child, cause, blocked, left, locals, outcome>>

\* sigtimedwait returns -1: EAGAIN when the time is over, EINTR when a handler ran.
NoSignal ==
  /\ pc = "sigtimedwait"
  /\ pending = NoChild
  /\ left = 0 \/ Handlers
  /\ wait_result' = -1
  /\ pc' = "loop"
  /\ UNCHANGED <<kernel, blocked, left, locals, info, outcome>>

\* A call ends: the exception or the status reaches the caller.
Leave(kind) ==
  /\ pc' = "idle" /\ fn' = "none" /\ target' = NoPid
  /\ left' = 0 /\ sigold' = FALSE /\ info' = NoChild /\ wait_result' = 0
  /\ outcome' = [kind |-> kind, pid |-> target]

RestoreIgnoringTimeout ==
  /\ pc = "restore"
  /\ blocked' = sigold
  /\ pending' = IF sigold THEN pending ELSE NoChild
  /\ pc' = "waitpid"
  /\ UNCHANGED <<child, cause, left, locals, info, wait_result, outcome>>

RestoreAfterThrow ==
  /\ pc = "restore"
  /\ \/ wait_result = -1 /\ Leave("timeout") /\ UNCHANGED <<blocked, pending>>
     \/ /\ wait_result = SIGCHLD
        /\ blocked' = sigold
        /\ pending' = IF sigold THEN pending ELSE NoChild
        /\ pc' = "waitpid"
        /\ UNCHANGED <<left, locals, info, wait_result, outcome>>
  /\ UNCHANGED <<child, cause>>

\* After the loop: SIGCHLD is unblocked if it was not blocked before (a pending
\* one is then delivered, that is, ignored), and the result of the loop decides.
Restore ==
  /\ pc = "restore"
  /\ blocked' = sigold
  /\ pending' = IF sigold THEN pending ELSE NoChild
  /\ \/ wait_result = -1 /\ Leave("timeout")
     \/ /\ wait_result = SIGCHLD
        /\ pc' = "waitpid"
        /\ UNCHANGED <<left, locals, info, wait_result, outcome>>
  /\ UNCHANGED <<child, cause>>

ReapAnyStatus ==
  /\ pc = "waitpid"
  /\ child[target] = "zombie"
  /\ child' = [child EXCEPT ![target] = "reaped"]
  /\ Leave("status")
  /\ UNCHANGED <<cause, blocked, pending>>

\* waitpid finds the zombie and reaps it; only a normal exit has a status.
Reap ==
  /\ pc = "waitpid"
  /\ child[target] = "zombie"
  /\ child' = [child EXCEPT ![target] = "reaped"]
  /\ Leave(IF cause[target] = "exited" THEN "status" ELSE "error")
  /\ UNCHANGED <<cause, blocked, pending>>

\* waitpid fails: the child was reaped before (ECHILD), or a handler ran (EINTR).
WaitFails ==
  /\ pc = "waitpid"
  /\ \/ child[target] = "reaped"
     \/ Handlers /\ child[target] \in Live
  /\ Leave("error")
  /\ UNCHANGED <<kernel, blocked>>

Parent == Loop \/ TakeSignal \/ NoSignal \/ Restore \/ Reap \/ WaitFails

Calls == \E c \in Children :
  \/ Execute(c) \/ CallWait(c)
  \/ \E d \in 0 .. MaxDuration : CallWaitFor(c, d)

Environment ==
  \/ \E c \in Children :
       \/ Exec(c) \/ StopOrContinue(c)
       \/ \E how \in {"exited", "signaled"} : Terminate(c, how)
  \/ Tick

Next == Calls \/ Parent \/ Environment

Spec == Init /\ [][Next]_vars

\* What the parent's thread does without the help of a handler that interrupts it.
Progress ==
  \/ Loop \/ TakeSignal \/ Restore \/ Reap
  \/ NoSignal /\ left = 0
  \/ WaitFails /\ child[target] = "reaped"

\* The parent's thread is scheduled and time passes; nothing is assumed of the
\* children, which may run for ever, nor of handlers.
FairSpec == Spec /\ WF_vars(Progress) /\ WF_vars(Tick)

-----------------------------------------------------------------------------
(* Properties.                                                             *)

\* wait_for is blocked in its waitpid, where no duration bounds it, only after
\* sigtimedwait took a SIGCHLD that was not about the termination of its process:
\* another child's, or a stop or continue of its own.  After its own process's
\* SIGCHLD the process is a zombie (or was reaped before the call, the signal
\* being left over in a mask that blocked it) and waitpid returns at once.
BlocksOnlyAfterForeignSignal ==
  pc = "waitpid" /\ fn = "wait_for" /\ child[target] \in Live
    => info \notin {NoChild, [pid |-> target, code |-> "term"]}

\* An exit status is only ever reported for the process that was asked for,
\* after it exited by itself; that process is then reaped, and no other call
\* reports it again.
StatusIsTargets ==
  outcome.kind = "status"
    => child[outcome.pid] = "reaped" /\ cause[outcome.pid] = "exited"

\* Whatever the calls and however they end (status, timeout_error,
\* runtime_error), the caller runs with the signal mask it started with.
CallersMask ==
  \A b \in BOOLEAN : blocked = b => [](pc = "idle" => blocked = b)

\* timeout_error says that the process "is not terminated normally within given
\* duration" (process.h:70-71): sigtimedwait does not time out on a process that
\* has exited by then.
TimeoutMeansNotExited ==
  [][pc = "sigtimedwait" /\ wait_result' = -1 =>
       ~(child[target] = "zombie" /\ cause[target] = "exited")]_vars

\* wait_for returns, by a status or by an exception, even if the process never
\* terminates: the promise of timeout_error (process.h:70-71).
WaitForReturns == fn = "wait_for" ~> pc = "idle"

\* What is left of that promise: wait_for returns, or the first SIGCHLD it took
\* was not about the termination of its process.
ReturnsUnlessForeignSignal ==
  fn = "wait_for" ~>
    \/ pc = "idle"
    \/ pc = "waitpid" /\ info \notin {NoChild, [pid |-> target, code |-> "term"]}

=============================================================================
