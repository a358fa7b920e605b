-------------------------- MODULE ProcessWaitProofs --------------------------
(***************************************************************************)
(* Theorems of ProcessWait for any set of children and any durations.      *)
(***************************************************************************)
EXTENDS ProcessWait, TLAPS

\* What the functions know of their target where they stand: wait_for's loop ran
\* for an existing process, a SIGCHLD about a termination names a process that
\* is dead for good, and wait_for reaches waitpid only with a SIGCHLD in hand.
Locals ==
  /\ pc # "idle" => target \in Children
  /\ pc \in {"loop", "sigtimedwait", "restore"} => fn = "wait_for"
  /\ pc = "waitpid" /\ fn = "wait_for" => wait_result = SIGCHLD
  /\ wait_result = SIGCHLD => info # NoChild

Terminations ==
  \A c \in Children :
    [pid |-> c, code |-> "term"] \in {info, pending} => child[c] \in {"zombie", "reaped"}

Reported ==
  outcome.kind = "status" => outcome.pid \in Children

Inv == TypeOK /\ Locals /\ Terminations /\ Reported /\ StatusIsTargets

LEMMA InitInv == Init => Inv
<1> SUFFICES ASSUME Init PROVE Inv
  OBVIOUS
<1> USE PidAssumption, DurationAssumption DEF Init
<1>1. child \in [Children -> Live \cup {"none", "zombie", "reaped"}] 
  BY DEF TypeOK
<1>11. outcome \in [kind : {"none", "status", "timeout", "error"}, pid : Children \cup {NoPid}]
  BY DEF TypeOK
<1>12. left \in 0 .. MaxDuration
  BY DEF TypeOK
<1>13. wait_result \in {-1, 0, SIGCHLD}
  BY DEF TypeOK, SIGCHLD
<1>14. TypeOK
  BY <1>1, <1>11, <1>12, <1>13 DEF TypeOK
<1>2. Locals
  BY DEF Locals, NoChild, SIGCHLD
<1>3. Terminations
  BY DEF Terminations, NoChild
<1>4. Reported /\ StatusIsTargets
  BY DEF Reported, StatusIsTargets
<1>5. QED
  BY <1>14, <1>2, <1>3, <1>4 DEF Inv

\* A call that ends leaves well-typed locals, and reports on its own process.
LEMMA LeaveType ==
  ASSUME TypeOK, Locals, pc # "idle",
         NEW kind \in {"status", "timeout", "error"}, Leave(kind)
  PROVE  /\ pc' = "idle" /\ fn' \in {"none", "wait", "wait_for"}
         /\ target' \in Children \cup {NoPid}
         /\ left' \in 0 .. MaxDuration /\ sigold' \in BOOLEAN
         /\ info' = NoChild /\ wait_result' = 0
         /\ outcome' \in [kind : {"none", "status", "timeout", "error"},
                          pid : Children \cup {NoPid}]
         /\ outcome'.kind = kind /\ outcome'.pid = target /\ target \in Children
<1>1. outcome' = [kind |-> kind, pid |-> target] /\ target \in Children
  BY DEF Leave, Locals
<1>2. /\ outcome' \in [kind : {"none", "status", "timeout", "error"},
                     pid : Children \cup {NoPid}]
      /\ outcome'.kind = kind /\ outcome'.pid = target
  BY <1>1
<1>3. 0 \in 0 .. MaxDuration
  BY DurationAssumption
<1>4. QED
  BY <1>1, <1>2, <1>3 DEF Leave

LEMMA NextInv == Inv /\ [Next]_vars => Inv'
<1> SUFFICES ASSUME Inv, [Next]_vars PROVE Inv'
  OBVIOUS
<1> USE PidAssumption, DurationAssumption
    DEF Inv, TypeOK, Locals, Terminations, Reported, StatusIsTargets, NoChild, SIGCHLD,
        kernel, locals, Live
<1>1. ASSUME NEW c \in Children, Execute(c) PROVE Inv'
  BY <1>1 DEF Execute
<1>2. ASSUME NEW c \in Children, CallWait(c) PROVE Inv'
  BY <1>2 DEF CallWait
<1>3. ASSUME NEW c \in Children, NEW d \in 0 .. MaxDuration, CallWaitFor(c, d) PROVE Inv'
  BY <1>3 DEF CallWaitFor
<1>4. CASE Loop
  BY <1>4 DEF Loop
<1>5. CASE TakeSignal
  BY <1>5 DEF TakeSignal
<1>6. CASE NoSignal
  BY <1>6 DEF NoSignal
<1>7. CASE Restore
  <2>1. CASE Leave("timeout")
    BY <1>7, <2>1, LeaveType DEF Restore
  <2>2. CASE pc' = "waitpid"
    BY <1>7, <2>2 DEF Restore, Leave
  <2>3. QED
    BY <1>7, <2>1, <2>2 DEF Restore
<1>8. CASE Reap
  <2> DEFINE kind == IF cause[target] = "exited" THEN "status" ELSE "error"
  <2>1. Leave(kind)
    BY <1>8 DEF Reap
  <2> HIDE DEF kind
  <2>2. kind \in {"status", "error"} /\ (kind = "status" => cause[target] = "exited")
    BY DEF kind
  <2>3. pc = "waitpid" /\ pc # "idle"
    BY <1>8 DEF Reap
  <2>4. QED
    BY <1>8, <2>1, <2>2, <2>3, LeaveType DEF Reap
<1>9. CASE WaitFails
  BY <1>9, LeaveType DEF WaitFails
<1>10. ASSUME NEW c \in Children, Exec(c) PROVE Inv'
  BY <1>10 DEF Exec
<1>11. ASSUME NEW c \in Children, StopOrContinue(c) PROVE Inv'
  BY <1>11 DEF StopOrContinue, Send
<1>12. ASSUME NEW c \in Children, NEW how \in {"exited", "signaled"}, Terminate(c, how)
       PROVE  Inv'
  BY <1>12 DEF Terminate, Send
<1>13. CASE Tick
  BY <1>13 DEF Tick
<1>14. CASE UNCHANGED vars
  BY <1>14 DEF vars
<1>15. QED
  BY <1>1, <1>2, <1>3, <1>4, <1>5, <1>6, <1>7, <1>8, <1>9, <1>10, <1>11, <1>12, <1>13,
     <1>14 DEF Next, Calls, Parent, Environment

\* The variables keep their types, for any number of children and any duration.
THEOREM TypeCorrect == Spec => []TypeOK
<1>1. Inv => TypeOK
  BY DEF Inv
<1>2. QED
  BY <1>1, InitInv, NextInv, PTL DEF Spec

\* wait_for outlives its duration only after a SIGCHLD that was not about the
\* termination of its process (process.cc:168-194).
THEOREM BlocksOnlyAfterForeign == Spec => []BlocksOnlyAfterForeignSignal
<1>1. Inv => BlocksOnlyAfterForeignSignal
  BY DEF Inv, TypeOK, Locals, Terminations, BlocksOnlyAfterForeignSignal, Live
<1>2. QED
  BY <1>1, InitInv, NextInv, PTL DEF Spec

\* A status that was reported is that of a process that exited and was reaped
\* (process.cc:129-141).
THEOREM StatusSound == Spec => []StatusIsTargets
<1>1. Inv => StatusIsTargets
  BY DEF Inv
<1>2. QED
  BY <1>1, InitInv, NextInv, PTL DEF Spec

\* Between its calls the caller's mask is the one it started with, b.
Masked(b) ==
  /\ pc \in {"idle", "waitpid"} => blocked = b
  /\ pc \in {"loop", "sigtimedwait", "restore"} => sigold = b

\* However wait_for ends, it leaves the signal mask of its caller (process.cc:181-186).
THEOREM MaskRestored == Spec => CallersMask
<1>1. ASSUME NEW b \in BOOLEAN PROVE Init /\ blocked = b => Masked(b)
  BY DEF Init, Masked
<1>2. ASSUME NEW b \in BOOLEAN PROVE Inv /\ Masked(b) /\ [Next]_vars => Masked(b)'
  BY DEF Inv, TypeOK, Masked, Next, Calls, Parent, Environment, vars, kernel, locals, Leave,
     Execute, CallWait, CallWaitFor, Loop, TakeSignal, NoSignal, Restore, Reap, WaitFails,
     Exec, StopOrContinue, Terminate, Tick
<1>3. ASSUME NEW b \in BOOLEAN PROVE Masked(b) => (pc = "idle" => blocked = b)
  BY DEF Masked
<1>4. ASSUME NEW b \in BOOLEAN
      PROVE  Spec => (blocked = b => [](pc = "idle" => blocked = b))
  BY <1>1, <1>2, <1>3, InitInv, NextInv, PTL DEF Spec
<1>5. QED
  BY <1>4 DEF CallersMask

=============================================================================
