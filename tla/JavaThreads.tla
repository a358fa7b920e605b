------------------------------ MODULE JavaThreads ------------------------------
(***************************************************************************)
(* SyncObjectTests and ThreadStopTests: how threads are made to wait and   *)
(* to stop, by a monitor, by a flag and by an interrupt.  A sleep is any   *)
(* delay that an interrupt may end; a wait may end without a reason        *)
(* (Object.wait).  Loops of counted rounds are one step.                   *)
(***************************************************************************)
EXTENDS Integers, FiniteSets

CONSTANTS Workers     \* of SyncObjectTests, t1 and t2 in the code
ASSUME WorkersAssumption == IsFiniteSet(Workers) /\ Workers # {}

VARIABLES
  demo,         \* the test that runs
  main_at,      \* where its thread is
  at,           \* at[w]: where worker w is
  monitor,      \* the threads that own the monitor, one at most
  wait_set,     \* the workers in LOCAL_SYNC_OBJ.wait()
  interrupt,    \* the interrupt status of the worker
  running,      \* the flag
  late          \* history: workers that came to wait after notifyAll

JavaVars == <<demo, main_at, at, monitor, wait_set, interrupt, running, late>>

Demos == {"objectMonitorLock", "threadTerminateByAtomicBoolean", "threadTerminateByInterrupt"}
Worker1 == CHOOSE w \in Workers : TRUE
Started == IF demo = "objectMonitorLock" THEN Workers ELSE {Worker1}

JavaInit ==
  /\ demo \in Demos
  /\ main_at = "start" /\ at = [w \in Workers |-> "new"]
  /\ monitor = {} /\ wait_set = {} /\ interrupt = FALSE /\ running = TRUE /\ late = {}

MainGoes(from, to) == main_at = from /\ main_at' = to
Goes1(w, from, to) == at[w] = from /\ at' = [at EXCEPT ![w] = to]

-----------------------------------------------------------------------------
(* The threads of objectMonitorLock.                                       *)

Enter(w) == /\ Goes1(w, "loop", "enter") /\ demo = "objectMonitorLock"
            /\ UNCHANGED <<monitor, wait_set, late>>

\* synchronized, and wait, which gives the monitor up.
Acquire(w) ==
  /\ Goes1(w, "enter", "owner") /\ monitor = {} /\ monitor' = {w}
  /\ UNCHANGED <<wait_set, late>>

WaitOn(w) ==
  /\ Goes1(w, "owner", "waiting")
  /\ monitor' = {} /\ wait_set' = wait_set \cup {w}
  /\ late' = IF main_at = "join" THEN late \cup {w} ELSE late

\* The end of wait: the worker is no longer in the set, and gets the monitor again.
Reacquire(w) ==
  /\ Goes1(w, "waiting", "leaving")
  /\ w \notin wait_set /\ monitor = {} /\ monitor' = {w}
  /\ UNCHANGED <<wait_set, late>>

Release(w) ==
  /\ Goes1(w, "leaving", "end") /\ monitor' = {}
  /\ UNCHANGED <<wait_set, late>>

SpuriousWakeup(w) ==
  /\ w \in wait_set /\ wait_set' = wait_set \ {w}
  /\ UNCHANGED <<demo, main_at, at, monitor, interrupt, running, late>>

MonitorWorker(w) ==
  /\ Enter(w) \/ Acquire(w) \/ WaitOn(w) \/ Reacquire(w) \/ Release(w)
  /\ UNCHANGED <<interrupt, running>>

-----------------------------------------------------------------------------
(* The loops of threadTerminateByAtomicBoolean and -ByInterrupt.           *)

TestFlag ==
  /\ at[Worker1] = "loop" /\ demo = "threadTerminateByAtomicBoolean"
  /\ at' = [at EXCEPT ![Worker1] = IF running THEN "sleep" ELSE "end"]
  /\ UNCHANGED interrupt

Work == /\ Goes1(Worker1, "loop", "sleep") /\ demo = "threadTerminateByInterrupt"
        /\ UNCHANGED interrupt

AfterSleep == IF demo = "threadTerminateByInterrupt" THEN "interrupted()" ELSE "loop"

Sleep == /\ Goes1(Worker1, "sleep", AfterSleep) /\ ~interrupt /\ UNCHANGED interrupt

InterruptedSleepForgets ==
  /\ Goes1(Worker1, "sleep", AfterSleep) /\ interrupt /\ interrupt' = FALSE

\* InterruptedException clears the status; the handler of -ByInterrupt restores it.
InterruptedSleep ==
  /\ Goes1(Worker1, "sleep", AfterSleep) /\ interrupt
  /\ interrupt' = (demo = "threadTerminateByInterrupt")

\* Thread.interrupted() clears it again.
TestInterrupted ==
  /\ at[Worker1] = "interrupted()" /\ interrupt' = FALSE
  /\ at' = [at EXCEPT ![Worker1] = IF interrupt THEN "end" ELSE "loop"]

LoopingWorker ==
  /\ TestFlag \/ Work \/ Sleep \/ InterruptedSleep \/ TestInterrupted
  /\ UNCHANGED <<monitor, wait_set, running, late>>

-----------------------------------------------------------------------------

MainStarts ==
  /\ MainGoes("start", "sleep")
  /\ at' = [w \in Workers |-> IF w \in Started THEN "loop" ELSE "new"]
  /\ UNCHANGED <<monitor, wait_set, interrupt, running>>

\* After its sleep, the main thread tells the workers to go on or to stop.
NotifyOne ==
  /\ demo = "objectMonitorLock" /\ MainGoes("sleep", "join") /\ monitor = {}
  /\ IF wait_set = {} THEN UNCHANGED wait_set ELSE \E w \in wait_set : wait_set' = wait_set \ {w}
  /\ UNCHANGED <<at, monitor, interrupt, running>>

NotifyAll ==
  /\ demo = "objectMonitorLock" /\ MainGoes("sleep", "join") /\ monitor = {}
  /\ wait_set' = {}
  /\ UNCHANGED <<at, monitor, interrupt, running>>

SetFlag ==
  /\ demo = "threadTerminateByAtomicBoolean" /\ MainGoes("sleep", "join")
  /\ running' = FALSE
  /\ UNCHANGED <<at, monitor, wait_set, interrupt>>

Interrupt ==
  /\ demo = "threadTerminateByInterrupt" /\ MainGoes("sleep", "join")
  /\ interrupt' = TRUE
  /\ UNCHANGED <<at, monitor, wait_set, running>>

JoinWorkers ==
  /\ MainGoes("join", "end") /\ \A w \in Started : at[w] = "end"
  /\ UNCHANGED <<at, monitor, wait_set, interrupt, running>>

MainThread ==
  /\ MainStarts \/ NotifyAll \/ SetFlag \/ Interrupt \/ JoinWorkers
  /\ UNCHANGED late

JavaStep ==
  /\ MainThread \/ (UNCHANGED main_at /\ (LoopingWorker \/ \E w \in Workers : MonitorWorker(w)))
  /\ UNCHANGED demo

JavaNext == JavaStep \/ \E w \in Workers : SpuriousWakeup(w)

\* Every thread is scheduled. The monitor is taken only so often that none needs more.
WorkerStep(w) == MonitorWorker(w) /\ UNCHANGED <<demo, main_at>>
JavaSpec ==
  /\ JavaInit /\ [][JavaNext]_JavaVars
  /\ WF_JavaVars(MainThread /\ UNCHANGED demo)
  /\ WF_JavaVars(LoopingWorker /\ UNCHANGED <<demo, main_at>>)
  /\ \A w \in Workers : WF_JavaVars(WorkerStep(w))

-----------------------------------------------------------------------------
(* Properties.                                                             *)

\* The join of the main thread returns, whenever its sleep ends and whatever the
\* worker is doing then: an interrupt is seen although the sleep consumes it, and
\* only a worker that comes to wait after notifyAll is waited for in vain
\* (SyncObjectTests.java:48, 108; ThreadStopTests.java:84-100).
JoinReturns == main_at = "sleep" ~> main_at = "end" \/ late # {}
=============================================================================
