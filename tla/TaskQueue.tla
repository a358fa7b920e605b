------------------------------ MODULE TaskQueue ------------------------------
(***************************************************************************)
(* concurrentAndPararrel of CompletableFutureTests.java: workers of a      *)
(* thread pool drain a shared LinkedList.  poll is synchronized, the test  *)
(* isEmpty of their loop is not, and may read an old size.                 *)
(***************************************************************************)
EXTENDS Integers, FiniteSets

CONSTANTS
  Workers,    \* the asynchronous runs, 5 in the code
  PoolSize,   \* threads of the executor, 5 in the code
  NTasks      \* the queue is filled with 1 .. NTasks, 20 in the code

ASSUME QueueAssumption ==
  /\ IsFiniteSet(Workers) /\ Workers # {}
  /\ PoolSize \in Nat \ {0} /\ NTasks \in Nat

VARIABLES
  head,       \* the queue holds head .. NTasks
  view,       \* view[w]: head as w saw it when it last held the monitor
  pc,
  task,       \* task[w]: what w polled, 0 for null
  main,
  processed   \* history: processed[t] is how often t was processed

QueueVars == <<head, view, pc, task, main, processed>>

Tasks == 1 .. NTasks
Ran   == {"loop", "poll", "check", "process"}

QueueTypeOK ==
  /\ head \in 1 .. NTasks + 1
  /\ view \in [Workers -> 1 .. NTasks + 1]
  /\ pc \in [Workers -> Ran \cup {"new", "submitted", "done"}]
  /\ task \in [Workers -> 0 .. NTasks]
  /\ main \in {"submitting", "joining", "completed"}
  /\ processed \in [Tasks -> Nat]

QueueInit ==
  /\ head = 1
  /\ view = [w \in Workers |-> 1]
  /\ pc = [w \in Workers |-> "new"]
  /\ task = [w \in Workers |-> 0]
  /\ main = "submitting"
  /\ processed = [t \in Tasks |-> 0]

Goto(w, label) == pc' = [pc EXCEPT ![w] = label]

-----------------------------------------------------------------------------
(* The main thread.                                                        *)

Submit(w) ==
  /\ main = "submitting"
  /\ pc[w] = "new"
  /\ Goto(w, "submitted")
  /\ UNCHANGED <<head, view, task, main, processed>>

AllSubmitted ==
  /\ main = "submitting"
  /\ \A w \in Workers : pc[w] # "new"
  /\ main' = "joining"
  /\ UNCHANGED <<head, view, pc, task, processed>>

JoinAny ==
  /\ main = "joining"
  /\ \E w \in Workers : pc[w] = "done"
  /\ main' = "completed"
  /\ UNCHANGED <<head, view, pc, task, processed>>

\* allOf(...).join(), shutdown, and "All tasks completed."
Join ==
  /\ main = "joining"
  /\ \A w \in Workers : pc[w] = "done"
  /\ main' = "completed"
  /\ UNCHANGED <<head, view, pc, task, processed>>

-----------------------------------------------------------------------------
(* The workers.                                                            *)

\* A thread of the pool takes the next run.
Start(w) ==
  /\ pc[w] = "submitted"
  /\ Cardinality({v \in Workers : pc[v] \in Ran}) < PoolSize
  /\ Goto(w, "loop")
  /\ UNCHANGED <<head, view, task, main, processed>>

\* while (!taskQueue.isEmpty()): the size that is read is one that the queue has
\* had since w last synchronized, so it may be positive when the queue is empty.
Loop(w) ==
  /\ pc[w] = "loop"
  /\ \E h \in view[w] .. head :
       Goto(w, IF h > NTasks THEN "done" ELSE "poll")
  /\ UNCHANGED <<head, view, task, main, processed>>

\* Outside of the monitor poll is two steps: others may read the same element.
PollRacing(w) ==
  /\ pc[w] = "poll"
  /\ \E h \in view[w] .. head :
       /\ task' = [task EXCEPT ![w] = IF h <= NTasks THEN h ELSE 0]
       /\ head' = IF h <= NTasks /\ h = head THEN head + 1 ELSE head
       /\ view' = [view EXCEPT ![w] = h]
  /\ Goto(w, "check")
  /\ UNCHANGED <<main, processed>>

\* synchronized (taskQueue) { task = taskQueue.poll(); }
Poll(w) ==
  /\ pc[w] = "poll"
  /\ task' = [task EXCEPT ![w] = IF head <= NTasks THEN head ELSE 0]
  /\ head' = IF head <= NTasks THEN head + 1 ELSE head
  /\ view' = [view EXCEPT ![w] = head']
  /\ Goto(w, "check")
  /\ UNCHANGED <<main, processed>>

LeaveOnNull(w) ==
  /\ pc[w] = "check"
  /\ Goto(w, IF task[w] # 0 THEN "process" ELSE "poll")
  /\ UNCHANGED <<head, view, task, main, processed>>

\* if (task != null)
Check(w) ==
  /\ pc[w] = "check"
  /\ Goto(w, IF task[w] # 0 THEN "process" ELSE "loop")
  /\ UNCHANGED <<head, view, task, main, processed>>

processTask(w) ==
  /\ pc[w] = "process"
  /\ processed' = [processed EXCEPT ![task[w]] = @ + 1]
  /\ Goto(w, "loop")
  /\ UNCHANGED <<head, view, task, main>>

Work(w) == Start(w) \/ Loop(w) \/ Poll(w) \/ Check(w) \/ processTask(w)

QueueNext ==
  \/ AllSubmitted \/ Join
  \/ \E w \in Workers : Submit(w) \/ Work(w)

\* The main thread and the threads of the pool are scheduled.
Fairness ==
  /\ WF_QueueVars(AllSubmitted \/ Join \/ \E w \in Workers : Submit(w))
  /\ \A w \in Workers : WF_QueueVars(Work(w))

QueueSpec == QueueInit /\ [][QueueNext]_QueueVars /\ Fairness

-----------------------------------------------------------------------------
(* Properties.                                                             *)

\* "All tasks completed." is true when it is printed: every task of the queue was
\* processed, once, by one of the workers.
CompletedMeansAllOnce ==
  main = "completed" => \A t \in Tasks : processed[t] = 1

\* No task is given to two workers, nor given again after it was processed.
NoTaskTwice ==
  \A t \in Tasks :
    /\ processed[t] <= 1
    /\ \A w \in Workers : pc[w] = "process" /\ task[w] = t
         => processed[t] = 0 /\ \A v \in Workers \ {w} : ~(pc[v] = "process" /\ task[v] = t)

\* The main thread comes to the end of the join.
EventuallyCompleted == <>(main = "completed")

=============================================================================
