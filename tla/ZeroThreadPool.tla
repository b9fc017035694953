---------------------------- MODULE ZeroThreadPool ----------------------------
(***************************************************************************)
(* The C++ thread pool of ZeroThreadpool.h and ZeroThreadpool.cpp: worker    *)
(* threads, callers of exec and of waitForAllDone, and a controller that     *)
(* starts and stops the pool.  Workers and waitForAllDone share _condition.  *)
(*                                                                         *)
(* _tasks and _threads are touched only under _mutex, so a block under the   *)
(* mutex is one action; a thread that waits on _condition leaves it and,     *)
(* once woken, evaluates its predicate in an action of its own.  The reads   *)
(* of _bTerminate and the changes of _atomic outside the mutex are steps.    *)
(* Time is abstracted: a task with a timeout may have expired when a worker  *)
(* gets to it, a timed wait may time out at any moment.                      *)
(***************************************************************************)
EXTENDS Integers, Sequences, FiniteSets

CONSTANTS
  Workers,    \* the worker threads start() may create
  Waiters,    \* threads that call waitForAllDone
  Tasks,      \* the tasks callers pass to exec, each at most once
  Expiring,   \* those with a timeout
  MaxStarts,  \* bound: how often the controller calls start
  NoTask      \* the empty TaskFuncPtr

ASSUME ThreadsAssumption ==
  /\ Workers \intersect Waiters = {}
  /\ Workers # {} /\ IsFiniteSet(Workers)
ASSUME BoundAssumption == MaxStarts \in Nat
ASSUME TasksAssumption == Expiring \subseteq Tasks /\ NoTask \notin Tasks

VARIABLES
  _threads,     \* the workers of _threads
  _threadNum,   \* how many start() creates
  _tasks,       \* the queue
  _bTerminate,
  _atomic,      \* workers that are executing a task, more or less
  _condition,   \* threads that wait on _condition and have not been woken
  pc,           \* where each worker and each waiter stands
  task,         \* the task a worker took
  ctl,          \* where the controller stands: "idle" or inside stop
  starts,       \* calls of start so far
  taskState     \* history: what became of each task

vars == <<_threads, _threadNum, _tasks, _bTerminate, _atomic, _condition, pc,
          task, ctl, starts, taskState>>

Threads == Workers \union Waiters

Goto(t, from, to) == pc[t] = from /\ pc' = [pc EXCEPT ![t] = to]

\* _condition.notify_one() and notify_all().
NotifyOne == \/ _condition = {} /\ UNCHANGED _condition
             \/ \E t \in _condition : _condition' = _condition \ {t}
NotifyAll == _condition' = {}

Init == /\ _threads = {}
        /\ _threadNum = 1
        /\ _tasks = <<>>
        /\ _bTerminate = FALSE
        /\ _atomic = 0
        /\ _condition = {}
        /\ pc = [t \in Threads |-> IF t \in Workers THEN "off" ELSE "idle"]
        /\ task = [w \in Workers |-> NoTask]
        /\ ctl = "idle"
        /\ starts = 0
        /\ taskState = [k \in Tasks |-> "new"]

-----------------------------------------------------------------------------
(* init, start, exec                                                         *)

\* init(num): refused once threads run.
InitPool(num) ==
  /\ ctl = "idle" /\ _threads = {} /\ starts < MaxStarts
  /\ _threadNum' = num
  /\ UNCHANGED <<_threads, _tasks, _bTerminate, _atomic, _condition, pc, task,
                 ctl, starts, taskState>>

\* start(): _bTerminate keeps its value, also after a stop.
Start ==
  /\ ctl = "idle" /\ _threads = {} /\ starts < MaxStarts
  /\ starts' = starts + 1
  /\ \E ws \in SUBSET Workers :
       /\ Cardinality(ws) = _threadNum
       /\ _threads' = ws
       /\ pc' = [t \in Threads |-> IF t \in ws THEN "loop" ELSE pc[t]]
  /\ UNCHANGED <<_threadNum, _tasks, _bTerminate, _atomic, _condition, task,
                 ctl, taskState>>

\* Mutant: the caller pushes the task and wakes nobody.
ExecSilently(k) ==
  /\ taskState[k] = "new"
  /\ _tasks' = Append(_tasks, k)
  /\ taskState' = [taskState EXCEPT ![k] = "queued"]
  /\ UNCHANGED <<_threads, _threadNum, _bTerminate, _atomic, _condition, pc, task,
                 ctl, starts>>

Exec(k) ==
  /\ taskState[k] = "new"
  /\ _tasks' = Append(_tasks, k)
  /\ NotifyOne
  /\ taskState' = [taskState EXCEPT ![k] = "queued"]
  /\ UNCHANGED <<_threads, _threadNum, _bTerminate, _atomic, pc, task, ctl, starts>>

-----------------------------------------------------------------------------
(* run, and the get it calls                                                 *)

\* while (!isTerminate()), outside the mutex.
RunLoop(w) ==
  /\ \/ _bTerminate /\ Goto(w, "loop", "exited")
     \/ ~_bTerminate /\ Goto(w, "loop", "get")
  /\ UNCHANGED <<_threads, _threadNum, _tasks, _bTerminate, _atomic, _condition,
                 task, ctl, starts, taskState>>

\* Mutant: get looks at the queue before it looks at _bTerminate.
GetFromQueueFirst(w) ==
  \/ /\ _tasks # <<>>
     /\ pc' = [pc EXCEPT ![w] = "inc"]
     /\ task' = [task EXCEPT ![w] = Head(_tasks)]
     /\ _tasks' = Tail(_tasks)
     /\ taskState' = [taskState EXCEPT ![Head(_tasks)] = "taken"]
  \/ /\ _tasks = <<>>
     /\ pc' = [pc EXCEPT ![w] = "loop"]
     /\ UNCHANGED <<task, _tasks, taskState>>

\* The rest of get, once its wait is over: FALSE, or the head of the queue.
GetFromQueue(w) ==
  \/ /\ _bTerminate
     /\ pc' = [pc EXCEPT ![w] = "loop"]
     /\ UNCHANGED <<task, _tasks, taskState>>
  \/ /\ ~_bTerminate /\ _tasks # <<>>
     /\ pc' = [pc EXCEPT ![w] = "inc"]
     /\ task' = [task EXCEPT ![w] = Head(_tasks)]
     /\ _tasks' = Tail(_tasks)
     /\ taskState' = [taskState EXCEPT ![Head(_tasks)] = "taken"]

\* The predicate of the wait in get.
HasWork == _bTerminate \/ _tasks # <<>>

\* get begins, or its wait is woken: wait (again) or go on.
Get(w) ==
  /\ pc[w] = "get" \/ (pc[w] = "getWait" /\ w \notin _condition)
  /\ \/ /\ ~HasWork
        /\ pc' = [pc EXCEPT ![w] = "getWait"]
        /\ _condition' = _condition \union {w}
        /\ UNCHANGED <<task, _tasks, taskState>>
     \/ /\ HasWork
        /\ GetFromQueue(w)
        /\ UNCHANGED _condition
  /\ UNCHANGED <<_threads, _threadNum, _bTerminate, _atomic, ctl, starts>>

\* ++_atomic, after the mutex was released.
RunIncrement(w) ==
  /\ Goto(w, "inc", "execute")
  /\ _atomic' = _atomic + 1
  /\ UNCHANGED <<_threads, _threadNum, _tasks, _bTerminate, _condition, task,
                 ctl, starts, taskState>>

\* The task is executed, or dropped because it expired; exceptions are caught.
RunTask(w) ==
  /\ Goto(w, "execute", "decrement")
  /\ \/ taskState' = [taskState EXCEPT ![task[w]] = "done"]
     \/ /\ task[w] \in Expiring
        /\ taskState' = [taskState EXCEPT ![task[w]] = "expired"]
  /\ task' = [task EXCEPT ![w] = NoTask]
  /\ UNCHANGED <<_threads, _threadNum, _tasks, _bTerminate, _atomic, _condition,
                 ctl, starts>>

RunDecrement(w) ==
  /\ Goto(w, "decrement", "check")
  /\ _atomic' = _atomic - 1
  /\ UNCHANGED <<_threads, _threadNum, _tasks, _bTerminate, _condition, task,
                 ctl, starts, taskState>>

\* The block at the end of the loop body.
RunCheck(w) ==
  /\ Goto(w, "check", "loop")
  /\ \/ _atomic = 0 /\ _tasks = <<>> /\ NotifyAll
     \/ (_atomic # 0 \/ _tasks # <<>>) /\ UNCHANGED _condition
  /\ UNCHANGED <<_threads, _threadNum, _tasks, _bTerminate, _atomic, task, ctl,
                 starts, taskState>>

-----------------------------------------------------------------------------
(* waitForAllDone                                                            *)

\* The predicate of both waits.
QueueEmpty == _tasks = <<>>

\* The call begins: TRUE at once, or one of the two waits.
WaitBegin(c) ==
  /\ pc[c] = "idle"
  /\ \/ /\ QueueEmpty
        /\ pc' = [pc EXCEPT ![c] = "returnTrue"]
        /\ UNCHANGED _condition
     \/ /\ ~QueueEmpty
        /\ pc' \in {[pc EXCEPT ![c] = to] : to \in {"wait", "waitFor"}}
        /\ _condition' = _condition \union {c}
  /\ UNCHANGED <<_threads, _threadNum, _tasks, _bTerminate, _atomic, task, ctl,
                 starts, taskState>>

\* A woken waiter evaluates the predicate and returns or waits again.
WaitWoken(c) ==
  /\ pc[c] \in {"wait", "waitFor"} /\ c \notin _condition
  /\ \/ /\ QueueEmpty
        /\ pc' = [pc EXCEPT ![c] = "returnTrue"]
        /\ UNCHANGED _condition
     \/ /\ ~QueueEmpty
        /\ _condition' = _condition \union {c}
        /\ UNCHANGED pc
  /\ UNCHANGED <<_threads, _threadNum, _tasks, _bTerminate, _atomic, task, ctl,
                 starts, taskState>>

\* wait_for times out: it returns what the predicate says now.
WaitTimeout(c) ==
  /\ pc[c] = "waitFor"
  /\ pc' = [pc EXCEPT ![c] = IF QueueEmpty THEN "returnTrue" ELSE "returnFalse"]
  /\ _condition' = _condition \ {c}
  /\ UNCHANGED <<_threads, _threadNum, _tasks, _bTerminate, _atomic, task, ctl,
                 starts, taskState>>

WaitReturn(c) ==
  /\ Goto(c, "returnTrue", "idle") \/ Goto(c, "returnFalse", "idle")
  /\ UNCHANGED <<_threads, _threadNum, _tasks, _bTerminate, _atomic, _condition,
                 task, ctl, starts, taskState>>

\* A wait on a condition variable may end although nobody notified.
SpuriousWakeup(t) ==
  /\ t \in _condition
  /\ _condition' = _condition \ {t}
  /\ UNCHANGED <<_threads, _threadNum, _tasks, _bTerminate, _atomic, pc, task,
                 ctl, starts, taskState>>

-----------------------------------------------------------------------------
(* stop                                                                      *)

\* Mutant: stop wakes one thread only.
StopSignalNotifyOne ==
  /\ ctl = "idle"
  /\ ctl' = "join"
  /\ _bTerminate' = TRUE
  /\ NotifyOne
  /\ UNCHANGED <<_threads, _threadNum, _tasks, _atomic, pc, task, starts, taskState>>

StopSignal ==
  /\ ctl = "idle"
  /\ ctl' = "join"
  /\ _bTerminate' = TRUE
  /\ NotifyAll
  /\ UNCHANGED <<_threads, _threadNum, _tasks, _atomic, pc, task, starts, taskState>>

\* Mutant: stop detaches the threads instead of joining them.
StopDetach ==
  /\ ctl = "join"
  /\ ctl' = "idle"
  /\ _threads' = {}
  /\ pc' = [t \in Threads |-> IF t \in _threads THEN "off" ELSE pc[t]]
  /\ UNCHANGED <<_threadNum, _tasks, _bTerminate, _atomic, _condition, task,
                 starts, taskState>>

\* Every thread has been joined; the threads are deleted and _threads cleared.
StopJoin ==
  /\ ctl = "join"
  /\ \A w \in _threads : pc[w] = "exited"
  /\ ctl' = "idle"
  /\ _threads' = {}
  /\ pc' = [t \in Threads |-> IF t \in _threads THEN "off" ELSE pc[t]]
  /\ UNCHANGED <<_threadNum, _tasks, _bTerminate, _atomic, _condition, task,
                 starts, taskState>>

-----------------------------------------------------------------------------
WorkerStep(w) == \/ RunLoop(w)
                 \/ Get(w)
                 \/ RunIncrement(w)
                 \/ RunTask(w)
                 \/ RunDecrement(w)
                 \/ RunCheck(w)

WaiterReturns(c) == WaitWoken(c) \/ WaitTimeout(c) \/ WaitReturn(c)

ControllerStep == \/ \E num \in 1 .. Cardinality(Workers) : InitPool(num)
                  \/ Start
                  \/ StopSignal
                  \/ StopJoin

Next == \/ ControllerStep
        \/ \E k \in Tasks : Exec(k)
        \/ \E w \in Workers : WorkerStep(w)
        \/ \E c \in Waiters : WaitBegin(c) \/ WaiterReturns(c)
        \/ \E t \in Threads : SpuriousWakeup(t)

Spec == Init /\ [][Next]_vars

\* Threads are scheduled, tasks end, timeouts pass, and a stop that has begun
\* goes on.  Nobody is obliged to call anything.
Fairness == /\ \A w \in Workers : WF_vars(WorkerStep(w))
            /\ \A c \in Waiters : WF_vars(WaiterReturns(c))
            /\ WF_vars(StopJoin)

FairSpec == Spec /\ Fairness

-----------------------------------------------------------------------------
(* Properties                                                                *)

PCs == {"off", "loop", "get", "getWait", "inc", "execute", "decrement", "check",
        "exited", "idle", "wait", "waitFor", "returnTrue", "returnFalse"}

\* Type invariant; _atomic counts executing workers, so it is never negative.
TypeOK ==
  /\ _threads \subseteq Workers
  /\ _threadNum \in 1 .. Cardinality(Workers)
  /\ _tasks \in Seq(Tasks)
  /\ _bTerminate \in BOOLEAN
  /\ _atomic \in 0 .. Cardinality(Workers)
  /\ _condition \subseteq {t \in Threads : pc[t] \in {"getWait", "wait", "waitFor"}}
  /\ pc \in [Threads -> PCs]
  /\ task \in [Workers -> Tasks \union {NoTask}]
  /\ ctl \in {"idle", "join"}
  /\ starts \in 0 .. MaxStarts
  /\ taskState \in [Tasks -> {"new", "queued", "taken", "done", "expired"}]

\* No wakeup of exec is lost although notify_one may pick a thread that waits
\* in waitForAllDone: while tasks are queued, some worker of a running pool is
\* not asleep.
NoStrandedTask ==
  _tasks # <<>> /\ ~_bTerminate /\ _threads # {} =>
    \E w \in _threads : w \notin _condition

\* No completion is missed although get empties the queue without a
\* notification and _atomic is changed outside the mutex: a thread waits in
\* waitForAllDone on an empty queue only while some worker is still going to
\* reach its notify_all.
CompletionAnnounced ==
  \A c \in Waiters \intersect _condition :
    _tasks = <<>> =>
      \E w \in _threads : pc[w] \in {"inc", "execute", "decrement", "check"}

\* The one condition variable serves the workers and the callers of waitForAllDone.
NoLostWakeup == TypeOK /\ NoStrandedTask /\ CompletionAnnounced

\* When stop has returned, no task is in execution or about to be (the comment
\* on stop: it waits for the tasks being executed, and only for those).
StopWaitsForRunning ==
  ctl = "idle" /\ _bTerminate /\ _threads = {} =>
    /\ \A k \in Tasks : taskState[k] # "taken"
    /\ _atomic = 0

\* After stop has been called no further task is taken from the queue.
StopFreezesQueue ==
  [][_bTerminate => \A k \in Tasks : taskState[k] = "queued"
                                       => taskState'[k] = "queued"]_vars

\* A queued task is executed, or found expired, unless the pool is stopped or
\* was not started.
QueuedTaskRuns ==
  \A k \in Tasks :
    taskState[k] = "queued" ~> \/ taskState[k] \in {"done", "expired"}
                               \/ _bTerminate
                               \/ _threads = {}

\* waitForAllDone(-1) returns once callers stop queueing (there are finitely
\* many tasks), unless the pool is stopped or was not started.
WaitReturns ==
  \A c \in Waiters : pc[c] = "wait" ~> \/ pc[c] = "returnTrue"
                                       \/ _bTerminate
                                       \/ _threads = {}

\* stop returns: every worker notices _bTerminate, asleep or not.
StopReturns == ctl = "join" ~> ctl = "idle"

\* The calls that block come back.
CallsReturn == WaitReturns /\ StopReturns

\* What ZeroThreadpool.h:36 says of waitForAllDone(-1): it also returns when
\* somebody calls stop.
StopReleasesWaiters ==
  \A c \in Waiters : pc[c] = "wait" /\ _bTerminate ~> pc[c] = "returnTrue"
=============================================================================
