------------------------- MODULE ZeroThreadPoolProofs -------------------------
(***************************************************************************)
(* Proofs about ZeroThreadPool for every number of workers, callers of        *)
(* waitForAllDone and tasks.                                                 *)
(***************************************************************************)
EXTENDS ZeroThreadPool, FiniteSetTheorems, SequenceTheorems, TLAPS

WorkerPCs == {"off", "loop", "get", "getWait", "inc", "execute", "decrement", "check",
              "exited"}
WaiterPCs == {"idle", "wait", "waitFor", "returnTrue", "returnFalse"}

\* The workers that _atomic counts.
Counted == {w \in Workers : pc[w] \in {"execute", "decrement"}}

Carries(w) == pc[w] \in {"inc", "execute"}

Busy(w) == pc[w] \in {"inc", "execute", "decrement", "check"}

NoDuplicates(list) == \A i, j \in DOMAIN list : list[i] = list[j] => i = j

-----------------------------------------------------------------------------
(* The inductive invariant                                                   *)

\* Workers and waiters stand at places of their own, and the workers that are
\* nowhere are those that are not in _threads.
ThreadsStand ==
  /\ \A w \in Workers : pc[w] \in WorkerPCs /\ (w \in _threads <=> pc[w] # "off")
  /\ \A c \in Waiters : pc[c] \in WaiterPCs

AtomicCounts == _atomic = Cardinality(Counted)

\* The queue holds queued tasks, each once.
QueueHoldsQueued ==
  /\ NoDuplicates(_tasks)
  /\ \A i \in DOMAIN _tasks : taskState[_tasks[i]] = "queued"

\* A task that was taken is carried by one worker.
TakenIsCarried ==
  /\ \A w \in Workers : Carries(w) => task[w] \in Tasks /\ taskState[task[w]] = "taken"
  /\ \A v, w \in Workers : Carries(v) /\ Carries(w) /\ task[v] = task[w] => v = w
  /\ \A k \in Tasks : taskState[k] = "taken" => \E w \in Workers : Carries(w) /\ task[w] = k

IInv == /\ TypeOK
        /\ ThreadsStand
        /\ AtomicCounts
        /\ QueueHoldsQueued
        /\ TakenIsCarried
        /\ NoStrandedTask
        /\ CompletionAnnounced

-----------------------------------------------------------------------------
(* The queue as a list without duplicates.                                    *)

\* Taking the front of the queue.
LEMMA FrontFacts ==
  ASSUME NEW list \in Seq(Tasks), list # <<>>, NoDuplicates(list)
  PROVE  /\ Head(list) \in Tasks
         /\ Tail(list) \in Seq(Tasks)
         /\ NoDuplicates(Tail(list))
         /\ \E i \in DOMAIN list : list[i] = Head(list)
         /\ \A i \in DOMAIN Tail(list) :
              Tail(list)[i] # Head(list) /\ \E j \in DOMAIN list : Tail(list)[i] = list[j]
<1>1. /\ Len(list) \in Nat /\ Len(list) >= 1
      /\ DOMAIN list = 1 .. Len(list)
      /\ Head(list) = list[1]
  BY LenProperties, EmptySeq
<1>2. /\ Head(list) \in Tasks
      /\ Tail(list) \in Seq(Tasks)
      /\ Len(Tail(list)) = Len(list) - 1
      /\ \A i \in 1 .. Len(list) - 1 : Tail(list)[i] = list[i + 1]
  BY HeadTailProperties
<1>3. DOMAIN Tail(list) = 1 .. Len(list) - 1
  BY <1>2, LenProperties
<1>4. NoDuplicates(Tail(list))
  BY <1>1, <1>2, <1>3 DEF NoDuplicates
<1>5. \A i \in DOMAIN Tail(list) :
        Tail(list)[i] # Head(list) /\ \E j \in DOMAIN list : Tail(list)[i] = list[j]
  BY <1>1, <1>2, <1>3 DEF NoDuplicates
<1> QED BY <1>1, <1>2, <1>4, <1>5

\* A new task at the end of the queue.
LEMMA BackFacts ==
  ASSUME NEW list \in Seq(Tasks), NoDuplicates(list),
         NEW x \in Tasks, \A i \in DOMAIN list : list[i] # x
  PROVE  /\ Append(list, x) \in Seq(Tasks)
         /\ Append(list, x) # <<>>
         /\ NoDuplicates(Append(list, x))
         /\ \A i \in DOMAIN Append(list, x) :
              \/ Append(list, x)[i] = x
              \/ \E j \in DOMAIN list : Append(list, x)[i] = list[j]
<1> DEFINE new == Append(list, x)
<1>1. /\ Len(list) \in Nat
      /\ DOMAIN list = 1 .. Len(list)
  BY LenProperties
<1>2. /\ new \in Seq(Tasks)
      /\ new # <<>>
      /\ Len(new) = Len(list) + 1
      /\ \A i \in 1 .. Len(list) : new[i] = list[i]
      /\ new[Len(list) + 1] = x
  BY AppendProperties
<1>3. DOMAIN new = 1 .. Len(list) + 1
  BY <1>2, LenProperties
<1> HIDE DEF new
<1>4. NoDuplicates(new)
  BY <1>1, <1>2, <1>3 DEF NoDuplicates
<1>5. \A i \in DOMAIN new : new[i] = x \/ \E j \in DOMAIN list : new[i] = list[j]
  BY <1>1, <1>2, <1>3
<1> QED BY <1>2, <1>4, <1>5 DEF new

-----------------------------------------------------------------------------
(* What a move of one thread changes.                                         *)

\* A worker goes from one place of run to another.
LEMMA WorkerMoves ==
  ASSUME TypeOK, ThreadsStand,
         NEW w \in Workers, NEW to \in WorkerPCs \ {"off"}, pc[w] # "off",
         pc' = [pc EXCEPT ![w] = to], _threads' = _threads
  PROVE  /\ pc' \in [Threads -> PCs]
         /\ \A t \in Threads : pc'[t] = IF t = w THEN to ELSE pc[t]
         /\ ThreadsStand'
         /\ w \in _threads
         /\ Counted' = IF to \in {"execute", "decrement"} THEN Counted \union {w}
                                                          ELSE Counted \ {w}
<1>1. w \in Threads /\ pc \in [Threads -> PCs] /\ to \in PCs
  BY DEF TypeOK, Threads, PCs, WorkerPCs
<1>2. \A t \in Threads : pc'[t] = IF t = w THEN to ELSE pc[t]
  BY <1>1
<1>3. ThreadsStand'
  BY <1>2, ThreadsAssumption DEF ThreadsStand, Threads
<1>4. w \in _threads
  BY DEF ThreadsStand
<1>5. \A v \in Workers : pc'[v] = IF v = w THEN to ELSE pc[v]
  BY <1>2 DEF Threads
<1>6. Counted' = IF to \in {"execute", "decrement"} THEN Counted \union {w}
                                                    ELSE Counted \ {w}
  BY <1>5 DEF Counted
<1> QED BY <1>1, <1>2, <1>3, <1>4, <1>6

\* A caller of waitForAllDone moves, or no thread does.
LEMMA WaiterMoves ==
  ASSUME TypeOK, ThreadsStand,
         NEW c \in Waiters, NEW to \in WaiterPCs,
         pc' = [pc EXCEPT ![c] = to], _threads' = _threads
  PROVE  /\ pc' \in [Threads -> PCs]
         /\ \A t \in Threads : pc'[t] = IF t = c THEN to ELSE pc[t]
         /\ \A w \in Workers : pc'[w] = pc[w]
         /\ ThreadsStand'
         /\ Counted' = Counted
<1>1. c \in Threads /\ pc \in [Threads -> PCs] /\ to \in PCs
  BY DEF TypeOK, Threads, PCs, WaiterPCs
<1>2. \A t \in Threads : pc'[t] = IF t = c THEN to ELSE pc[t]
  BY <1>1
<1>3. \A w \in Workers : pc'[w] = pc[w]
  BY <1>2, ThreadsAssumption DEF Threads
<1>4. ThreadsStand'
  BY <1>2, <1>3 DEF ThreadsStand, Threads
<1>5. Counted' = Counted
  BY <1>3 DEF Counted
<1> QED BY <1>1, <1>2, <1>3, <1>4, <1>5

\* Sets of workers can be counted, and there are at most as many as workers.
LEMMA WorkersCounted ==
  ASSUME NEW S, S \subseteq Workers
  PROVE  IsFiniteSet(S) /\ Cardinality(S) \in 0 .. Cardinality(Workers)
<1>1. /\ IsFiniteSet(S)
      /\ Cardinality(S) <= Cardinality(Workers)
  BY FS_Subset, ThreadsAssumption
<1>2. Cardinality(S) \in Nat /\ Cardinality(Workers) \in Nat
  BY <1>1, FS_CardinalityType, ThreadsAssumption
<1> QED BY <1>1, <1>2

\* Nobody takes, carries or finishes a task.
LEMMA TasksStay ==
  ASSUME QueueHoldsQueued, TakenIsCarried, UNCHANGED <<_tasks, task, taskState>>,
         \A w \in Workers : pc'[w] \in {"inc", "execute"} <=> pc[w] \in {"inc", "execute"}
  PROVE  QueueHoldsQueued' /\ TakenIsCarried'
<1>1. QueueHoldsQueued'
  BY DEF QueueHoldsQueued, NoDuplicates
<1>2. TakenIsCarried'
  BY DEF TakenIsCarried, Carries
<1> QED BY <1>1, <1>2

\* A worker that waits on _condition is in getWait, and one that is not off runs.
LEMMA SleeperStands ==
  ASSUME TypeOK, ThreadsStand, NEW w \in Workers, w \in _condition
  PROVE  pc[w] = "getWait" /\ w \in _threads /\ ~Busy(w)
<1>1. pc[w] \in {"getWait", "wait", "waitFor"}
  BY DEF TypeOK
<1>2. pc[w] = "getWait"
  BY <1>1 DEF ThreadsStand, WorkerPCs
<1> QED BY <1>2 DEF ThreadsStand, Busy

-----------------------------------------------------------------------------
(* Every step keeps the invariant                                            *)

\* A new pool.
THEOREM InitHolds == Init => IInv
<1> SUFFICES ASSUME Init PROVE IInv
  OBVIOUS
<1> USE DEF Init
<1>1. Counted = {}
  BY DEF Counted, Threads
<1>2. AtomicCounts
  BY <1>1, FS_EmptySet DEF AtomicCounts
<1>3. TypeOK
  <2>1. _tasks \in Seq(Tasks)
    BY EmptySeq
  <2>2. /\ Cardinality(Workers) \in Nat \ {0}
        /\ 0 \in 0 .. Cardinality(Workers) /\ 1 \in 1 .. Cardinality(Workers)
    <3>1. Cardinality(Workers) \in Nat \ {0}
      BY ThreadsAssumption, FS_CardinalityType, FS_EmptySet
    <3> QED BY <3>1
  <2>3. pc \in [Threads -> PCs]
    BY DEF PCs
  <2>4. starts \in 0 .. MaxStarts
    BY BoundAssumption
  <2>5. /\ task \in [Workers -> Tasks \union {NoTask}]
        /\ taskState \in [Tasks -> {"new", "queued", "taken", "done", "expired"}]
    OBVIOUS
  <2>6. _threads \subseteq Workers /\ _threadNum \in 1 .. Cardinality(Workers)
        /\ _bTerminate \in BOOLEAN /\ _atomic \in 0 .. Cardinality(Workers)
        /\ _condition \subseteq {t \in Threads : pc[t] \in {"getWait", "wait", "waitFor"}}
        /\ ctl \in {"idle", "join"}
    BY <2>2
  <2> QED BY <2>1, <2>3, <2>4, <2>5, <2>6 DEF TypeOK
<1>4. ThreadsStand
  BY ThreadsAssumption DEF ThreadsStand, WorkerPCs, WaiterPCs, Threads
<1>5. QueueHoldsQueued
  <2>1. DOMAIN _tasks = {}
    BY EmptySeq, LenProperties
  <2> QED BY <2>1 DEF QueueHoldsQueued, NoDuplicates
<1>6. TakenIsCarried
  BY DEF TakenIsCarried, Carries, Threads
<1>7. NoStrandedTask /\ CompletionAnnounced
  BY DEF NoStrandedTask, CompletionAnnounced
<1> QED BY <1>2, <1>3, <1>4, <1>5, <1>6, <1>7 DEF IInv

\* init changes the number of threads of the next start.
LEMMA InitPoolKeeps ==
  ASSUME IInv, NEW num \in 1 .. Cardinality(Workers), InitPool(num) PROVE IInv'
<1> USE DEF InitPool
<1>1. TypeOK'
  BY DEF IInv, TypeOK
<1>2. ThreadsStand' /\ AtomicCounts' /\ QueueHoldsQueued' /\ TakenIsCarried'
  BY DEF IInv, ThreadsStand, AtomicCounts, Counted, QueueHoldsQueued, NoDuplicates,
         TakenIsCarried, Carries
<1>3. NoStrandedTask' /\ CompletionAnnounced'
  BY DEF IInv, NoStrandedTask, CompletionAnnounced
<1> QED BY <1>1, <1>2, <1>3 DEF IInv

\* start creates workers that were nowhere, so none of them sleeps.
LEMMA StartKeeps == IInv /\ Start => IInv'
<1> SUFFICES ASSUME IInv, Start PROVE IInv'
  OBVIOUS
<1>1. PICK ws \in SUBSET Workers :
        /\ Cardinality(ws) = _threadNum
        /\ _threads' = ws
        /\ pc' = [t \in Threads |-> IF t \in ws THEN "loop" ELSE pc[t]]
  BY DEF Start
<1>2. /\ _threads = {} /\ starts < MaxStarts /\ starts' = starts + 1
      /\ UNCHANGED <<_threadNum, _tasks, _bTerminate, _atomic, _condition, task,
                     ctl, taskState>>
  BY DEF Start
<1>3. TypeOK /\ ThreadsStand /\ QueueHoldsQueued /\ TakenIsCarried
  BY DEF IInv
<1>4. \A w \in Workers : pc[w] = "off"
  BY <1>2, <1>3 DEF ThreadsStand
<1>5. \A t \in Threads : pc'[t] = IF t \in ws THEN "loop" ELSE pc[t]
  BY <1>1
<1>6. \A w \in Workers : pc'[w] = IF w \in ws THEN "loop" ELSE "off"
  BY <1>4, <1>5 DEF Threads
<1>7. \A w \in Workers : w \notin _condition
  BY <1>3, <1>4 DEF TypeOK
<1>8. TypeOK'
  <2>1. pc' \in [Threads -> PCs]
    BY <1>1, <1>3 DEF TypeOK, PCs
  <2>2. _condition \subseteq {t \in Threads : pc'[t] \in {"getWait", "wait", "waitFor"}}
    BY <1>1, <1>3, <1>5, <1>7 DEF TypeOK
  <2>3. starts' \in 0 .. MaxStarts
    BY <1>2, <1>3, BoundAssumption DEF TypeOK
  <2> QED BY <1>1, <1>2, <1>3, <2>1, <2>2, <2>3 DEF TypeOK
<1>9. ThreadsStand'
  <2>1. \A c \in Waiters : pc'[c] = pc[c]
    BY <1>1, <1>5, ThreadsAssumption DEF Threads
  <2> QED BY <1>1, <1>3, <1>6, <2>1 DEF ThreadsStand, WorkerPCs
<1>10. AtomicCounts'
  <2>1. Counted = {} /\ Counted' = {}
    BY <1>4, <1>6 DEF Counted
  <2> QED BY <1>2, <2>1 DEF IInv, AtomicCounts
<1>11. QueueHoldsQueued' /\ TakenIsCarried'
  BY <1>2, <1>3, <1>4, <1>6, TasksStay
<1>12. NoStrandedTask'
  <2>1. ws # {}
    <3>1. Cardinality(Workers) \in Nat /\ Cardinality({}) = 0
      BY ThreadsAssumption, FS_CardinalityType, FS_EmptySet
    <3>2. _threadNum >= 1
      BY <1>3, <3>1 DEF TypeOK
    <3> QED BY <1>1, <3>1, <3>2
  <2> QED BY <1>1, <1>2, <1>7, <2>1 DEF NoStrandedTask
<1>13. CompletionAnnounced'
  BY <1>2 DEF IInv, CompletionAnnounced
<1> QED BY <1>8, <1>9, <1>10, <1>11, <1>12, <1>13 DEF IInv

\* exec: its notify_one cannot hit a caller of waitForAllDone while all workers
\* sleep, because no such caller waits then.
LEMMA ExecKeeps == ASSUME IInv, NEW k \in Tasks, Exec(k) PROVE IInv'
<1>1. /\ taskState[k] = "new"
      /\ _tasks' = Append(_tasks, k)
      /\ NotifyOne
      /\ taskState' = [taskState EXCEPT ![k] = "queued"]
      /\ UNCHANGED <<_threads, _threadNum, _bTerminate, _atomic, pc, task, ctl, starts>>
  BY DEF Exec
<1>2. TypeOK /\ ThreadsStand /\ QueueHoldsQueued /\ TakenIsCarried
  BY DEF IInv
<1>3. \A j \in Tasks : taskState'[j] = IF j = k THEN "queued" ELSE taskState[j]
  BY <1>1, <1>2 DEF TypeOK
<1>4. _tasks \in Seq(Tasks) /\ \A i \in DOMAIN _tasks : _tasks[i] \in Tasks /\ _tasks[i] # k
  <2>1. _tasks \in Seq(Tasks)
    BY <1>2 DEF TypeOK
  <2>2. \A i \in DOMAIN _tasks : _tasks[i] \in Tasks
    BY <2>1, ElementOfSeq, LenProperties
  <2> QED BY <1>1, <1>2, <2>1, <2>2 DEF QueueHoldsQueued
<1>5. /\ _tasks' \in Seq(Tasks) /\ _tasks' # <<>>
      /\ NoDuplicates(_tasks')
      /\ \A i \in DOMAIN _tasks' :
           _tasks'[i] = k \/ \E j \in DOMAIN _tasks : _tasks'[i] = _tasks[j]
  <2>1. NoDuplicates(_tasks)
    BY <1>2 DEF QueueHoldsQueued
  <2> QED BY <1>1, <1>4, <2>1, BackFacts
<1>6. _condition' \subseteq _condition
  BY <1>1 DEF NotifyOne
<1>7. TypeOK'
  BY <1>1, <1>2, <1>5, <1>6 DEF TypeOK
<1>8. ThreadsStand' /\ AtomicCounts'
  BY <1>1 DEF IInv, ThreadsStand, AtomicCounts, Counted
<1>9. QueueHoldsQueued'
  BY <1>2, <1>3, <1>4, <1>5 DEF QueueHoldsQueued
<1>10. TakenIsCarried'
  BY <1>1, <1>2, <1>3 DEF TakenIsCarried, Carries
<1>11. NoStrandedTask'
  <2>1. SUFFICES ASSUME ~_bTerminate, _threads # {}
                 PROVE  \E w \in _threads : w \notin _condition'
    BY <1>1 DEF NoStrandedTask
  <2>2. CASE \E w \in _threads : w \notin _condition
    BY <2>2, <1>6
  <2>3. CASE _threads \subseteq _condition
    <3>1. _tasks = <<>>
      BY <2>1, <2>3 DEF IInv, NoStrandedTask
    <3>2. \A w \in _threads : ~Busy(w)
      BY <1>2, <2>3, SleeperStands DEF TypeOK
    <3>3. _condition \intersect Waiters = {}
      BY <3>1, <3>2 DEF IInv, CompletionAnnounced, Busy
    <3>4. PICK t \in _condition : _condition' = _condition \ {t}
      BY <1>1, <2>1, <2>3 DEF NotifyOne
    <3>5. t \in Workers
      BY <1>2, <3>3 DEF TypeOK, Threads
    <3> QED BY <1>2, <3>4, <3>5, SleeperStands
  <2> QED BY <2>2, <2>3
<1>12. CompletionAnnounced'
  BY <1>5 DEF CompletionAnnounced
<1> QED BY <1>7, <1>8, <1>9, <1>10, <1>11, <1>12 DEF IInv

-----------------------------------------------------------------------------
(* The loop of run                                                            *)

\* When nobody falls asleep, a worker that was awake still is.
LEMMA AwakeStays ==
  ASSUME NoStrandedTask, UNCHANGED <<_tasks, _threads, _bTerminate>>,
         _condition' \subseteq _condition
  PROVE  NoStrandedTask'
  BY DEF NoStrandedTask

\* When no caller of waitForAllDone falls asleep and the busy workers stay busy,
\* the sleeping callers are still going to be notified.
LEMMA AnnouncedStays ==
  ASSUME TypeOK, CompletionAnnounced, UNCHANGED <<_tasks, _threads>>,
         \A c \in Waiters : c \in _condition' => c \in _condition,
         \A v \in Workers : Busy(v) => pc'[v] \in {"inc", "execute", "decrement", "check"}
  PROVE  CompletionAnnounced'
  BY DEF TypeOK, CompletionAnnounced, Busy

\* The loop tests _bTerminate without the mutex.
LEMMA RunLoopKeeps == ASSUME IInv, NEW w \in Workers, RunLoop(w) PROVE IInv'
<1>1. PICK to \in {"exited", "get"} : pc' = [pc EXCEPT ![w] = to]
  BY DEF RunLoop, Goto
<1>2. /\ pc[w] = "loop"
      /\ UNCHANGED <<_threads, _threadNum, _tasks, _bTerminate, _atomic, _condition,
                     task, ctl, starts, taskState>>
  BY DEF RunLoop, Goto
<1>3. TypeOK /\ ThreadsStand /\ QueueHoldsQueued /\ TakenIsCarried
      /\ NoStrandedTask /\ CompletionAnnounced /\ AtomicCounts
  BY DEF IInv
<1>4. /\ pc' \in [Threads -> PCs]
      /\ \A t \in Threads : pc'[t] = IF t = w THEN to ELSE pc[t]
      /\ ThreadsStand'
      /\ Counted' = Counted \ {w}
  <2>1. to \in WorkerPCs \ {"off"} /\ to \notin {"execute", "decrement"}
    BY DEF WorkerPCs
  <2> QED BY <1>1, <1>2, <1>3, <2>1, WorkerMoves
<1>5. \A v \in Workers : pc'[v] = IF v = w THEN to ELSE pc[v]
  BY <1>4 DEF Threads
<1>6. TypeOK'
  <2>1. w \notin _condition
    BY <1>2, <1>3 DEF TypeOK
  <2> QED BY <1>2, <1>3, <1>4, <2>1 DEF TypeOK
<1>7. AtomicCounts'
  <2>1. Counted' = Counted
    BY <1>2, <1>4 DEF Counted
  <2> QED BY <1>2, <1>3, <2>1 DEF AtomicCounts
<1>8. QueueHoldsQueued' /\ TakenIsCarried'
  BY <1>2, <1>3, <1>5, TasksStay
<1>9. NoStrandedTask' /\ CompletionAnnounced'
  BY <1>2, <1>3, <1>5, AwakeStays, AnnouncedStays DEF Busy
<1> QED BY <1>4, <1>6, <1>7, <1>8, <1>9 DEF IInv

\* get: a worker sleeps only on an empty queue, and takes only a task that is queued.
LEMMA GetKeeps == ASSUME IInv, NEW w \in Workers, Get(w) PROVE IInv'
<1>1. /\ pc[w] = "get" \/ (pc[w] = "getWait" /\ w \notin _condition)
      /\ UNCHANGED <<_threads, _threadNum, _bTerminate, _atomic, ctl, starts>>
  BY DEF Get
<1>2. TypeOK /\ ThreadsStand /\ QueueHoldsQueued /\ TakenIsCarried
      /\ NoStrandedTask /\ CompletionAnnounced /\ AtomicCounts
  BY DEF IInv
<1>3. w \notin _condition
  BY <1>1, <1>2 DEF TypeOK
\* Wherever the worker goes from here.
<1>4. ASSUME NEW to \in {"getWait", "loop", "inc"}, pc' = [pc EXCEPT ![w] = to]
      PROVE  /\ pc' \in [Threads -> PCs]
             /\ \A t \in Threads : pc'[t] = IF t = w THEN to ELSE pc[t]
             /\ \A v \in Workers : pc'[v] = IF v = w THEN to ELSE pc[v]
             /\ ThreadsStand' /\ w \in _threads
             /\ AtomicCounts'
  <2>1. to \in WorkerPCs \ {"off"} /\ to \notin {"execute", "decrement"}
    BY DEF WorkerPCs
  <2>2. /\ pc' \in [Threads -> PCs]
        /\ \A t \in Threads : pc'[t] = IF t = w THEN to ELSE pc[t]
        /\ ThreadsStand' /\ w \in _threads
        /\ Counted' = Counted \ {w}
    BY <1>1, <1>2, <1>4, <2>1, WorkerMoves
  <2>3. Counted' = Counted
    BY <1>1, <2>2 DEF Counted
  <2>4. AtomicCounts'
    BY <1>1, <1>2, <2>3 DEF AtomicCounts
  <2> QED BY <2>2, <2>4 DEF Threads
<1>5. CASE /\ ~HasWork
           /\ pc' = [pc EXCEPT ![w] = "getWait"]
           /\ _condition' = _condition \union {w}
           /\ UNCHANGED <<task, _tasks, taskState>>
  <2>1. /\ pc' \in [Threads -> PCs]
        /\ \A t \in Threads : pc'[t] = IF t = w THEN "getWait" ELSE pc[t]
        /\ \A v \in Workers : pc'[v] = IF v = w THEN "getWait" ELSE pc[v]
        /\ ThreadsStand' /\ AtomicCounts'
    BY <1>4, <1>5
  <2>2. TypeOK'
    <3>1. w \in Threads
      BY DEF Threads
    <3> QED BY <1>1, <1>2, <1>5, <2>1, <3>1 DEF TypeOK
  <2>3. QueueHoldsQueued' /\ TakenIsCarried'
    BY <1>1, <1>2, <1>5, <2>1, TasksStay
  <2>4. NoStrandedTask'
    BY <1>5 DEF NoStrandedTask, HasWork
  <2>5. CompletionAnnounced'
    <3>1. \A c \in Waiters : c \in _condition' => c \in _condition
      BY <1>5, ThreadsAssumption
    <3> QED BY <1>1, <1>2, <1>5, <2>1, <3>1, AnnouncedStays DEF Busy
  <2> QED BY <2>1, <2>2, <2>3, <2>4, <2>5 DEF IInv
<1>6. CASE /\ pc' = [pc EXCEPT ![w] = "loop"]
           /\ UNCHANGED <<task, _tasks, taskState, _condition>>
  <2>1. /\ pc' \in [Threads -> PCs]
        /\ \A t \in Threads : pc'[t] = IF t = w THEN "loop" ELSE pc[t]
        /\ \A v \in Workers : pc'[v] = IF v = w THEN "loop" ELSE pc[v]
        /\ ThreadsStand' /\ AtomicCounts'
    BY <1>4, <1>6
  <2>2. TypeOK'
    BY <1>1, <1>2, <1>3, <1>6, <2>1 DEF TypeOK
  <2>3. QueueHoldsQueued' /\ TakenIsCarried'
    BY <1>1, <1>2, <1>6, <2>1, TasksStay
  <2>4. NoStrandedTask' /\ CompletionAnnounced'
    BY <1>1, <1>2, <1>6, <2>1, AwakeStays, AnnouncedStays DEF Busy
  <2> QED BY <2>1, <2>2, <2>3, <2>4 DEF IInv
<1>7. CASE /\ ~_bTerminate /\ _tasks # <<>>
           /\ pc' = [pc EXCEPT ![w] = "inc"]
           /\ task' = [task EXCEPT ![w] = Head(_tasks)]
           /\ _tasks' = Tail(_tasks)
           /\ taskState' = [taskState EXCEPT ![Head(_tasks)] = "taken"]
           /\ UNCHANGED _condition
  <2> DEFINE k == Head(_tasks)
  <2>1. /\ pc' \in [Threads -> PCs]
        /\ \A t \in Threads : pc'[t] = IF t = w THEN "inc" ELSE pc[t]
        /\ \A v \in Workers : pc'[v] = IF v = w THEN "inc" ELSE pc[v]
        /\ ThreadsStand' /\ w \in _threads /\ AtomicCounts'
    BY <1>4, <1>7
  <2>2. /\ k \in Tasks
        /\ _tasks' \in Seq(Tasks)
        /\ NoDuplicates(_tasks')
        /\ \E i \in DOMAIN _tasks : _tasks[i] = k
        /\ \A i \in DOMAIN _tasks' :
             _tasks'[i] # k /\ \E j \in DOMAIN _tasks : _tasks'[i] = _tasks[j]
    <3>1. _tasks \in Seq(Tasks) /\ NoDuplicates(_tasks)
      BY <1>2 DEF TypeOK, QueueHoldsQueued
    <3> QED BY <1>7, <3>1, FrontFacts
  <2>3. taskState[k] = "queued"
    BY <1>2, <2>2 DEF QueueHoldsQueued
  <2> HIDE DEF k
  <2>4. /\ \A j \in Tasks : taskState'[j] = IF j = k THEN "taken" ELSE taskState[j]
        /\ \A v \in Workers : task'[v] = IF v = w THEN k ELSE task[v]
    BY <1>2, <1>7 DEF TypeOK, k
  <2>5. TypeOK'
    <3>1. /\ task' \in [Workers -> Tasks \union {NoTask}]
          /\ taskState' \in [Tasks -> {"new", "queued", "taken", "done", "expired"}]
      BY <1>2, <1>7, <2>2 DEF TypeOK, k
    <3>2. _condition' \subseteq {t \in Threads : pc'[t] \in {"getWait", "wait", "waitFor"}}
      BY <1>2, <1>3, <1>7, <2>1 DEF TypeOK
    <3> QED BY <1>1, <1>2, <2>1, <2>2, <3>1, <3>2 DEF TypeOK
  <2>6. QueueHoldsQueued'
    <3>1. \A i \in DOMAIN _tasks : _tasks[i] \in Tasks
      BY <1>2, ElementOfSeq, LenProperties DEF TypeOK
    <3> QED BY <1>2, <2>2, <2>4, <3>1 DEF QueueHoldsQueued
  <2>7. TakenIsCarried'
    <3>1. \A v \in Workers : pc[v] \in {"inc", "execute"} => task[v] # k
      BY <1>2, <2>3 DEF TakenIsCarried, Carries
    <3>2. \A v \in Workers : pc'[v] \in {"inc", "execute"} =>
            task'[v] \in Tasks /\ taskState'[task'[v]] = "taken"
      BY <1>2, <2>1, <2>2, <2>4, <3>1 DEF TakenIsCarried, Carries
    <3>3. ASSUME NEW u \in Workers, NEW v \in Workers,
                 pc'[u] \in {"inc", "execute"}, pc'[v] \in {"inc", "execute"},
                 task'[u] = task'[v]
          PROVE  u = v
      <4>1. CASE u # w /\ v # w
        BY <4>1, <3>3, <1>2, <2>1, <2>4 DEF TakenIsCarried, Carries
      <4>2. CASE u = w /\ v # w
        BY <4>2, <3>1, <3>3, <2>1, <2>4
      <4>3. CASE u # w /\ v = w
        BY <4>3, <3>1, <3>3, <2>1, <2>4
      <4> QED BY <4>1, <4>2, <4>3
    <3>4. ASSUME NEW j \in Tasks, taskState'[j] = "taken"
          PROVE  \E v \in Workers : pc'[v] \in {"inc", "execute"} /\ task'[v] = j
      <4>1. CASE j = k
        BY <4>1, <2>1, <2>4
      <4>2. CASE j # k
        <5>1. PICK v \in Workers : pc[v] \in {"inc", "execute"} /\ task[v] = j
          BY <1>2, <2>4, <3>4, <4>2 DEF TakenIsCarried, Carries
        <5>2. v # w
          BY <1>1, <5>1
        <5> QED BY <2>1, <2>4, <5>1, <5>2
      <4> QED BY <4>1, <4>2
    <3> QED BY <3>2, <3>3, <3>4 DEF TakenIsCarried, Carries
  <2>8. NoStrandedTask'
    BY <1>1, <1>3, <1>7, <2>1 DEF NoStrandedTask
  <2>9. CompletionAnnounced'
    BY <1>1, <2>1, <1>2 DEF CompletionAnnounced, TypeOK
  <2> QED BY <2>1, <2>5, <2>6, <2>7, <2>8, <2>9 DEF IInv
<1> QED BY <1>5, <1>6, <1>7 DEF Get, GetFromQueue

\* ++_atomic counts the worker that is about to execute.
LEMMA RunIncrementKeeps == ASSUME IInv, NEW w \in Workers, RunIncrement(w) PROVE IInv'
<1>1. /\ pc[w] = "inc" /\ pc' = [pc EXCEPT ![w] = "execute"]
      /\ _atomic' = _atomic + 1
      /\ UNCHANGED <<_threads, _threadNum, _tasks, _bTerminate, _condition, task,
                     ctl, starts, taskState>>
  BY DEF RunIncrement, Goto
<1>2. TypeOK /\ ThreadsStand /\ QueueHoldsQueued /\ TakenIsCarried
      /\ NoStrandedTask /\ CompletionAnnounced /\ AtomicCounts
  BY DEF IInv
<1>3. /\ pc' \in [Threads -> PCs]
      /\ \A t \in Threads : pc'[t] = IF t = w THEN "execute" ELSE pc[t]
      /\ \A v \in Workers : pc'[v] = IF v = w THEN "execute" ELSE pc[v]
      /\ ThreadsStand' /\ w \in _threads
      /\ Counted' = Counted \union {w}
  <2>1. "execute" \in WorkerPCs \ {"off"}
    BY DEF WorkerPCs
  <2>2. /\ pc' \in [Threads -> PCs]
        /\ \A t \in Threads : pc'[t] = IF t = w THEN "execute" ELSE pc[t]
        /\ ThreadsStand' /\ w \in _threads
        /\ Counted' = Counted \union {w}
    BY <1>1, <1>2, <2>1, WorkerMoves
  <2> QED BY <2>2 DEF Threads
<1>4. _condition \subseteq {t \in Threads : pc'[t] \in {"getWait", "wait", "waitFor"}}
  BY <1>1, <1>2, <1>3 DEF TypeOK
<1>5. AtomicCounts' /\ _atomic' \in 0 .. Cardinality(Workers)
  <2>1. /\ IsFiniteSet(Counted) /\ Cardinality(Counted) \in Nat
        /\ Cardinality(Counted') \in 0 .. Cardinality(Workers)
    BY WorkersCounted DEF Counted
  <2>2. w \notin Counted
    BY <1>1 DEF Counted
  <2>3. Cardinality(Counted') = Cardinality(Counted) + 1
    BY <1>3, <2>1, <2>2, FS_AddElement
  <2> QED BY <1>1, <1>2, <2>1, <2>3 DEF AtomicCounts
<1>6. TypeOK'
  BY <1>1, <1>2, <1>3, <1>4, <1>5 DEF TypeOK
<1>7. QueueHoldsQueued' /\ TakenIsCarried'
  BY <1>1, <1>2, <1>3, TasksStay
<1>8. NoStrandedTask' /\ CompletionAnnounced'
  BY <1>1, <1>2, <1>3, AwakeStays, AnnouncedStays DEF Busy
<1> QED BY <1>3, <1>5, <1>6, <1>7, <1>8 DEF IInv

\* The end of the task that this worker alone carries.
LEMMA RunTaskKeeps == ASSUME IInv, NEW w \in Workers, RunTask(w) PROVE IInv'
<1>1. /\ pc[w] = "execute" /\ pc' = [pc EXCEPT ![w] = "decrement"]
      /\ task' = [task EXCEPT ![w] = NoTask]
      /\ UNCHANGED <<_threads, _threadNum, _tasks, _bTerminate, _atomic, _condition,
                     ctl, starts>>
  BY DEF RunTask, Goto
<1>2. TypeOK /\ ThreadsStand /\ QueueHoldsQueued /\ TakenIsCarried
      /\ NoStrandedTask /\ CompletionAnnounced /\ AtomicCounts
  BY DEF IInv
<1>3. /\ pc' \in [Threads -> PCs]
      /\ \A t \in Threads : pc'[t] = IF t = w THEN "decrement" ELSE pc[t]
      /\ \A v \in Workers : pc'[v] = IF v = w THEN "decrement" ELSE pc[v]
      /\ ThreadsStand' /\ w \in _threads
      /\ Counted' = Counted \union {w}
  <2>1. "decrement" \in WorkerPCs \ {"off"}
    BY DEF WorkerPCs
  <2>2. /\ pc' \in [Threads -> PCs]
        /\ \A t \in Threads : pc'[t] = IF t = w THEN "decrement" ELSE pc[t]
        /\ ThreadsStand' /\ w \in _threads
        /\ Counted' = Counted \union {w}
    BY <1>1, <1>2, <2>1, WorkerMoves
  <2> QED BY <2>2 DEF Threads
<1>4. _condition \subseteq {t \in Threads : pc'[t] \in {"getWait", "wait", "waitFor"}}
  BY <1>1, <1>2, <1>3 DEF TypeOK
<1>5. PICK end \in {"done", "expired"} : taskState' = [taskState EXCEPT ![task[w]] = end]
  BY DEF RunTask
<1>6. task[w] \in Tasks /\ taskState[task[w]] = "taken"
  BY <1>1, <1>2 DEF TakenIsCarried, Carries
<1>7. /\ \A k \in Tasks : taskState'[k] = IF k = task[w] THEN end ELSE taskState[k]
      /\ \A v \in Workers : task'[v] = IF v = w THEN NoTask ELSE task[v]
  BY <1>1, <1>2, <1>5 DEF TypeOK
<1>8. TypeOK'
  <2>1. /\ task' \in [Workers -> Tasks \union {NoTask}]
        /\ taskState' \in [Tasks -> {"new", "queued", "taken", "done", "expired"}]
    BY <1>1, <1>2, <1>5 DEF TypeOK
  <2> QED BY <1>1, <1>2, <1>3, <1>4, <2>1 DEF TypeOK
<1>9. AtomicCounts'
  <2>1. Counted' = Counted
    BY <1>1, <1>3 DEF Counted
  <2> QED BY <1>1, <1>2, <2>1 DEF AtomicCounts
<1>10. QueueHoldsQueued'
  <2>1. \A i \in DOMAIN _tasks : _tasks[i] \in Tasks
    BY <1>2, ElementOfSeq, LenProperties DEF TypeOK
  <2>2. NoDuplicates(_tasks')
    BY <1>1, <1>2 DEF QueueHoldsQueued, NoDuplicates
  <2> QED BY <1>1, <1>2, <1>6, <1>7, <2>1, <2>2 DEF QueueHoldsQueued
<1>11. TakenIsCarried'
  <2>1. \A v \in Workers \ {w} : pc[v] \in {"inc", "execute"} => task[v] # task[w]
    BY <1>1, <1>2 DEF TakenIsCarried, Carries
  <2>2. \A v \in Workers : pc'[v] \in {"inc", "execute"} =>
          v # w /\ task'[v] \in Tasks /\ taskState'[task'[v]] = "taken"
    BY <1>2, <1>3, <1>7, <2>1 DEF TakenIsCarried, Carries
  <2>3. ASSUME NEW u \in Workers, NEW v \in Workers,
               pc'[u] \in {"inc", "execute"}, pc'[v] \in {"inc", "execute"},
               task'[u] = task'[v]
        PROVE  u = v
    <3>1. u # w /\ v # w
      BY <2>2, <2>3
    <3>2. Carries(u) /\ Carries(v) /\ task[u] = task[v]
      BY <1>3, <1>7, <2>3, <3>1 DEF Carries
    <3> QED BY <1>2, <3>2 DEF TakenIsCarried
  <2>4. ASSUME NEW k \in Tasks, taskState'[k] = "taken"
        PROVE  \E v \in Workers : pc'[v] \in {"inc", "execute"} /\ task'[v] = k
    <3>1. k # task[w] /\ taskState[k] = "taken"
      BY <1>6, <1>7, <2>4
    <3>2. PICK v \in Workers : pc[v] \in {"inc", "execute"} /\ task[v] = k
      BY <1>2, <3>1 DEF TakenIsCarried, Carries
    <3> QED BY <1>3, <1>7, <3>1, <3>2
  <2> QED BY <2>2, <2>3, <2>4 DEF TakenIsCarried, Carries
<1>12. NoStrandedTask' /\ CompletionAnnounced'
  BY <1>1, <1>2, <1>3, AwakeStays, AnnouncedStays DEF Busy
<1> QED BY <1>3, <1>8, <1>9, <1>10, <1>11, <1>12 DEF IInv

\* --_atomic, of a worker that is counted.
LEMMA RunDecrementKeeps == ASSUME IInv, NEW w \in Workers, RunDecrement(w) PROVE IInv'
<1>1. /\ pc[w] = "decrement" /\ pc' = [pc EXCEPT ![w] = "check"]
      /\ _atomic' = _atomic - 1
      /\ UNCHANGED <<_threads, _threadNum, _tasks, _bTerminate, _condition, task,
                     ctl, starts, taskState>>
  BY DEF RunDecrement, Goto
<1>2. TypeOK /\ ThreadsStand /\ QueueHoldsQueued /\ TakenIsCarried
      /\ NoStrandedTask /\ CompletionAnnounced /\ AtomicCounts
  BY DEF IInv
<1>3. /\ pc' \in [Threads -> PCs]
      /\ \A t \in Threads : pc'[t] = IF t = w THEN "check" ELSE pc[t]
      /\ \A v \in Workers : pc'[v] = IF v = w THEN "check" ELSE pc[v]
      /\ ThreadsStand' /\ w \in _threads
      /\ Counted' = Counted \ {w}
  <2>1. "check" \in WorkerPCs \ {"off"}
    BY DEF WorkerPCs
  <2>2. /\ pc' \in [Threads -> PCs]
        /\ \A t \in Threads : pc'[t] = IF t = w THEN "check" ELSE pc[t]
        /\ ThreadsStand' /\ w \in _threads
        /\ Counted' = Counted \ {w}
    BY <1>1, <1>2, <2>1, WorkerMoves
  <2> QED BY <2>2 DEF Threads
<1>4. _condition \subseteq {t \in Threads : pc'[t] \in {"getWait", "wait", "waitFor"}}
  BY <1>1, <1>2, <1>3 DEF TypeOK
<1>5. AtomicCounts' /\ _atomic' \in 0 .. Cardinality(Workers)
  <2>1. /\ IsFiniteSet(Counted) /\ Cardinality(Counted) \in Nat
        /\ Cardinality(Counted') \in 0 .. Cardinality(Workers)
    BY WorkersCounted DEF Counted
  <2>2. w \in Counted
    BY <1>1 DEF Counted
  <2>3. Cardinality(Counted') = Cardinality(Counted) - 1
    BY <1>3, <2>1, <2>2, FS_RemoveElement
  <2> QED BY <1>1, <1>2, <2>1, <2>3 DEF AtomicCounts
<1>6. TypeOK'
  BY <1>1, <1>2, <1>3, <1>4, <1>5 DEF TypeOK
<1>7. QueueHoldsQueued' /\ TakenIsCarried'
  BY <1>1, <1>2, <1>3, TasksStay
<1>8. NoStrandedTask' /\ CompletionAnnounced'
  BY <1>1, <1>2, <1>3, AwakeStays, AnnouncedStays DEF Busy
<1> QED BY <1>3, <1>5, <1>6, <1>7, <1>8 DEF IInv

\* The check under the mutex: a worker that does not notify leaves a counted worker
\* behind, which still comes to its own check, or tasks in the queue.
LEMMA RunCheckKeeps == ASSUME IInv, NEW w \in Workers, RunCheck(w) PROVE IInv'
<1>1. /\ pc[w] = "check" /\ pc' = [pc EXCEPT ![w] = "loop"]
      /\ UNCHANGED <<_threads, _threadNum, _tasks, _bTerminate, _atomic, task, ctl,
                     starts, taskState>>
  BY DEF RunCheck, Goto
<1>2. TypeOK /\ ThreadsStand /\ QueueHoldsQueued /\ TakenIsCarried
      /\ NoStrandedTask /\ CompletionAnnounced /\ AtomicCounts
  BY DEF IInv
<1>3. /\ pc' \in [Threads -> PCs]
      /\ \A t \in Threads : pc'[t] = IF t = w THEN "loop" ELSE pc[t]
      /\ \A v \in Workers : pc'[v] = IF v = w THEN "loop" ELSE pc[v]
      /\ ThreadsStand' /\ w \in _threads
      /\ Counted' = Counted \ {w}
  <2>1. "loop" \in WorkerPCs \ {"off"}
    BY DEF WorkerPCs
  <2>2. /\ pc' \in [Threads -> PCs]
        /\ \A t \in Threads : pc'[t] = IF t = w THEN "loop" ELSE pc[t]
        /\ ThreadsStand' /\ w \in _threads
        /\ Counted' = Counted \ {w}
    BY <1>1, <1>2, <2>1, WorkerMoves
  <2> QED BY <2>2 DEF Threads
<1>4. _condition \subseteq {t \in Threads : pc'[t] \in {"getWait", "wait", "waitFor"}}
  BY <1>1, <1>2, <1>3 DEF TypeOK
<1>5. _condition' \subseteq _condition
  BY DEF RunCheck, NotifyAll
<1>6. TypeOK'
  BY <1>1, <1>2, <1>3, <1>4, <1>5 DEF TypeOK
<1>7. Counted' = Counted /\ AtomicCounts'
  <2>1. Counted' = Counted
    BY <1>1, <1>3 DEF Counted
  <2> QED BY <1>1, <1>2, <2>1 DEF AtomicCounts
<1>8. QueueHoldsQueued' /\ TakenIsCarried'
  BY <1>1, <1>2, <1>3, TasksStay
<1>9. NoStrandedTask'
  BY <1>1, <1>2, <1>5, AwakeStays
<1>10. CompletionAnnounced'
  <2>1. CASE _condition' = {}
    BY <2>1 DEF CompletionAnnounced
  <2>2. CASE _tasks # <<>>
    BY <2>2, <1>1 DEF CompletionAnnounced
  <2>3. CASE _atomic # 0
    <3>1. Counted # {}
      BY <1>2, <2>3, FS_EmptySet DEF AtomicCounts
    <3>2. PICK v \in Counted : TRUE
      BY <3>1
    <3>3. v \in Workers /\ pc[v] \in {"execute", "decrement"} /\ v # w
      BY <1>1, <3>2 DEF Counted
    <3>4. v \in _threads /\ pc'[v] = pc[v]
      BY <1>2, <1>3, <3>3 DEF ThreadsStand
    <3> QED BY <1>1, <3>3, <3>4 DEF CompletionAnnounced
  <2> QED BY <2>1, <2>2, <2>3 DEF RunCheck, NotifyAll
<1> QED BY <1>3, <1>6, <1>7, <1>8, <1>9, <1>10 DEF IInv

-----------------------------------------------------------------------------
(* waitForAllDone                                                             *)

\* A step of a caller keeps the invariant if it falls asleep only while tasks are
\* queued, which the workers have still to finish.
LEMMA CallerKeeps ==
  ASSUME IInv, NEW c \in Waiters, NEW to \in WaiterPCs,
         pc' = [pc EXCEPT ![c] = to],
         \/ _condition' = _condition /\ c \notin _condition
         \/ _condition' = _condition \ {c}
         \/ _condition' = _condition \union {c} /\ to \in {"wait", "waitFor"} /\ ~QueueEmpty,
         UNCHANGED <<_threads, _threadNum, _tasks, _bTerminate, _atomic, task, ctl,
                     starts, taskState>>
  PROVE  IInv'
<1>1. c \in Threads /\ c \notin Workers
  BY ThreadsAssumption DEF Threads
<1>2. TypeOK /\ ThreadsStand /\ QueueHoldsQueued /\ TakenIsCarried
      /\ NoStrandedTask /\ CompletionAnnounced /\ AtomicCounts
  BY DEF IInv
<1>3. /\ pc' \in [Threads -> PCs]
      /\ \A t \in Threads : pc'[t] = IF t = c THEN to ELSE pc[t]
      /\ \A w \in Workers : pc'[w] = pc[w]
      /\ ThreadsStand'
      /\ Counted' = Counted
  BY <1>2, WaiterMoves
<1>4. TypeOK'
  <2>1. _condition' \subseteq {t \in Threads : pc'[t] \in {"getWait", "wait", "waitFor"}}
    BY <1>1, <1>2, <1>3 DEF TypeOK
  <2> QED BY <1>2, <1>3, <2>1 DEF TypeOK
<1>5. AtomicCounts'
  BY <1>2, <1>3 DEF AtomicCounts
<1>6. QueueHoldsQueued' /\ TakenIsCarried'
  BY <1>2, <1>3, TasksStay
<1>7. NoStrandedTask'
  <2>1. \A w \in _threads : w \notin _condition => w \notin _condition'
    BY <1>1, <1>2 DEF TypeOK
  <2> QED BY <1>2, <2>1 DEF NoStrandedTask
<1>8. CompletionAnnounced'
  <2>1. CASE _tasks # <<>>
    BY <2>1 DEF CompletionAnnounced
  <2>2. CASE _tasks = <<>>
    <3>1. _condition' \subseteq _condition
      BY <2>2 DEF QueueEmpty
    <3> QED BY <1>2, <1>3, <3>1, AnnouncedStays DEF Busy
  <2> QED BY <2>1, <2>2
<1> QED BY <1>3, <1>4, <1>5, <1>6, <1>7, <1>8 DEF IInv

\* The steps of a call of waitForAllDone.
LEMMA WaiterStepKeeps ==
  ASSUME IInv, NEW c \in Waiters, WaitBegin(c) \/ WaiterReturns(c) PROVE IInv'
<1>1. /\ c \in Threads
      /\ pc[c] \in WaiterPCs
      /\ pc = [pc EXCEPT ![c] = pc[c]]
      /\ c \in _condition => pc[c] \in {"getWait", "wait", "waitFor"}
  BY DEF IInv, ThreadsStand, TypeOK, Threads
<1>2. CASE WaitBegin(c)
  <2>1. pc[c] = "idle" /\ c \notin _condition
    BY <1>1, <1>2 DEF WaitBegin
  <2>2. CASE QueueEmpty /\ pc' = [pc EXCEPT ![c] = "returnTrue"] /\ UNCHANGED _condition
    <3>1. "returnTrue" \in WaiterPCs
      BY DEF WaiterPCs
    <3> QED BY <1>2, <2>1, <2>2, <3>1, CallerKeeps DEF WaitBegin
  <2>3. CASE /\ ~QueueEmpty
             /\ pc' \in {[pc EXCEPT ![c] = to] : to \in {"wait", "waitFor"}}
             /\ _condition' = _condition \union {c}
    <3>1. PICK to \in {"wait", "waitFor"} : pc' = [pc EXCEPT ![c] = to]
      BY <2>3
    <3>2. to \in WaiterPCs
      BY DEF WaiterPCs
    <3> QED BY <1>2, <2>3, <3>1, <3>2, CallerKeeps DEF WaitBegin
  <2> QED BY <1>2, <2>2, <2>3 DEF WaitBegin
<1>3. CASE WaitWoken(c)
  <2>1. pc[c] \in {"wait", "waitFor"} /\ c \notin _condition
    BY <1>3 DEF WaitWoken
  <2>2. CASE QueueEmpty /\ pc' = [pc EXCEPT ![c] = "returnTrue"] /\ UNCHANGED _condition
    <3>1. "returnTrue" \in WaiterPCs
      BY DEF WaiterPCs
    <3> QED BY <1>3, <2>1, <2>2, <3>1, CallerKeeps DEF WaitWoken
  <2>3. CASE ~QueueEmpty /\ _condition' = _condition \union {c} /\ UNCHANGED pc
    <3>1. pc' = [pc EXCEPT ![c] = pc[c]]
      BY <1>1, <2>3
    <3> QED BY <1>1, <1>3, <2>1, <2>3, <3>1, CallerKeeps DEF WaitWoken
  <2> QED BY <1>3, <2>2, <2>3 DEF WaitWoken
<1>4. CASE WaitTimeout(c)
  <2>1. PICK to \in {"returnTrue", "returnFalse"} : pc' = [pc EXCEPT ![c] = to]
    BY <1>4 DEF WaitTimeout
  <2>2. to \in WaiterPCs
    BY DEF WaiterPCs
  <2> QED BY <1>4, <2>1, <2>2, CallerKeeps DEF WaitTimeout
<1>5. CASE WaitReturn(c)
  <2>1. pc[c] \in {"returnTrue", "returnFalse"} /\ pc' = [pc EXCEPT ![c] = "idle"]
    BY <1>5 DEF WaitReturn, Goto
  <2>2. "idle" \in WaiterPCs /\ c \notin _condition
    BY <1>1, <2>1 DEF WaiterPCs
  <2> QED BY <1>5, <2>1, <2>2, CallerKeeps DEF WaitReturn
<1> QED BY <1>2, <1>3, <1>4, <1>5 DEF WaiterReturns

\* A wakeup nobody sent.
LEMMA SpuriousWakeupKeeps ==
  ASSUME IInv, NEW t \in Threads, SpuriousWakeup(t) PROVE IInv'
<1>1. /\ _condition' \subseteq _condition
      /\ UNCHANGED <<_threads, _threadNum, _tasks, _bTerminate, _atomic, pc, task,
                     ctl, starts, taskState>>
  BY DEF SpuriousWakeup
<1>2. TypeOK /\ ThreadsStand /\ QueueHoldsQueued /\ TakenIsCarried
      /\ NoStrandedTask /\ CompletionAnnounced /\ AtomicCounts
  BY DEF IInv
<1>3. TypeOK'
  BY <1>1, <1>2 DEF TypeOK
<1>4. ThreadsStand' /\ AtomicCounts'
  BY <1>1, <1>2 DEF ThreadsStand, AtomicCounts, Counted
<1>5. QueueHoldsQueued' /\ TakenIsCarried'
  BY <1>1, <1>2, TasksStay
<1>6. NoStrandedTask' /\ CompletionAnnounced'
  BY <1>1, <1>2, AwakeStays, AnnouncedStays DEF Busy
<1> QED BY <1>3, <1>4, <1>5, <1>6 DEF IInv

-----------------------------------------------------------------------------
(* stop                                                                       *)

\* stop wakes everybody.
LEMMA StopSignalKeeps == IInv /\ StopSignal => IInv'
<1> SUFFICES ASSUME IInv, StopSignal PROVE IInv'
  OBVIOUS
<1>1. /\ ctl' = "join" /\ _bTerminate' = TRUE /\ _condition' = {}
      /\ UNCHANGED <<_threads, _threadNum, _tasks, _atomic, pc, task, starts, taskState>>
  BY DEF StopSignal, NotifyAll
<1>2. TypeOK /\ ThreadsStand /\ QueueHoldsQueued /\ TakenIsCarried
      /\ NoStrandedTask /\ CompletionAnnounced /\ AtomicCounts
  BY DEF IInv
<1>3. TypeOK'
  BY <1>1, <1>2 DEF TypeOK
<1>4. ThreadsStand' /\ AtomicCounts'
  BY <1>1, <1>2 DEF ThreadsStand, AtomicCounts, Counted
<1>5. QueueHoldsQueued' /\ TakenIsCarried'
  BY <1>1, <1>2, TasksStay
<1>6. NoStrandedTask' /\ CompletionAnnounced'
  BY <1>1 DEF NoStrandedTask, CompletionAnnounced
<1> QED BY <1>3, <1>4, <1>5, <1>6 DEF IInv

\* The workers that are joined have left the loop: none of them sleeps, carries a
\* task or owes an announcement.
LEMMA StopJoinKeeps == IInv /\ StopJoin => IInv'
<1> SUFFICES ASSUME IInv, StopJoin PROVE IInv'
  OBVIOUS
<1>1. /\ \A w \in _threads : pc[w] = "exited"
      /\ ctl' = "idle" /\ _threads' = {}
      /\ pc' = [t \in Threads |-> IF t \in _threads THEN "off" ELSE pc[t]]
      /\ UNCHANGED <<_threadNum, _tasks, _bTerminate, _atomic, _condition, task,
                     starts, taskState>>
  BY DEF StopJoin
<1>2. TypeOK /\ ThreadsStand /\ QueueHoldsQueued /\ TakenIsCarried
      /\ NoStrandedTask /\ CompletionAnnounced /\ AtomicCounts
  BY DEF IInv
<1>3. \A t \in Threads : pc'[t] = IF t \in _threads THEN "off" ELSE pc[t]
  BY <1>1
<1>4. \A w \in Workers : pc'[w] = "off" /\ pc[w] \in {"off", "exited"}
  BY <1>1, <1>2, <1>3 DEF ThreadsStand, Threads
<1>5. TypeOK'
  <2>1. pc' \in [Threads -> PCs]
    BY <1>1, <1>2 DEF TypeOK, PCs
  <2>2. _condition' \subseteq {t \in Threads : pc'[t] \in {"getWait", "wait", "waitFor"}}
    BY <1>1, <1>2, <1>3 DEF TypeOK
  <2> QED BY <1>1, <1>2, <2>1, <2>2 DEF TypeOK
<1>6. ThreadsStand'
  <2>1. \A c \in Waiters : pc'[c] = pc[c]
    BY <1>2, <1>3, ThreadsAssumption DEF Threads, TypeOK
  <2> QED BY <1>1, <1>2, <1>4, <2>1 DEF ThreadsStand, WorkerPCs
<1>7. AtomicCounts'
  <2>1. Counted' = Counted
    BY <1>4 DEF Counted
  <2> QED BY <1>1, <1>2, <2>1 DEF AtomicCounts
<1>8. QueueHoldsQueued' /\ TakenIsCarried'
  BY <1>1, <1>2, <1>4, TasksStay
<1>9. NoStrandedTask'
  BY <1>1 DEF NoStrandedTask
<1>10. CompletionAnnounced'
  BY <1>1, <1>2 DEF CompletionAnnounced
<1> QED BY <1>5, <1>6, <1>7, <1>8, <1>9, <1>10 DEF IInv

-----------------------------------------------------------------------------
(* What follows                                                               *)

\* Nothing happens.
LEMMA StutterKeeps == IInv /\ UNCHANGED vars => IInv'
<1> SUFFICES ASSUME IInv, UNCHANGED vars PROVE IInv'
  OBVIOUS
<1> USE DEF vars, IInv
<1>1. TypeOK'
  BY DEF TypeOK
<1>2. ThreadsStand' /\ AtomicCounts'
  BY DEF ThreadsStand, AtomicCounts, Counted
<1>3. QueueHoldsQueued' /\ TakenIsCarried'
  BY TasksStay
<1>4. NoStrandedTask' /\ CompletionAnnounced'
  BY DEF NoStrandedTask, CompletionAnnounced
<1> QED BY <1>1, <1>2, <1>3, <1>4

\* Every step of the pool, its callers and its controller keeps the invariant.
LEMMA NextKeeps == IInv /\ [Next]_vars => IInv'
<1> SUFFICES ASSUME IInv, [Next]_vars PROVE IInv'
  OBVIOUS
<1>1. CASE ControllerStep
  BY <1>1, InitPoolKeeps, StartKeeps, StopSignalKeeps, StopJoinKeeps DEF ControllerStep
<1>2. ASSUME NEW k \in Tasks, Exec(k) PROVE IInv'
  BY <1>2, ExecKeeps
<1>3. ASSUME NEW w \in Workers, WorkerStep(w) PROVE IInv'
  BY <1>3, RunLoopKeeps, GetKeeps, RunIncrementKeeps, RunTaskKeeps, RunDecrementKeeps,
     RunCheckKeeps DEF WorkerStep
<1>4. ASSUME NEW c \in Waiters, WaitBegin(c) \/ WaiterReturns(c) PROVE IInv'
  BY <1>4, WaiterStepKeeps
<1>5. ASSUME NEW t \in Threads, SpuriousWakeup(t) PROVE IInv'
  BY <1>5, SpuriousWakeupKeeps
<1>6. CASE UNCHANGED vars
  BY <1>6, StutterKeeps
<1> QED BY <1>1, <1>2, <1>3, <1>4, <1>5, <1>6 DEF Next

\* The invariant holds in every state of the pool (ZeroThreadpool.cpp), whatever
\* its callers do.
THEOREM Invariance == Spec => []IInv
  BY InitHolds, NextKeeps, PTL DEF Spec

\* The condition variable that run and waitForAllDone share loses no wakeup: exec
\* strands no task, and every completion a caller waits for is announced.
THEOREM WakeupSafety == Spec => []NoLostWakeup
<1>1. IInv => NoLostWakeup
  BY DEF IInv, NoLostWakeup
<1> QED BY <1>1, Invariance, PTL

\* stop returns only when no task is in execution or about to be.
THEOREM StopSafety == Spec => []StopWaitsForRunning
<1>1. IInv => StopWaitsForRunning
  <2> SUFFICES ASSUME IInv, _threads = {}
               PROVE  (\A k \in Tasks : taskState[k] # "taken") /\ _atomic = 0
    BY DEF StopWaitsForRunning
  <2>1. \A w \in Workers : pc[w] = "off"
    BY DEF IInv, ThreadsStand
  <2>2. \A k \in Tasks : taskState[k] # "taken"
    BY <2>1 DEF IInv, TakenIsCarried, Carries
  <2>3. Counted = {}
    BY <2>1 DEF Counted
  <2>4. _atomic = 0
    BY <2>3, FS_EmptySet DEF IInv, AtomicCounts
  <2> QED BY <2>2, <2>4
<1> QED BY <1>1, Invariance, PTL

\* After stop has been called, get takes no task, and what a worker still finishes
\* is not a queued one.
THEOREM FreezeSafety == Spec => StopFreezesQueue
<1>1. IInv /\ [Next]_vars =>
        [_bTerminate => \A k \in Tasks : taskState[k] = "queued"
                                           => taskState'[k] = "queued"]_vars
  <2> SUFFICES ASSUME IInv, [Next]_vars, _bTerminate,
                      NEW k \in Tasks, taskState[k] = "queued"
               PROVE  taskState'[k] = "queued"
    OBVIOUS
  <2>1. taskState \in [Tasks -> {"new", "queued", "taken", "done", "expired"}]
    BY DEF IInv, TypeOK
  <2>2. CASE ControllerStep \/ UNCHANGED vars
    BY <2>2 DEF ControllerStep, InitPool, Start, StopSignal, StopJoin, vars
  <2>3. ASSUME NEW j \in Tasks, Exec(j) PROVE taskState'[k] = "queued"
    BY <2>1, <2>3 DEF Exec
  <2>4. ASSUME NEW w \in Workers, Get(w) PROVE taskState'[k] = "queued"
    BY <2>4 DEF Get, GetFromQueue, HasWork
  <2>5. ASSUME NEW w \in Workers, RunTask(w) PROVE taskState'[k] = "queued"
    <3>1. pc[w] = "execute"
      BY <2>5 DEF RunTask, Goto
    <3>2. taskState[task[w]] = "taken"
      BY <3>1 DEF IInv, TakenIsCarried, Carries
    <3> QED BY <2>1, <2>5, <3>2 DEF RunTask
  <2>6. ASSUME NEW w \in Workers,
               RunLoop(w) \/ RunIncrement(w) \/ RunDecrement(w) \/ RunCheck(w)
        PROVE  taskState'[k] = "queued"
    BY <2>6 DEF RunLoop, RunIncrement, RunDecrement, RunCheck
  <2>7. ASSUME NEW c \in Waiters, WaitBegin(c) \/ WaiterReturns(c)
        PROVE  taskState'[k] = "queued"
    BY <2>7 DEF WaitBegin, WaiterReturns, WaitWoken, WaitTimeout, WaitReturn
  <2>8. ASSUME NEW t \in Threads, SpuriousWakeup(t) PROVE taskState'[k] = "queued"
    BY <2>8 DEF SpuriousWakeup
  <2> QED BY <2>2, <2>3, <2>4, <2>5, <2>6, <2>7, <2>8 DEF Next, WorkerStep
<1> QED BY <1>1, Invariance, PTL DEF Spec, StopFreezesQueue
=============================================================================
