---------------------------- MODULE NtyThreadPool ----------------------------
(***************************************************************************)
(* The thread pool of thread_pool.c: workers that sleep on one condition     *)
(* variable, clients that queue jobs, and an owner that creates the pool and *)
(* may shut it down.                                                         *)
(*                                                                         *)
(* jobs_mtx is explicit, because Shutdown writes worker->terminate and walks *)
(* the worker list without it while each worker reads its flag twice under   *)
(* it.  A block under the mutex that touches only what the mutex guards is   *)
(* one action.  A job is abstracted to its identity, its function to a step  *)
(* that ends; a worker allocated by Create is an element of Workers.         *)
(***************************************************************************)
EXTENDS Naturals, Sequences, FiniteSets

CONSTANTS
  Workers,    \* the numWorkers workers that Create allocates if nothing fails
  Jobs,       \* the jobs clients queue, each at most once
  Nobody      \* NULL: no worker, no job, mutex not held

ASSUME WorkersAssumption == Workers # {} /\ IsFiniteSet(Workers)
ASSUME NobodyAssumption == Nobody \notin Workers \union Jobs

VARIABLES
  workers,       \* head of the worker list
  next,          \* next[w]: the link of w in that list
  terminate,     \* terminate[w]
  freed,         \* workers that have freed their own nWorker
  waiting_jobs,  \* the job list, head first
  jobs_mtx,      \* the worker that holds the mutex across steps
  sleeping,      \* workers in pthread_cond_wait that have not been woken
  pc,            \* where each worker stands
  job,           \* the job a worker took
  owner,         \* where the owner stands
  worker,        \* the owner's local of that name
  jobState       \* history: what became of each job

list == <<workers, next, terminate, freed>>
vars == <<list, waiting_jobs, jobs_mtx, sleeping, pc, job, owner, worker,
          jobState>>

Goto(w, from, to) == pc[w] = from /\ pc' = [pc EXCEPT ![w] = to]
OwnerGoto(from, to) == owner = from /\ owner' = to
Lock(w) == jobs_mtx = Nobody /\ jobs_mtx' = w
Unlock(w) == jobs_mtx = w /\ jobs_mtx' = Nobody

Created == {w \in Workers : pc[w] # "unborn"}

Init == /\ workers = Nobody
        /\ next = [w \in Workers |-> Nobody]
        /\ terminate = [w \in Workers |-> FALSE]
        /\ freed = {}
        /\ waiting_jobs = <<>>
        /\ jobs_mtx = Nobody
        /\ sleeping = {}
        /\ pc = [w \in Workers |-> "unborn"]
        /\ job = [w \in Workers |-> Nobody]
        /\ owner = "create"
        /\ worker = Nobody
        /\ jobState = [j \in Jobs |-> "new"]

-----------------------------------------------------------------------------
(* ntyThreadPoolCreate                                                       *)

\* malloc and pthread_create succeed: the worker runs before it is in the list.
CreateWorker(w) ==
  /\ OwnerGoto("create", "link")
  /\ Goto(w, "unborn", "lock")
  /\ worker' = w
  /\ UNCHANGED <<list, waiting_jobs, jobs_mtx, sleeping, job, jobState>>

\* Mutant: LL_ADD without the link to the old head.
LinkWorkerAlone ==
  /\ OwnerGoto("link", "create")
  /\ workers' = worker
  /\ UNCHANGED <<next, terminate, freed, waiting_jobs, jobs_mtx, sleeping, pc,
                 job, worker, jobState>>

\* LL_ADD(worker, workers).
LinkWorker ==
  /\ OwnerGoto("link", "create")
  /\ next' = [next EXCEPT ![worker] = workers]
  /\ workers' = worker
  /\ UNCHANGED <<terminate, freed, waiting_jobs, jobs_mtx, sleeping, pc, job,
                 worker, jobState>>

\* All workers exist, or malloc or pthread_create failed: the workers created so
\* far stay, and callers go on with the pool whatever Create returned.
CreateReturns ==
  /\ OwnerGoto("create", "ready")
  /\ UNCHANGED <<list, waiting_jobs, jobs_mtx, sleeping, pc, job, worker, jobState>>

-----------------------------------------------------------------------------
(* ntyThreadPoolQueue                                                        *)

\* pthread_cond_signal: one sleeping worker, if there is one.
Signal == \/ sleeping = {} /\ UNCHANGED sleeping
          \/ \E w \in sleeping : sleeping' = sleeping \ {w}

\* Mutant: the signal is sent only when the list was empty.
QueueSignalIfEmpty(j) ==
  /\ owner \notin {"create", "link"}
  /\ jobState[j] = "new"
  /\ jobs_mtx = Nobody
  /\ waiting_jobs' = <<j>> \o waiting_jobs
  /\ jobState' = [jobState EXCEPT ![j] = "queued"]
  /\ IF waiting_jobs = <<>> THEN Signal ELSE UNCHANGED sleeping
  /\ UNCHANGED <<list, jobs_mtx, pc, job, owner, worker>>

\* Nothing stops a client from queueing while the pool goes down, or after.
Queue(j) ==
  /\ owner \notin {"create", "link"}
  /\ jobState[j] = "new"
  /\ jobs_mtx = Nobody
  /\ waiting_jobs' = <<j>> \o waiting_jobs
  /\ jobState' = [jobState EXCEPT ![j] = "queued"]
  /\ Signal
  /\ UNCHANGED <<list, jobs_mtx, pc, job, owner, worker>>

-----------------------------------------------------------------------------
(* ntyWorkerThread                                                           *)

WorkerLock(w) ==
  /\ Goto(w, "lock", "testJobs")
  /\ Lock(w)
  /\ UNCHANGED <<list, waiting_jobs, sleeping, job, owner, worker, jobState>>

\* The loop around pthread_cond_wait, with its read of terminate; waiting
\* releases the mutex.
WorkerTestJobs(w) ==
  /\ \/ /\ waiting_jobs # <<>> \/ terminate[w]
        /\ Goto(w, "testJobs", "testTerminate")
        /\ UNCHANGED <<jobs_mtx, sleeping>>
     \/ /\ waiting_jobs = <<>> /\ ~terminate[w]
        /\ Goto(w, "testJobs", "wait")
        /\ Unlock(w)
        /\ sleeping' = sleeping \union {w}
  /\ UNCHANGED <<list, waiting_jobs, job, owner, worker, jobState>>

\* pthread_cond_wait may return although nobody signalled.
SpuriousWakeup(w) ==
  /\ w \in sleeping
  /\ sleeping' = sleeping \ {w}
  /\ UNCHANGED <<list, waiting_jobs, jobs_mtx, pc, job, owner, worker, jobState>>

WorkerWake(w) ==
  /\ Goto(w, "wait", "testJobs")
  /\ w \notin sleeping
  /\ Lock(w)
  /\ UNCHANGED <<list, waiting_jobs, sleeping, job, owner, worker, jobState>>

\* The second read of terminate: exit, or take the head of the job list (a list
\* that is empty here is one whose worker terminates).
WorkerExit(w) ==
  /\ terminate[w]
  /\ Goto(w, "testTerminate", "exit")
  /\ Unlock(w)
  /\ UNCHANGED <<list, waiting_jobs, sleeping, job, owner, worker, jobState>>

\* Mutant: the job taken stays at the head of the list.
WorkerTakeNoRemove(w) ==
  /\ ~terminate[w] /\ waiting_jobs # <<>>
  /\ Goto(w, "testTerminate", "run")
  /\ job' = [job EXCEPT ![w] = Head(waiting_jobs)]
  /\ jobState' = [jobState EXCEPT ![Head(waiting_jobs)] = "running"]
  /\ Unlock(w)
  /\ UNCHANGED <<list, waiting_jobs, sleeping, owner, worker>>

WorkerTake(w) ==
  /\ ~terminate[w] /\ waiting_jobs # <<>>
  /\ Goto(w, "testTerminate", "run")
  /\ job' = [job EXCEPT ![w] = Head(waiting_jobs)]
  /\ waiting_jobs' = Tail(waiting_jobs)
  /\ jobState' = [jobState EXCEPT ![Head(waiting_jobs)] = "running"]
  /\ Unlock(w)
  /\ UNCHANGED <<list, sleeping, owner, worker>>

\* Mutant: a worker retires after its job.
WorkerRunOnce(w) ==
  /\ Goto(w, "run", "exit")
  /\ jobState' = [jobState EXCEPT ![job[w]] = "done"]
  /\ job' = [job EXCEPT ![w] = Nobody]
  /\ UNCHANGED <<list, waiting_jobs, jobs_mtx, sleeping, owner, worker>>

\* job->job_function(job) returns.
WorkerRun(w) ==
  /\ Goto(w, "run", "lock")
  /\ jobState' = [jobState EXCEPT ![job[w]] = "done"]
  /\ job' = [job EXCEPT ![w] = Nobody]
  /\ UNCHANGED <<list, waiting_jobs, jobs_mtx, sleeping, owner, worker>>

\* free(worker); pthread_exit(NULL).
WorkerFree(w) ==
  /\ Goto(w, "exit", "gone")
  /\ freed' = freed \union {w}
  /\ UNCHANGED <<workers, next, terminate, waiting_jobs, jobs_mtx, sleeping,
                 job, owner, worker, jobState>>

-----------------------------------------------------------------------------
(* ntyThreadPoolShutdown                                                     *)

ShutdownBegin ==
  /\ OwnerGoto("ready", "mark")
  /\ worker' = workers
  /\ UNCHANGED <<list, waiting_jobs, jobs_mtx, sleeping, pc, job, jobState>>

ShutdownMark ==
  /\ worker # Nobody
  /\ OwnerGoto("mark", "advance")
  /\ terminate' = [terminate EXCEPT ![worker] = TRUE]
  /\ UNCHANGED <<workers, next, freed, waiting_jobs, jobs_mtx, sleeping, pc, job,
                 worker, jobState>>

\* worker = worker->next.  The worker marked in the previous step may have
\* freed itself: the read then returns what free left in the block, which is
\* the old link (free overwrites only the first words) or anything else.
ShutdownAdvance ==
  /\ \/ /\ OwnerGoto("advance", "mark")
        /\ worker' = next[worker]
     \/ /\ worker \in freed
        /\ OwnerGoto("advance", "undefined")
        /\ worker' = Nobody
  /\ UNCHANGED <<list, waiting_jobs, jobs_mtx, sleeping, pc, job, jobState>>

\* Mutant: Shutdown does not wake the workers that sleep.
ShutdownClearSilently ==
  /\ worker = Nobody /\ jobs_mtx = Nobody
  /\ OwnerGoto("mark", "down")
  /\ workers' = Nobody
  /\ waiting_jobs' = <<>>
  /\ jobState' = [j \in Jobs |->
                    IF jobState[j] = "queued" THEN "dropped" ELSE jobState[j]]
  /\ UNCHANGED <<next, terminate, freed, jobs_mtx, sleeping, pc, job, worker>>

\* The block under the mutex: the lists are emptied, the jobs in them dropped,
\* and every sleeping worker is woken.
ShutdownClear ==
  /\ worker = Nobody /\ jobs_mtx = Nobody
  /\ OwnerGoto("mark", "down")
  /\ workers' = Nobody
  /\ waiting_jobs' = <<>>
  /\ jobState' = [j \in Jobs |->
                    IF jobState[j] = "queued" THEN "dropped" ELSE jobState[j]]
  /\ sleeping' = {}
  /\ UNCHANGED <<next, terminate, freed, jobs_mtx, pc, job, worker>>

-----------------------------------------------------------------------------
OwnerStep == \/ \E w \in Workers : CreateWorker(w)
             \/ LinkWorker
             \/ CreateReturns
             \/ ShutdownBegin
             \/ ShutdownMark
             \/ ShutdownAdvance
             \/ ShutdownClear

LockStep(w) == WorkerLock(w) \/ WorkerWake(w)

WorkerStep(w) == \/ LockStep(w)
                 \/ WorkerTestJobs(w)
                 \/ WorkerExit(w)
                 \/ WorkerTake(w)
                 \/ WorkerRun(w)
                 \/ WorkerFree(w)

\* Nothing is said of the process once it has followed a dangling link.
Next == /\ owner # "undefined"
        /\ \/ OwnerStep
           \/ \E j \in Jobs : Queue(j)
           \/ \E w \in Workers : WorkerStep(w) \/ SpuriousWakeup(w)

Spec == Init /\ [][Next]_vars

\* Threads are scheduled and jobs end.  A thread to which the mutex is free
\* again and again gets it (other threads may lock it in between, after
\* spurious wakeups for ever).  Nobody is obliged to queue or to shut down.
Running(A) == owner # "undefined" /\ A

Fairness ==
  /\ \A w \in Workers : /\ WF_vars(Running(WorkerStep(w)))
                        /\ SF_vars(Running(LockStep(w)))
  /\ WF_vars(Running(owner # "ready" /\ OwnerStep))
  /\ SF_vars(Running(ShutdownClear))

FairSpec == Spec /\ Fairness

-----------------------------------------------------------------------------
(* Properties                                                                *)

PCs == {"unborn", "lock", "testJobs", "wait", "testTerminate", "run", "exit",
        "gone"}

\* Type invariant of the pool.
TypeOK ==
  /\ workers \in Workers \union {Nobody}
  /\ next \in [Workers -> Workers \union {Nobody}]
  /\ terminate \in [Workers -> BOOLEAN]
  /\ freed \subseteq Workers
  /\ waiting_jobs \in Seq(Jobs)
  /\ jobs_mtx \in Workers \union {Nobody}
  /\ sleeping \subseteq {w \in Workers : pc[w] = "wait"}
  /\ pc \in [Workers -> PCs]
  /\ job \in [Workers -> Jobs \union {Nobody}]
  /\ owner \in {"create", "link", "ready", "mark", "advance", "down", "undefined"}
  /\ worker \in Workers \union {Nobody}
  /\ jobState \in [Jobs -> {"new", "queued", "running", "done", "dropped"}]

\* Every job is in exactly one place: a queued job stands in the list once, a
\* running one in the hands of one worker, so no job runs twice and none
\* vanishes except in Shutdown.
JobsAccounted ==
  /\ TypeOK
  /\ \A j \in Jobs :
       /\ Cardinality({n \in DOMAIN waiting_jobs : waiting_jobs[n] = j})
            = IF jobState[j] = "queued" THEN 1 ELSE 0
       /\ Cardinality({w \in Workers : job[w] = j})
            = IF jobState[j] = "running" THEN 1 ELSE 0

\* A worker on its way to the job list: it will look at the list before it sleeps.
Awake(w) == pc[w] \in {"lock", "testJobs", "testTerminate", "wait"} /\ w \notin sleeping

\* No wakeup is lost: while the pool is up, a worker sleeps only if the waiting
\* jobs do not outnumber the workers that are about to look for one.
EnoughAwake ==
  owner \in {"create", "link", "ready"} /\ sleeping # {} =>
    Len(waiting_jobs) <= Cardinality({w \in Workers : Awake(w)})

\* The unlocked loop of Shutdown writes only to workers that still exist (what
\* it may read from a freed one is the link).
MarkSafe == owner = "mark" => worker \notin freed

\* When Shutdown returns, every worker Create started has been told to
\* terminate, although the list was read while workers were leaving.
ShutdownReachesAll ==
  /\ MarkSafe
  /\ owner = "down" => \A w \in Created : terminate[w]

\* A queued job runs, unless the pool is shut down or has no worker.
QueuedJobRuns ==
  \A j \in Jobs :
    jobState[j] = "queued" ~> \/ jobState[j] = "done"
                              \/ owner # "ready"
                              \/ Created = {}

\* After a shutdown every worker exits and frees itself, whatever clients
\* still queue (if the owner did not trip over a dangling link).
ShutdownCompletes ==
  owner = "mark" ~> \/ owner = "undefined"
                    \/ \A w \in Created : pc[w] = "gone"
=============================================================================
