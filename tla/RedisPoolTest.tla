----------------------------- MODULE RedisPoolTest -----------------------------
(***************************************************************************)
(* The program test_ThreadPool.cpp.  Its thread pool has a bounded queue and  *)
(* three condition variables; the jobs are workUsePool, each using one         *)
(* connection of the Redis connection pool (CachePool), so that a worker is a  *)
(* client of that pool while it runs a job.  The main thread adds the jobs,    *)
(* destroys the thread pool (in the test only after it has seen the queue     *)
(* empty; here it may do so before that) and then the connection pool.        *)
(* Everything a call does under pool->mutex is one action, split where it      *)
(* waits.  Jobs are alike: the queue is its length, head = NULL being 0.        *)
(***************************************************************************)
EXTENDS CachePool, FiniteSets

CONSTANTS
  Jobs,           \* jobs main adds; the Workers are pool->pthreads
  queue_max_num

VARIABLES
  queue_cur_num, queue_close, pool_close,
  queue_empty,        \* main waits here for the queue to drain
  queue_not_empty,    \* workers asleep on this condition
  queue_not_full,     \* main waits here for room
  worker,             \* "lock", "wait", "job" or "exit"
  main,               \* "add", "full", "drain", "join" or "freed"
  toAdd,
  accepted, ran,      \* history: jobs queued, callbacks that returned
  deleted             \* delete pCachePool has run

poolVars == <<queue_cur_num, queue_close, pool_close, queue_empty, queue_not_empty,
              queue_not_full, worker, main, toAdd, accepted, ran>>
vars == <<poolVars, cacheVars, deleted>>

-----------------------------------------------------------------------------
(* The thread pool                                                           *)

\* threadpool_init.
PoolInit == /\ queue_cur_num = 0 /\ queue_close = FALSE /\ pool_close = FALSE
            /\ queue_empty = FALSE /\ queue_not_empty = {} /\ queue_not_full = FALSE
            /\ worker = [w \in Workers |-> "lock"]
            /\ main = "add" /\ toAdd = Jobs /\ accepted = 0 /\ ran = 0

\* threadpool_add_job finds the queue full: main sleeps on queue_not_full.
WaitForRoom ==
  /\ main = "add" \/ (main = "full" /\ ~queue_not_full)
  /\ toAdd > 0 /\ queue_cur_num = queue_max_num
  /\ main' = "full" /\ queue_not_full' = TRUE
  /\ UNCHANGED <<queue_cur_num, queue_close, pool_close, queue_empty, queue_not_empty,
                 worker, toAdd, accepted, ran>>

\* threadpool_add_job queues the job; only the first one wakes the workers.
\* If malloc fails the job is dropped, and main does not look at the result.
AddJob ==
  /\ main = "add" \/ (main = "full" /\ ~queue_not_full)
  /\ toAdd > 0 /\ queue_cur_num < queue_max_num
  /\ main' = "add" /\ toAdd' = toAdd - 1
  /\ \/ /\ queue_cur_num' = queue_cur_num + 1 /\ accepted' = accepted + 1
        /\ queue_not_empty' = IF queue_cur_num = 0 THEN {} ELSE queue_not_empty
     \/ UNCHANGED <<queue_cur_num, accepted, queue_not_empty>>
  /\ UNCHANGED <<queue_close, pool_close, queue_empty, queue_not_full, worker, ran>>

Awake(w) == worker[w] = "lock" \/ (worker[w] = "wait" /\ w \notin queue_not_empty)

WaitForJob(w) ==
  /\ Awake(w) /\ queue_cur_num = 0 /\ ~pool_close
  /\ worker' = [worker EXCEPT ![w] = "wait"]
  /\ queue_not_empty' = queue_not_empty \union {w}
  /\ UNCHANGED <<queue_cur_num, queue_close, pool_close, queue_empty, queue_not_full,
                 main, toAdd, accepted, ran>>

\* Mutant: queue_not_full is signalled only when the queue has become empty.
TakeWakesWhenEmpty(w) ==
  /\ Awake(w) /\ queue_cur_num > 0 /\ ~pool_close
  /\ worker' = [worker EXCEPT ![w] = "job"]
  /\ queue_cur_num' = queue_cur_num - 1
  /\ queue_empty' = (queue_empty /\ queue_cur_num # 1)
  /\ queue_not_full' = (queue_not_full /\ queue_cur_num # 0)
  /\ UNCHANGED <<queue_close, pool_close, queue_not_empty, main, toAdd, accepted, ran>>

\* A worker takes the first job; taking the last one signals queue_empty, taking
\* one from a full queue broadcasts queue_not_full.
Take(w) ==
  /\ Awake(w) /\ queue_cur_num > 0 /\ ~pool_close
  /\ worker' = [worker EXCEPT ![w] = "job"]
  /\ queue_cur_num' = queue_cur_num - 1
  /\ queue_empty' = (queue_empty /\ queue_cur_num # 1)
  /\ queue_not_full' = (queue_not_full /\ queue_cur_num # queue_max_num)
  /\ UNCHANGED <<queue_close, pool_close, queue_not_empty, main, toAdd, accepted, ran>>

\* The callback returns; the job is freed.
JobDone(w) ==
  /\ worker[w] = "job"
  /\ worker' = [worker EXCEPT ![w] = "lock"]
  /\ ran' = ran + 1
  /\ UNCHANGED <<queue_cur_num, queue_close, pool_close, queue_empty, queue_not_empty,
                 queue_not_full, main, toAdd, accepted>>

Exit(w) ==
  /\ Awake(w) /\ pool_close
  /\ worker' = [worker EXCEPT ![w] = "exit"]
  /\ UNCHANGED <<queue_cur_num, queue_close, pool_close, queue_empty, queue_not_empty,
                 queue_not_full, main, toAdd, accepted, ran>>

\* threadpool_destroy closes the queue and sleeps until it is empty.
Drain ==
  /\ (main = "add" /\ toAdd = 0) \/ (main = "drain" /\ ~queue_empty)
  /\ queue_cur_num # 0
  /\ queue_close' = TRUE
  /\ main' = "drain" /\ queue_empty' = TRUE
  /\ UNCHANGED <<queue_cur_num, pool_close, queue_not_empty, queue_not_full, worker,
                 toAdd, accepted, ran>>

\* Mutant: the queue is closed but not drained.
CloseUndrained ==
  /\ main = "add" /\ toAdd = 0
  /\ queue_close' = TRUE /\ pool_close' = TRUE
  /\ queue_not_empty' = {} /\ queue_not_full' = FALSE
  /\ main' = "join"
  /\ UNCHANGED <<queue_cur_num, queue_empty, worker, toAdd, accepted, ran>>

\* The queue is empty: close the pool and wake whoever still sleeps.
Close ==
  /\ (main = "add" /\ toAdd = 0) \/ (main = "drain" /\ ~queue_empty)
  /\ queue_cur_num = 0
  /\ queue_close' = TRUE /\ pool_close' = TRUE
  /\ queue_not_empty' = {} /\ queue_not_full' = FALSE
  /\ main' = "join"
  /\ UNCHANGED <<queue_cur_num, queue_empty, worker, toAdd, accepted, ran>>

\* All workers joined: the pool is freed.
Free ==
  /\ main = "join" /\ \A w \in Workers : worker[w] = "exit"
  /\ main' = "freed"
  /\ UNCHANGED <<queue_cur_num, queue_close, pool_close, queue_empty, queue_not_empty,
                 queue_not_full, worker, toAdd, accepted, ran>>

\* pthread_cond_wait may return for no reason.
PoolSpurious ==
  /\ \/ \E w \in queue_not_empty : queue_not_empty' = queue_not_empty \ {w}
        /\ UNCHANGED <<queue_empty, queue_not_full>>
     \/ queue_empty /\ queue_empty' = FALSE /\ UNCHANGED <<queue_not_empty, queue_not_full>>
     \/ queue_not_full /\ queue_not_full' = FALSE /\ UNCHANGED <<queue_not_empty, queue_empty>>
  /\ UNCHANGED <<queue_cur_num, queue_close, pool_close, worker, main, toAdd, accepted, ran>>

PoolMain == WaitForRoom \/ AddJob \/ Drain \/ Close \/ Free
PoolWorker(w) == WaitForJob(w) \/ Take(w) \/ Exit(w)

-----------------------------------------------------------------------------
(* The program                                                               *)

Init == PoolInit /\ CacheInit /\ deleted = FALSE

\* workUsePool: get a connection, run set, release it; then the job is over.
JobStep(w) ==
  /\ worker[w] = "job" /\ ~crashed
  /\ \/ (GetCacheConn(w) \/ Command(w)) /\ UNCHANGED poolVars
     \/ RelCacheConn(w) /\ JobDone(w)
  /\ UNCHANGED deleted

\* A step of the thread pool alone.
PoolOnly == ~crashed /\ UNCHANGED <<cacheVars, deleted>>

WorkerStep(w) == (PoolWorker(w) /\ PoolOnly) \/ JobStep(w)

\* The end of main.
DeleteCache == /\ main = "freed" /\ ~deleted
               /\ Delete /\ deleted' = TRUE
               /\ UNCHANGED poolVars

MainStep == (PoolMain /\ PoolOnly) \/ DeleteCache

Spurious == \/ PoolSpurious /\ PoolOnly
            \/ ~crashed /\ CacheSpurious /\ UNCHANGED <<poolVars, deleted>>

Next == MainStep \/ Spurious \/ \E w \in Workers : WorkerStep(w)

Spec == Init /\ [][Next]_vars

\* Every thread that can run does; wakeups without reason need not happen.
FairSpec == /\ Spec
            /\ WF_vars(MainStep) /\ \A w \in Workers : WF_vars(WorkerStep(w))

-----------------------------------------------------------------------------
PoolTypeOK ==
  /\ queue_cur_num \in 0..queue_max_num
  /\ queue_close \in BOOLEAN /\ pool_close \in BOOLEAN
  /\ queue_empty \in BOOLEAN /\ queue_not_full \in BOOLEAN
  /\ queue_not_empty \subseteq Workers
  /\ worker \in [Workers -> {"lock", "wait", "job", "exit"}]
  /\ main \in {"add", "full", "drain", "join", "freed"}
  /\ toAdd \in 0..Jobs /\ accepted \in 0..Jobs /\ ran \in 0..accepted

\* The variables keep their types; the queue is within its bound, and no job is over
\* that was not accepted.
TypeOK == PoolTypeOK /\ CacheTypeOK /\ deleted \in BOOLEAN

Idle == {m_free_list[i] : i \in DOMAIN m_free_list}
Held == {pConn[w] : w \in Workers} \ {0}

\* A connection is in the free list once or held by one worker, never both and
\* never by two, and all that were counted are in one of the two places; the
\* last release precedes the deletion of the pool, so none leaks.
ConnsAccounted ==
  /\ IsInjective(m_free_list) /\ Idle \intersect Held = {}
  /\ \A v, w \in Workers : v # w /\ pConn[v] # 0 => pConn[v] # pConn[w]
  /\ ~deleted => Idle \union Held = 1..m_cur_conn_cnt
  /\ deleted => Held = {} /\ \A c \in DOMAIN m_pContext : m_pContext[c] = "none"

\* threadpool_destroy frees the pool only when every job that was accepted has
\* run to its end, and no worker can touch the pool any more.
JobsRunBeforeFree ==
  main = "freed" => ran = accepted /\ queue_cur_num = 0
                    /\ \A w \in Workers : worker[w] = "exit" /\ client[w] = "out"

\* Whatever the order of sleeps and wakeups in the four condition variables of
\* the two pools, the program comes to its end (unless a worker got NULL).
TestEnded == deleted \/ crashed
TestEnds == <>TestEnded
=============================================================================
