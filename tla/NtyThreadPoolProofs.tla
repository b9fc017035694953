-------------------------- MODULE NtyThreadPoolProofs --------------------------
(***************************************************************************)
(* Proofs about NtyThreadPool for every number of workers and jobs.           *)
(***************************************************************************)
EXTENDS NtyThreadPool, FiniteSetTheorems, SequenceTheorems, TLAPS

Entries(jobs) == {jobs[i] : i \in DOMAIN jobs}
NoDuplicates(jobs) == \A i, j \in DOMAIN jobs : jobs[i] = jobs[j] => i = j

\* Workers that are on their way to the job list.
Looking == {w \in Workers : Awake(w)}

Unmarked == {w \in Created : ~terminate[w]}

\* Workers that are in the list: the one that is being created is not yet.
Linked == Created \ (IF owner = "link" THEN {worker} ELSE {})

-----------------------------------------------------------------------------
(* The inductive invariant                                                    *)

\* The worker list: links of workers that are not in it are unset, and nothing is
\* marked before Shutdown.
BeforeShutdown ==
  owner \in {"create", "link", "ready"} =>
    /\ \A w \in Workers : ~terminate[w]
    /\ \A w \in Workers \ Linked : next[w] = Nobody
    /\ workers # Nobody => workers \in Linked
    /\ owner = "link" => worker \in Created

\* A worker leaves only when it has been told to, and frees itself last.
LeftWasTold ==
  /\ \A w \in Workers : pc[w] \in {"exit", "gone"} => terminate[w]
  /\ freed = {w \in Workers : pc[w] = "gone"}

\* A set of workers that the links do not leave, and that has the worker x.
Closed(S, x) ==
  /\ x # Nobody => x \in S
  /\ \A w \in S : next[w] # Nobody => next[w] \in S

\* From workers every worker in the list is reached, and from the position of
\* Shutdown every worker it has not marked yet.
ReachesAll ==
  \A S \in SUBSET Workers :
    /\ owner \in {"create", "link", "ready"} /\ Closed(S, workers) => Linked \subseteq S
    /\ owner = "mark" /\ Closed(S, worker) => Unmarked \subseteq S
    /\ owner = "advance" /\ Closed(S, next[worker]) => Unmarked \subseteq S

\* The links lead away from what has been marked.
LinksDescend ==
  \E rank \in [Workers -> Nat] :
    /\ \A w \in Linked : next[w] # Nobody => next[w] \in Linked /\ rank[next[w]] < rank[w]
    /\ owner = "mark" /\ worker # Nobody =>
         worker \in Created /\ \A w \in Workers : terminate[w] => rank[worker] < rank[w]
    /\ owner = "advance" =>
         worker \in Created /\ \A w \in Workers : terminate[w] => rank[worker] <= rank[w]

\* What the list and the workers have, without counting.
JobsPlaced ==
  /\ NoDuplicates(waiting_jobs)
  /\ \A j \in Jobs : jobState[j] = "queued" <=> j \in Entries(waiting_jobs)
  /\ \A w \in Workers : job[w] # Nobody <=> pc[w] = "run"
  /\ \A v, w \in Workers : job[v] = job[w] /\ job[v] # Nobody => v = w
  /\ \A j \in Jobs : jobState[j] = "running" <=> \E w \in Workers : job[w] = j

ShutdownDone == owner = "down" => Unmarked = {}

IInv == /\ TypeOK
        /\ BeforeShutdown
        /\ LeftWasTold
        /\ ReachesAll
        /\ LinksDescend
        /\ JobsPlaced
        /\ EnoughAwake
        /\ ShutdownDone

-----------------------------------------------------------------------------
(* The job list without its order.                                            *)

\* WorkerTake: LL_REMOVE of the head of the list.
LEMMA FrontFacts ==
  ASSUME NEW jobs \in Seq(Jobs), jobs # <<>>, NoDuplicates(jobs)
  PROVE  /\ Head(jobs) \in Jobs
         /\ Tail(jobs) \in Seq(Jobs)
         /\ Len(Tail(jobs)) = Len(jobs) - 1
         /\ NoDuplicates(Tail(jobs))
         /\ Head(jobs) \in Entries(jobs)
         /\ Entries(Tail(jobs)) = Entries(jobs) \ {Head(jobs)}
<1>1. /\ Len(jobs) \in Nat /\ Len(jobs) >= 1
      /\ DOMAIN jobs = 1 .. Len(jobs)
      /\ Head(jobs) = jobs[1]
  BY LenProperties, EmptySeq
<1>2. /\ Head(jobs) \in Jobs
      /\ Tail(jobs) \in Seq(Jobs)
      /\ Len(Tail(jobs)) = Len(jobs) - 1
      /\ \A i \in 1 .. Len(jobs) - 1 : Tail(jobs)[i] = jobs[i + 1]
  BY HeadTailProperties
<1>3. DOMAIN Tail(jobs) = 1 .. Len(jobs) - 1
  BY <1>2, LenProperties
<1>4. NoDuplicates(Tail(jobs))
  BY <1>1, <1>2, <1>3 DEF NoDuplicates
<1>5. Head(jobs) \in Entries(jobs)
  BY <1>1 DEF Entries
<1>6. ASSUME NEW x \in Entries(Tail(jobs)) PROVE x \in Entries(jobs) \ {Head(jobs)}
  <2>1. PICK i \in 1 .. Len(jobs) - 1 : x = jobs[i + 1]
    BY <1>2, <1>3 DEF Entries
  <2> QED BY <2>1, <1>1 DEF Entries, NoDuplicates
<1>7. ASSUME NEW x \in Entries(jobs) \ {Head(jobs)} PROVE x \in Entries(Tail(jobs))
  <2>1. PICK i \in 2 .. Len(jobs) : x = jobs[i]
    BY <1>1 DEF Entries
  <2>2. i - 1 \in 1 .. Len(jobs) - 1 /\ x = Tail(jobs)[i - 1]
    BY <2>1, <1>1, <1>2
  <2> QED BY <2>2, <1>3 DEF Entries
<1> QED BY <1>2, <1>4, <1>5, <1>6, <1>7

\* Queue: LL_ADD at the head of the list.
LEMMA NewFrontFacts ==
  ASSUME NEW jobs \in Seq(Jobs), NoDuplicates(jobs), NEW j \in Jobs, j \notin Entries(jobs)
  PROVE  /\ <<j>> \o jobs \in Seq(Jobs)
         /\ Len(<<j>> \o jobs) = Len(jobs) + 1
         /\ NoDuplicates(<<j>> \o jobs)
         /\ Entries(<<j>> \o jobs) = Entries(jobs) \union {j}
<1> DEFINE new == <<j>> \o jobs
<1>1. /\ Len(jobs) \in Nat
      /\ DOMAIN jobs = 1 .. Len(jobs)
  BY LenProperties
<1>2. <<j>> \in Seq(Jobs) /\ Len(<<j>>) = 1 /\ <<j>>[1] = j
  OBVIOUS
<1>3. /\ new \in Seq(Jobs)
      /\ Len(new) = Len(jobs) + 1
      /\ \A i \in 1 .. Len(jobs) + 1 : new[i] = IF i = 1 THEN j ELSE jobs[i - 1]
  <2>1. /\ new \in Seq(Jobs)
        /\ Len(new) = Len(<<j>>) + Len(jobs)
        /\ \A i \in 1 .. Len(<<j>>) + Len(jobs) :
             new[i] = IF i <= Len(<<j>>) THEN <<j>>[i] ELSE jobs[i - Len(<<j>>)]
    BY <1>2, ConcatProperties
  <2> HIDE DEF new
  <2> QED BY <1>1, <1>2, <2>1
<1>4. DOMAIN new = 1 .. Len(jobs) + 1
  BY <1>3, LenProperties
<1> HIDE DEF new
<1>5. \A i \in 1 .. Len(jobs) : jobs[i] # j
  BY <1>1 DEF Entries
<1>6. NoDuplicates(new)
  <2>1. SUFFICES ASSUME NEW i \in 1 .. Len(jobs) + 1, NEW k \in 1 .. Len(jobs) + 1,
                        new[i] = new[k]
                 PROVE  i = k
    BY <1>4 DEF NoDuplicates
  <2>2. CASE i = 1 \/ k = 1
    <3>1. \A n \in 1 .. Len(jobs) + 1 : n # 1 => new[n] = jobs[n - 1] /\ n - 1 \in 1 .. Len(jobs)
      BY <1>1, <1>3
    <3>2. new[1] = j
      BY <1>1, <1>3
    <3> QED BY <1>5, <2>1, <2>2, <3>1, <3>2
  <2>3. CASE i # 1 /\ k # 1
    <3>1. i - 1 \in DOMAIN jobs /\ k - 1 \in DOMAIN jobs /\ jobs[i - 1] = jobs[k - 1]
      BY <1>1, <1>3, <2>1, <2>3
    <3>2. i - 1 = k - 1
      BY <3>1 DEF NoDuplicates
    <3> QED BY <1>1, <3>2
  <2> QED BY <2>2, <2>3
<1>7. ASSUME NEW x \in Entries(new) PROVE x \in Entries(jobs) \union {j}
  <2>1. PICK i \in 1 .. Len(jobs) + 1 : x = new[i]
    BY <1>4 DEF Entries
  <2> QED BY <2>1, <1>1, <1>3 DEF Entries
<1>8. ASSUME NEW x \in Entries(jobs) \union {j} PROVE x \in Entries(new)
  <2>1. \A i \in 1 .. Len(jobs) + 1 : new[i] \in Entries(new)
    BY <1>4 DEF Entries
  <2>2. CASE x = j
    BY <2>1, <2>2, <1>1, <1>3
  <2>3. CASE x \in Entries(jobs)
    <3>1. PICK i \in 1 .. Len(jobs) : x = jobs[i]
      BY <2>3, <1>1 DEF Entries
    <3>2. i + 1 \in 1 .. Len(jobs) + 1 /\ new[i + 1] = x
      BY <3>1, <1>1, <1>3
    <3> QED BY <2>1, <3>2
  <2> QED BY <2>2, <2>3
<1>9. Entries(new) = Entries(jobs) \union {j}
  BY <1>7, <1>8
<1> QED BY <1>3, <1>6, <1>9 DEF new

\* The empty list.
LEMMA EmptyFacts ==
  <<>> \in Seq(Jobs) /\ Len(<<>>) = 0 /\ NoDuplicates(<<>>) /\ Entries(<<>>) = {}
<1>1. <<>> \in Seq(Jobs) /\ Len(<<>>) = 0
  BY EmptySeq
<1>2. DOMAIN <<>> = {}
  BY <1>1, LenProperties
<1> QED BY <1>1, <1>2 DEF NoDuplicates, Entries

-----------------------------------------------------------------------------
(* What a step leaves alone.                                                  *)

\* A step that touches neither the worker list nor the position of the owner.
LEMMA ListStays ==
  ASSUME BeforeShutdown, ReachesAll, LinksDescend, ShutdownDone,
         UNCHANGED <<workers, next, terminate, owner, worker>>, Created' = Created
  PROVE  BeforeShutdown' /\ ReachesAll' /\ LinksDescend' /\ ShutdownDone'
<1>1. Linked' = Linked /\ Unmarked' = Unmarked
  BY DEF Linked, Unmarked
<1>2. BeforeShutdown' /\ ShutdownDone'
  BY <1>1 DEF BeforeShutdown, ShutdownDone
<1>3. ReachesAll'
  BY <1>1 DEF ReachesAll, Closed
<1>4. LinksDescend'
  BY <1>1 DEF LinksDescend
<1> QED BY <1>2, <1>3, <1>4

\* A step that neither queues, takes nor ends a job.
LEMMA JobsStay ==
  ASSUME JobsPlaced, UNCHANGED <<waiting_jobs, jobState, job>>,
         \A w \in Workers : pc'[w] = "run" <=> pc[w] = "run"
  PROVE  JobsPlaced'
  BY DEF JobsPlaced, NoDuplicates, Entries

\* Nobody leaves.
LEMMA NobodyLeaves ==
  ASSUME LeftWasTold, freed' = freed,
         \A w \in Workers : terminate[w] => terminate'[w],
         \A w \in Workers : pc'[w] \in {"exit", "gone"} => pc'[w] = pc[w],
         \A w \in Workers : pc[w] = "gone" => pc'[w] = "gone"
  PROVE  LeftWasTold'
  BY DEF LeftWasTold

\* The workers that are looking for a job can be counted, and one more or less of
\* them is one more or less.
LEMMA LookingCounted ==
  ASSUME NEW S, S \subseteq Workers
  PROVE  /\ IsFiniteSet(S) /\ Cardinality(S) \in Nat
         /\ \A w \in S : /\ Cardinality(S \ {w}) = Cardinality(S) - 1
                         /\ Cardinality(S \ {w}) \in Nat
         /\ \A w \in Workers \ S : Cardinality(S \union {w}) = Cardinality(S) + 1
<1>1. IsFiniteSet(S) /\ Cardinality(S) \in Nat
  BY FS_Subset, FS_CardinalityType, WorkersAssumption
<1>2. \A w \in S : Cardinality(S \ {w}) = Cardinality(S) - 1
  BY <1>1, FS_RemoveElement
<1>3. \A w \in S : Cardinality(S \ {w}) \in Nat
  BY <1>1, FS_Subset, FS_CardinalityType
<1>4. \A w \in Workers \ S : Cardinality(S \union {w}) = Cardinality(S) + 1
  BY <1>1, FS_AddElement
<1> QED BY <1>1, <1>2, <1>3, <1>4

\* EnoughAwake in terms of the workers that look, now and in the next state.
LEMMA EnoughAwakeMeans ==
  /\ EnoughAwake <=>
       (owner \in {"create", "link", "ready"} /\ sleeping # {} =>
          Len(waiting_jobs) <= Cardinality(Looking))
  /\ EnoughAwake' <=>
       (owner' \in {"create", "link", "ready"} /\ sleeping' # {} =>
          Len(waiting_jobs') <= Cardinality(Looking'))
  BY DEF EnoughAwake, Looking

\* Nobody goes to sleep, no job is queued and nobody stops looking.
LEMMA AwakeStays ==
  ASSUME TypeOK, EnoughAwake,
         owner' \in {"create", "link", "ready"} => owner \in {"create", "link", "ready"},
         sleeping' \subseteq sleeping, waiting_jobs' = waiting_jobs,
         Looking' = Looking \/ \E w \in Workers \ Looking : Looking' = Looking \union {w}
  PROVE  EnoughAwake'
<1>1. Looking \subseteq Workers
  BY DEF Looking
<1>2. Cardinality(Looking) \in Nat /\ Cardinality(Looking') \in Nat
      /\ Cardinality(Looking') >= Cardinality(Looking)
  BY <1>1, LookingCounted
<1>3. Len(waiting_jobs) \in Nat
  BY LenProperties DEF TypeOK
<1>4. owner' \in {"create", "link", "ready"} /\ sleeping' # {} =>
        Len(waiting_jobs') <= Cardinality(Looking')
  BY <1>2, <1>3, EnoughAwakeMeans
<1> QED BY <1>4, EnoughAwakeMeans

\* A worker goes from one place of its loop to another.
LEMMA WorkerMoves ==
  ASSUME TypeOK, NEW w \in Workers, NEW to \in PCs \ {"unborn"}, pc[w] # "unborn",
         pc' = [pc EXCEPT ![w] = to]
  PROVE  /\ pc' \in [Workers -> PCs]
         /\ \A v \in Workers : pc'[v] = IF v = w THEN to ELSE pc[v]
         /\ Created' = Created
<1>1. pc \in [Workers -> PCs]
  BY DEF TypeOK
<1>2. /\ pc' \in [Workers -> PCs]
      /\ \A v \in Workers : pc'[v] = IF v = w THEN to ELSE pc[v]
  BY <1>1
<1>3. Created' = Created
  BY <1>2 DEF Created
<1> QED BY <1>2, <1>3

-----------------------------------------------------------------------------
(* Every step keeps the invariant: ntyThreadPoolCreate                        *)

\* A new pool.
THEOREM InitHolds == Init => IInv
<1> SUFFICES ASSUME Init PROVE IInv
  OBVIOUS
<1> USE DEF Init
<1>1. TypeOK
  BY EmptyFacts DEF TypeOK, PCs
<1>2. Created = {} /\ Linked = {} /\ Unmarked = {}
  BY DEF Created, Linked, Unmarked
<1>3. BeforeShutdown /\ LeftWasTold /\ ShutdownDone
  BY <1>2 DEF BeforeShutdown, LeftWasTold, ShutdownDone
<1>4. ReachesAll
  BY <1>2 DEF ReachesAll
<1>5. LinksDescend
  <2> DEFINE rank == [w \in Workers |-> 0]
  <2>1. rank \in [Workers -> Nat]
    OBVIOUS
  <2> QED BY <1>2, <2>1 DEF LinksDescend
<1>6. JobsPlaced
  BY EmptyFacts, NobodyAssumption DEF JobsPlaced
<1>7. EnoughAwake
  BY DEF EnoughAwake
<1> QED BY <1>1, <1>3, <1>4, <1>5, <1>6, <1>7 DEF IInv

\* The new worker is awake and not in the list.
LEMMA CreateWorkerKeeps == ASSUME IInv, NEW w \in Workers, CreateWorker(w) PROVE IInv'
<1>1. /\ owner = "create" /\ owner' = "link" /\ worker' = w
      /\ pc[w] = "unborn" /\ pc' = [pc EXCEPT ![w] = "lock"]
      /\ UNCHANGED <<workers, next, terminate, freed, waiting_jobs, jobs_mtx, sleeping,
                     job, jobState>>
  BY DEF CreateWorker, OwnerGoto, Goto, list
<1>2. /\ TypeOK /\ BeforeShutdown /\ LeftWasTold /\ ReachesAll /\ LinksDescend
      /\ JobsPlaced /\ EnoughAwake /\ ShutdownDone
  BY DEF IInv
<1>3. pc' \in [Workers -> PCs] /\ \A v \in Workers : pc'[v] = IF v = w THEN "lock" ELSE pc[v]
  BY <1>1, <1>2 DEF TypeOK, PCs
<1>4. Created' = Created \union {w} /\ w \notin Created
  BY <1>1, <1>3 DEF Created
<1>5. Linked' = Linked /\ Linked = Created
  BY <1>1, <1>4 DEF Linked
<1>6. TypeOK'
  BY <1>1, <1>2, <1>3 DEF TypeOK
<1>7. BeforeShutdown' /\ ShutdownDone'
  BY <1>1, <1>2, <1>4, <1>5 DEF BeforeShutdown, ShutdownDone
<1>8. LeftWasTold'
  BY <1>1, <1>2, <1>3, NobodyLeaves
<1>9. ReachesAll' /\ LinksDescend'
  <2>1. ReachesAll'
    BY <1>1, <1>2, <1>5 DEF ReachesAll, Closed
  <2>2. LinksDescend'
    BY <1>1, <1>2, <1>5 DEF LinksDescend
  <2> QED BY <2>1, <2>2
<1>10. JobsPlaced'
  BY <1>1, <1>2, <1>3, JobsStay
<1>11. EnoughAwake'
  <2>1. w \notin Looking /\ w \notin sleeping
    BY <1>1, <1>2 DEF Looking, Awake, TypeOK
  <2>2. Looking' = Looking \union {w}
    BY <1>1, <1>3, <2>1 DEF Looking, Awake
  <2> QED BY <1>1, <1>2, <2>1, <2>2, AwakeStays
<1> QED BY <1>6, <1>7, <1>8, <1>9, <1>10, <1>11 DEF IInv

\* LL_ADD puts the worker before all others.
LEMMA LinkWorkerKeeps == IInv /\ LinkWorker => IInv'
<1> SUFFICES ASSUME IInv, LinkWorker PROVE IInv'
  OBVIOUS
<1>1. /\ owner = "link" /\ owner' = "create"
      /\ next' = [next EXCEPT ![worker] = workers] /\ workers' = worker
      /\ UNCHANGED <<terminate, freed, waiting_jobs, jobs_mtx, sleeping, pc, job,
                     worker, jobState>>
  BY DEF LinkWorker, OwnerGoto
<1>2. /\ TypeOK /\ BeforeShutdown /\ LeftWasTold /\ ReachesAll /\ LinksDescend
      /\ JobsPlaced /\ EnoughAwake /\ ShutdownDone
  BY DEF IInv
<1>3. worker \in Created /\ worker \in Workers /\ worker # Nobody
  BY <1>1, <1>2, NobodyAssumption DEF BeforeShutdown, Created
<1>4. Linked = Created \ {worker} /\ Linked' = Created
  BY <1>1 DEF Linked, Created
<1>5. /\ next' \in [Workers -> Workers \union {Nobody}]
      /\ \A v \in Workers : next'[v] = IF v = worker THEN workers ELSE next[v]
  BY <1>1, <1>2, <1>3 DEF TypeOK
<1>6. TypeOK'
  BY <1>1, <1>2, <1>3, <1>5 DEF TypeOK
<1>7. BeforeShutdown' /\ ShutdownDone'
  <2>1. \A w \in Workers \ Linked' : next'[w] = Nobody
    BY <1>1, <1>2, <1>3, <1>4, <1>5 DEF BeforeShutdown
  <2> QED BY <1>1, <1>2, <1>3, <1>4, <2>1 DEF BeforeShutdown, ShutdownDone
<1>8. LeftWasTold' /\ JobsPlaced'
  BY <1>1, <1>2, NobodyLeaves, JobsStay
<1>9. ReachesAll'
  <2>1. SUFFICES ASSUME NEW S \in SUBSET Workers,
                        worker \in S, \A w \in S : next'[w] # Nobody => next'[w] \in S
                 PROVE  Created \subseteq S
    BY <1>1, <1>3, <1>4 DEF ReachesAll, Closed
  <2>2. workers # Nobody => workers \in S
    BY <1>3, <1>5, <2>1
  <2>3. next[worker] = Nobody
    BY <1>1, <1>2, <1>3, <1>4 DEF BeforeShutdown
  <2>4. \A w \in S : next[w] # Nobody => next[w] \in S
    BY <1>5, <2>1, <2>3
  <2>5. Linked \subseteq S
    BY <1>1, <1>2, <2>2, <2>4 DEF ReachesAll, Closed
  <2> QED BY <1>4, <2>1, <2>5
<1>10. LinksDescend'
  <2>1. PICK rank \in [Workers -> Nat] :
          \A w \in Linked : next[w] # Nobody => next[w] \in Linked /\ rank[next[w]] < rank[w]
    BY <1>2 DEF LinksDescend
  <2> DEFINE top == IF workers = Nobody THEN 0 ELSE rank[workers] + 1
             higher == [rank EXCEPT ![worker] = top]
  <2>2. workers # Nobody => workers \in Linked /\ workers \in Workers
    BY <1>1, <1>2 DEF BeforeShutdown, Linked, Created
  <2>3. top \in Nat
    BY <2>1, <2>2
  <2>4. workers # Nobody => rank[workers] < top
    BY <2>1, <2>2
  <2> HIDE DEF top
  <2>5. higher \in [Workers -> Nat] /\ \A v \in Workers : higher[v] = IF v = worker THEN top ELSE rank[v]
    BY <1>3, <2>1, <2>3
  <2> HIDE DEF higher
  <2>6. ASSUME NEW w \in Created, next'[w] # Nobody
        PROVE  next'[w] \in Created /\ higher[next'[w]] < higher[w]
    <3>1. w \in Workers
      BY DEF Created
    <3>2. CASE w = worker
      <4>1. next'[w] = workers /\ workers \in Linked /\ workers # worker
        BY <1>4, <1>5, <2>2, <2>6, <3>1, <3>2
      <4> QED BY <1>4, <2>2, <2>4, <2>5, <2>6, <3>1, <3>2, <4>1
    <3>3. CASE w # worker
      <4>1. w \in Linked /\ next'[w] = next[w]
        BY <1>4, <1>5, <3>1, <3>3
      <4>2. next[w] \in Linked /\ rank[next[w]] < rank[w]
        BY <2>1, <2>6, <4>1
      <4>3. next[w] # worker /\ next[w] \in Workers /\ next[w] \in Created
        BY <1>4, <4>2 DEF Created
      <4> QED BY <2>5, <3>1, <3>3, <4>1, <4>2, <4>3
    <3> QED BY <3>2, <3>3
  <2> QED BY <1>1, <1>4, <2>5, <2>6 DEF LinksDescend
<1>11. EnoughAwake'
  <2>1. Looking' = Looking
    BY <1>1 DEF Looking, Awake
  <2> QED BY <1>1, <1>2, <2>1, AwakeStays
<1> QED BY <1>6, <1>7, <1>8, <1>9, <1>10, <1>11 DEF IInv

\* Create returns: all its workers are in the list.
LEMMA CreateReturnsKeeps == IInv /\ CreateReturns => IInv'
<1> SUFFICES ASSUME IInv, CreateReturns PROVE IInv'
  OBVIOUS
<1>1. /\ owner = "create" /\ owner' = "ready"
      /\ UNCHANGED <<workers, next, terminate, freed, waiting_jobs, jobs_mtx, sleeping,
                     pc, job, worker, jobState>>
  BY DEF CreateReturns, OwnerGoto, list
<1>2. /\ TypeOK /\ BeforeShutdown /\ LeftWasTold /\ ReachesAll /\ LinksDescend
      /\ JobsPlaced /\ EnoughAwake /\ ShutdownDone
  BY DEF IInv
<1>3. Linked' = Linked /\ Created' = Created
  BY <1>1 DEF Linked, Created
<1>4. TypeOK'
  BY <1>1, <1>2 DEF TypeOK
<1>5. BeforeShutdown' /\ ShutdownDone'
  BY <1>1, <1>2, <1>3 DEF BeforeShutdown, ShutdownDone
<1>6. LeftWasTold' /\ JobsPlaced'
  BY <1>1, <1>2, NobodyLeaves, JobsStay
<1>7. ReachesAll'
  BY <1>1, <1>2, <1>3 DEF ReachesAll, Closed
<1>8. LinksDescend'
  BY <1>1, <1>2, <1>3 DEF LinksDescend
<1>9. EnoughAwake'
  <2>1. Looking' = Looking
    BY <1>1 DEF Looking, Awake
  <2> QED BY <1>1, <1>2, <2>1, AwakeStays
<1> QED BY <1>4, <1>5, <1>6, <1>7, <1>8, <1>9 DEF IInv

-----------------------------------------------------------------------------
(* ntyThreadPoolShutdown                                                      *)

\* Shutdown starts at the head of the list; nobody is marked yet.
LEMMA ShutdownBeginKeeps == IInv /\ ShutdownBegin => IInv'
<1> SUFFICES ASSUME IInv, ShutdownBegin PROVE IInv'
  OBVIOUS
<1>1. /\ owner = "ready" /\ owner' = "mark" /\ worker' = workers
      /\ UNCHANGED <<workers, next, terminate, freed, waiting_jobs, jobs_mtx, sleeping,
                     pc, job, jobState>>
  BY DEF ShutdownBegin, OwnerGoto, list
<1>2. /\ TypeOK /\ BeforeShutdown /\ LeftWasTold /\ ReachesAll /\ LinksDescend
      /\ JobsPlaced /\ EnoughAwake /\ ShutdownDone
  BY DEF IInv
<1>3. Linked = Created /\ Linked' = Created /\ Created' = Created
      /\ Unmarked' \subseteq Created
  BY <1>1 DEF Linked, Created, Unmarked
<1>4. TypeOK'
  BY <1>1, <1>2 DEF TypeOK
<1>5. BeforeShutdown' /\ ShutdownDone' /\ EnoughAwake'
  BY <1>1 DEF BeforeShutdown, ShutdownDone, EnoughAwake
<1>6. LeftWasTold' /\ JobsPlaced'
  BY <1>1, <1>2, NobodyLeaves, JobsStay
<1>7. ReachesAll'
  <2>1. SUFFICES ASSUME NEW S \in SUBSET Workers, Closed(S, workers)
                 PROVE  Created \subseteq S
    BY <1>1, <1>3 DEF ReachesAll, Closed
  <2> QED BY <1>1, <1>2, <1>3, <2>1 DEF ReachesAll
<1>8. LinksDescend'
  <2>1. PICK rank \in [Workers -> Nat] :
          \A w \in Linked : next[w] # Nobody => next[w] \in Linked /\ rank[next[w]] < rank[w]
    BY <1>2 DEF LinksDescend
  <2>2. workers # Nobody => workers \in Created
    BY <1>1, <1>2, <1>3 DEF BeforeShutdown
  <2>3. \A w \in Workers : ~terminate[w]
    BY <1>1, <1>2 DEF BeforeShutdown
  <2> QED BY <1>1, <1>3, <2>1, <2>2, <2>3 DEF LinksDescend
<1> QED BY <1>4, <1>5, <1>6, <1>7, <1>8 DEF IInv

\* A mark: what is not marked yet is reached from the next worker.
LEMMA ShutdownMarkKeeps == IInv /\ ShutdownMark => IInv'
<1> SUFFICES ASSUME IInv, ShutdownMark PROVE IInv'
  OBVIOUS
<1>1. /\ owner = "mark" /\ owner' = "advance" /\ worker # Nobody
      /\ terminate' = [terminate EXCEPT ![worker] = TRUE]
      /\ UNCHANGED <<workers, next, freed, waiting_jobs, jobs_mtx, sleeping, pc, job,
                     worker, jobState>>
  BY DEF ShutdownMark, OwnerGoto
<1>2. /\ TypeOK /\ BeforeShutdown /\ LeftWasTold /\ ReachesAll /\ LinksDescend
      /\ JobsPlaced /\ EnoughAwake /\ ShutdownDone
  BY DEF IInv
<1>3. worker \in Workers
  BY <1>1, <1>2 DEF TypeOK
<1>4. /\ terminate' \in [Workers -> BOOLEAN]
      /\ \A w \in Workers : terminate'[w] = IF w = worker THEN TRUE ELSE terminate[w]
  BY <1>2, <1>1, <1>3 DEF TypeOK
<1>5. /\ Linked = Created /\ Linked' = Created /\ Created' = Created
      /\ Unmarked' = Unmarked \ {worker}
  BY <1>1, <1>4 DEF Linked, Created, Unmarked
<1>6. TypeOK'
  BY <1>1, <1>2, <1>4 DEF TypeOK
<1>7. BeforeShutdown' /\ ShutdownDone' /\ EnoughAwake'
  BY <1>1 DEF BeforeShutdown, ShutdownDone, EnoughAwake
<1>8. LeftWasTold' /\ JobsPlaced'
  BY <1>1, <1>2, <1>4, NobodyLeaves, JobsStay
<1>9. ReachesAll'
  <2>1. SUFFICES ASSUME NEW S \in SUBSET Workers, Closed(S, next[worker])
                 PROVE  Unmarked \ {worker} \subseteq S
    BY <1>1, <1>5 DEF ReachesAll, Closed
  <2>2. S \union {worker} \in SUBSET Workers
    BY <1>3
  <2>3. Closed(S \union {worker}, worker)
    BY <2>1 DEF Closed
  <2> QED BY <1>1, <1>2, <2>2, <2>3 DEF ReachesAll
<1>10. LinksDescend'
  <2>1. PICK rank \in [Workers -> Nat] :
          /\ \A w \in Linked : next[w] # Nobody => next[w] \in Linked /\ rank[next[w]] < rank[w]
          /\ worker \in Created /\ \A w \in Workers : terminate[w] => rank[worker] < rank[w]
    BY <1>1, <1>2 DEF LinksDescend
  <2>2. ASSUME NEW w \in Workers, terminate'[w] PROVE rank[worker] <= rank[w]
    <3>1. rank[w] \in Nat /\ rank[worker] \in Nat
      BY <1>3
    <3>2. CASE w = worker
      BY <3>1, <3>2
    <3>3. CASE w # worker
      <4>1. rank[worker] < rank[w]
        BY <1>4, <2>1, <2>2, <3>3
      <4> QED BY <3>1, <4>1
    <3> QED BY <3>2, <3>3
  <2> QED BY <1>1, <1>5, <2>1, <2>2 DEF LinksDescend
<1> QED BY <1>6, <1>7, <1>8, <1>9, <1>10 DEF IInv

\* The step to the next worker, or into a link that free has overwritten.
LEMMA ShutdownAdvanceKeeps == IInv /\ ShutdownAdvance => IInv'
<1> SUFFICES ASSUME IInv, ShutdownAdvance PROVE IInv'
  OBVIOUS
<1>1. /\ owner = "advance"
      /\ \/ owner' = "mark" /\ worker' = next[worker]
         \/ owner' = "undefined" /\ worker' = Nobody
      /\ UNCHANGED <<workers, next, terminate, freed, waiting_jobs, jobs_mtx, sleeping,
                     pc, job, jobState>>
  BY DEF ShutdownAdvance, OwnerGoto, list
<1>2. /\ TypeOK /\ BeforeShutdown /\ LeftWasTold /\ ReachesAll /\ LinksDescend
      /\ JobsPlaced /\ EnoughAwake /\ ShutdownDone
  BY DEF IInv
<1>3. PICK rank \in [Workers -> Nat] :
        /\ \A w \in Linked : next[w] # Nobody => next[w] \in Linked /\ rank[next[w]] < rank[w]
        /\ worker \in Created /\ \A w \in Workers : terminate[w] => rank[worker] <= rank[w]
  BY <1>1, <1>2 DEF LinksDescend
<1>4. /\ Linked = Created /\ Linked' = Created /\ Created' = Created
      /\ Unmarked' = Unmarked
  BY <1>1 DEF Linked, Created, Unmarked
<1>5. worker \in Workers /\ next[worker] \in Workers \union {Nobody}
  BY <1>2, <1>3 DEF Created, TypeOK
<1>6. TypeOK'
  BY <1>1, <1>2, <1>5 DEF TypeOK
<1>7. BeforeShutdown' /\ ShutdownDone' /\ EnoughAwake'
  BY <1>1 DEF BeforeShutdown, ShutdownDone, EnoughAwake
<1>8. LeftWasTold' /\ JobsPlaced'
  BY <1>1, <1>2, NobodyLeaves, JobsStay
<1>9. ReachesAll'
  BY <1>1, <1>2, <1>4 DEF ReachesAll, Closed
<1>10. LinksDescend'
  <2>1. ASSUME owner' = "mark", next[worker] # Nobody
        PROVE  /\ next[worker] \in Created
               /\ \A w \in Workers : terminate[w] => rank[next[worker]] < rank[w]
    <3>1. next[worker] \in Linked /\ rank[next[worker]] < rank[worker]
      BY <1>3, <1>4, <2>1
    <3>2. next[worker] \in Workers
      BY <1>5, <2>1
    <3> QED BY <1>3, <1>4, <1>5, <3>1, <3>2
  <2> QED BY <1>1, <1>3, <1>4, <2>1 DEF LinksDescend
<1> QED BY <1>6, <1>7, <1>8, <1>9, <1>10 DEF IInv

\* The end of the list: no worker is unmarked.  The jobs in the list are dropped.
LEMMA ShutdownClearKeeps == IInv /\ ShutdownClear => IInv'
<1> SUFFICES ASSUME IInv, ShutdownClear PROVE IInv'
  OBVIOUS
<1>1. /\ owner = "mark" /\ owner' = "down" /\ worker = Nobody
      /\ workers' = Nobody /\ waiting_jobs' = <<>> /\ sleeping' = {}
      /\ jobState' = [j \in Jobs |-> IF jobState[j] = "queued" THEN "dropped" ELSE jobState[j]]
      /\ UNCHANGED <<next, terminate, freed, jobs_mtx, pc, job, worker>>
  BY DEF ShutdownClear, OwnerGoto
<1>2. /\ TypeOK /\ BeforeShutdown /\ LeftWasTold /\ ReachesAll /\ LinksDescend
      /\ JobsPlaced /\ EnoughAwake /\ ShutdownDone
  BY DEF IInv
<1>3. Unmarked = {}
  <2>1. {} \in SUBSET Workers /\ Closed({}, worker)
    BY <1>1 DEF Closed
  <2> QED BY <1>1, <1>2, <2>1 DEF ReachesAll
<1>4. Linked' = Linked /\ Unmarked' = Unmarked
  BY <1>1 DEF Linked, Created, Unmarked
<1>5. \A j \in Jobs : jobState'[j] = IF jobState[j] = "queued" THEN "dropped" ELSE jobState[j]
  BY <1>1
<1>6. TypeOK'
  <2>1. jobState' \in [Jobs -> {"new", "queued", "running", "done", "dropped"}]
    BY <1>1, <1>2 DEF TypeOK
  <2> QED BY <1>1, <1>2, <2>1, EmptyFacts DEF TypeOK
<1>7. BeforeShutdown' /\ ShutdownDone' /\ EnoughAwake'
  BY <1>1, <1>3, <1>4 DEF BeforeShutdown, ShutdownDone, EnoughAwake
<1>8. LeftWasTold'
  BY <1>1, <1>2, NobodyLeaves
<1>9. ReachesAll'
  BY <1>1 DEF ReachesAll
<1>10. LinksDescend'
  BY <1>1, <1>2, <1>4 DEF LinksDescend
<1>11. JobsPlaced'
  <2>1. NoDuplicates(waiting_jobs') /\ Entries(waiting_jobs') = {}
    BY <1>1, EmptyFacts
  <2> QED BY <1>1, <1>2, <1>5, <2>1 DEF JobsPlaced, TypeOK
<1> QED BY <1>6, <1>7, <1>8, <1>9, <1>10, <1>11 DEF IInv

-----------------------------------------------------------------------------
(* ntyThreadPoolQueue                                                         *)

\* One job more, and one worker more that is awake if any was asleep.
LEMMA QueueKeeps == ASSUME IInv, NEW j \in Jobs, Queue(j) PROVE IInv'
<1>1. /\ jobState[j] = "new"
      /\ waiting_jobs' = <<j>> \o waiting_jobs
      /\ jobState' = [jobState EXCEPT ![j] = "queued"]
      /\ Signal
      /\ UNCHANGED <<workers, next, terminate, freed, jobs_mtx, pc, job, owner, worker>>
  BY DEF Queue, list
<1>2. /\ TypeOK /\ BeforeShutdown /\ LeftWasTold /\ ReachesAll /\ LinksDescend
      /\ JobsPlaced /\ EnoughAwake /\ ShutdownDone
  BY DEF IInv
<1>3. \A k \in Jobs : jobState'[k] = IF k = j THEN "queued" ELSE jobState[k]
  BY <1>1, <1>2 DEF TypeOK
<1>4. /\ waiting_jobs \in Seq(Jobs) /\ Len(waiting_jobs) \in Nat
      /\ waiting_jobs' \in Seq(Jobs)
      /\ Len(waiting_jobs') = Len(waiting_jobs) + 1
      /\ NoDuplicates(waiting_jobs')
      /\ Entries(waiting_jobs') = Entries(waiting_jobs) \union {j}
  <2>1. waiting_jobs \in Seq(Jobs) /\ NoDuplicates(waiting_jobs) /\ j \notin Entries(waiting_jobs)
    BY <1>1, <1>2 DEF TypeOK, JobsPlaced
  <2> QED BY <1>1, <2>1, NewFrontFacts, LenProperties
<1>5. sleeping' \subseteq sleeping
  BY <1>1 DEF Signal
<1>6. TypeOK'
  BY <1>1, <1>2, <1>4, <1>5 DEF TypeOK
<1>7. Created' = Created
  BY <1>1 DEF Created
<1>8. BeforeShutdown' /\ ReachesAll' /\ LinksDescend' /\ ShutdownDone'
  BY <1>1, <1>2, <1>7, ListStays
<1>9. LeftWasTold'
  BY <1>1, <1>2, NobodyLeaves
<1>10. JobsPlaced'
  <2>1. \A k \in Jobs : jobState'[k] = "queued" <=> k \in Entries(waiting_jobs')
    BY <1>2, <1>3, <1>4 DEF JobsPlaced
  <2>2. \A k \in Jobs : jobState'[k] = "running" <=> \E w \in Workers : job'[w] = k
    BY <1>1, <1>2, <1>3 DEF JobsPlaced
  <2> QED BY <1>1, <1>2, <1>4, <2>1, <2>2 DEF JobsPlaced
<1>11. EnoughAwake'
  <2>1. SUFFICES ASSUME owner \in {"create", "link", "ready"}, sleeping # {}
                 PROVE  Len(waiting_jobs') <= Cardinality(Looking')
    BY <1>1, <1>5, EnoughAwakeMeans
  <2>2. PICK w \in sleeping : sleeping' = sleeping \ {w}
    BY <1>1, <2>1 DEF Signal
  <2>3. w \in Workers \ Looking /\ pc[w] = "wait"
    BY <1>2, <2>2 DEF TypeOK, Looking, Awake
  <2>4. Looking' = Looking \union {w}
    BY <1>1, <2>2, <2>3 DEF Looking, Awake
  <2>5. Looking \subseteq Workers
    BY DEF Looking
  <2>6. Cardinality(Looking') = Cardinality(Looking) + 1 /\ Cardinality(Looking) \in Nat
    BY <2>3, <2>4, <2>5, LookingCounted
  <2>7. Len(waiting_jobs) <= Cardinality(Looking)
    BY <1>2, <2>1, EnoughAwakeMeans
  <2> QED BY <1>4, <2>6, <2>7
<1> QED BY <1>6, <1>8, <1>9, <1>10, <1>11 DEF IInv

-----------------------------------------------------------------------------
(* ntyWorkerThread                                                            *)

\* The mutex is locked, at the top of the loop or at the end of the wait.
LEMMA LockStepKeeps == ASSUME IInv, NEW w \in Workers, LockStep(w) PROVE IInv'
<1>1. /\ pc[w] \in {"lock", "wait"} /\ w \notin sleeping
      /\ pc' = [pc EXCEPT ![w] = "testJobs"]
      /\ jobs_mtx' = w
      /\ UNCHANGED <<workers, next, terminate, freed, waiting_jobs, sleeping, job, owner,
                     worker, jobState>>
  BY DEF LockStep, WorkerLock, WorkerWake, Goto, Lock, list, IInv, TypeOK
<1>2. /\ TypeOK /\ BeforeShutdown /\ LeftWasTold /\ ReachesAll /\ LinksDescend
      /\ JobsPlaced /\ EnoughAwake /\ ShutdownDone
  BY DEF IInv
<1>3. /\ pc' \in [Workers -> PCs]
      /\ \A v \in Workers : pc'[v] = IF v = w THEN "testJobs" ELSE pc[v]
      /\ Created' = Created
  <2>1. "testJobs" \in PCs \ {"unborn"} /\ pc[w] # "unborn"
    BY <1>1 DEF PCs
  <2> QED BY <1>1, <1>2, <2>1, WorkerMoves
<1>4. BeforeShutdown' /\ ReachesAll' /\ LinksDescend' /\ ShutdownDone'
  BY <1>1, <1>2, <1>3, ListStays
<1>5. TypeOK'
  BY <1>1, <1>2, <1>3 DEF TypeOK
<1>6. LeftWasTold' /\ JobsPlaced'
  BY <1>1, <1>2, <1>3, NobodyLeaves, JobsStay
<1>7. EnoughAwake'
  <2>1. Looking' = Looking
    BY <1>1, <1>3 DEF Looking, Awake
  <2> QED BY <1>1, <1>2, <2>1, AwakeStays
<1> QED BY <1>4, <1>5, <1>6, <1>7 DEF IInv

\* A worker goes to sleep only when no job waits.
LEMMA WorkerTestJobsKeeps == ASSUME IInv, NEW w \in Workers, WorkerTestJobs(w) PROVE IInv'
<1> DEFINE Common ==
      /\ pc[w] = "testJobs"
      /\ UNCHANGED <<workers, next, terminate, freed, waiting_jobs, job, owner, worker,
                     jobState>>
<1>a. CASE Common /\ pc' = [pc EXCEPT ![w] = "testTerminate"] /\ UNCHANGED <<jobs_mtx, sleeping>>
  <2>1. /\ pc[w] = "testJobs" /\ pc' = [pc EXCEPT ![w] = "testTerminate"]
        /\ UNCHANGED <<workers, next, terminate, freed, waiting_jobs, jobs_mtx, sleeping,
                       job, owner, worker, jobState>>
    BY <1>a
  <2>2. /\ TypeOK /\ BeforeShutdown /\ LeftWasTold /\ ReachesAll /\ LinksDescend
        /\ JobsPlaced /\ EnoughAwake /\ ShutdownDone
    BY DEF IInv
  <2>3. /\ pc' \in [Workers -> PCs]
        /\ \A v \in Workers : pc'[v] = IF v = w THEN "testTerminate" ELSE pc[v]
        /\ Created' = Created
    <3>1. "testTerminate" \in PCs \ {"unborn"} /\ pc[w] # "unborn"
      BY <2>1 DEF PCs
    <3> QED BY <2>1, <2>2, <3>1, WorkerMoves
  <2>4. BeforeShutdown' /\ ReachesAll' /\ LinksDescend' /\ ShutdownDone'
    BY <2>1, <2>2, <2>3, ListStays
  <2>5. TypeOK'
    BY <2>1, <2>2, <2>3 DEF TypeOK
  <2>6. LeftWasTold' /\ JobsPlaced'
    BY <2>1, <2>2, <2>3, NobodyLeaves, JobsStay
  <2>7. EnoughAwake'
    <3>1. Looking' = Looking
      BY <2>1, <2>2, <2>3 DEF Looking, Awake, TypeOK
    <3> QED BY <2>1, <2>2, <3>1, AwakeStays
  <2> QED BY <2>4, <2>5, <2>6, <2>7 DEF IInv
<1>b. CASE /\ Common /\ waiting_jobs = <<>>
           /\ pc' = [pc EXCEPT ![w] = "wait"]
           /\ jobs_mtx' = Nobody
           /\ sleeping' = sleeping \union {w}
  <2>1. /\ pc[w] = "testJobs" /\ pc' = [pc EXCEPT ![w] = "wait"]
        /\ waiting_jobs = <<>> /\ jobs_mtx' = Nobody /\ sleeping' = sleeping \union {w}
        /\ UNCHANGED <<workers, next, terminate, freed, waiting_jobs, job, owner, worker,
                       jobState>>
    BY <1>b
  <2>2. /\ TypeOK /\ BeforeShutdown /\ LeftWasTold /\ ReachesAll /\ LinksDescend
        /\ JobsPlaced /\ EnoughAwake /\ ShutdownDone
    BY DEF IInv
  <2>3. /\ pc' \in [Workers -> PCs]
        /\ \A v \in Workers : pc'[v] = IF v = w THEN "wait" ELSE pc[v]
        /\ Created' = Created
    <3>1. "wait" \in PCs \ {"unborn"} /\ pc[w] # "unborn"
      BY <2>1 DEF PCs
    <3> QED BY <2>1, <2>2, <3>1, WorkerMoves
  <2>4. BeforeShutdown' /\ ReachesAll' /\ LinksDescend' /\ ShutdownDone'
    BY <2>1, <2>2, <2>3, ListStays
  <2>5. TypeOK'
    BY <2>1, <2>2, <2>3 DEF TypeOK
  <2>6. LeftWasTold' /\ JobsPlaced'
    BY <2>1, <2>2, <2>3, NobodyLeaves, JobsStay
  <2>7. EnoughAwake'
    <3>1. Len(waiting_jobs') = 0
      BY <2>1, EmptyFacts
    <3>2. Looking' \subseteq Workers
      BY DEF Looking
    <3>3. Cardinality(Looking') \in Nat
      BY <3>2, LookingCounted
    <3> QED BY <3>1, <3>3, EnoughAwakeMeans
  <2> QED BY <2>4, <2>5, <2>6, <2>7 DEF IInv
<1> QED BY <1>a, <1>b DEF WorkerTestJobs, Goto, Unlock, list

\* A wakeup nobody sent.
LEMMA SpuriousWakeupKeeps == ASSUME IInv, NEW w \in Workers, SpuriousWakeup(w) PROVE IInv'
<1>1. /\ w \in sleeping /\ sleeping' = sleeping \ {w}
      /\ UNCHANGED <<workers, next, terminate, freed, waiting_jobs, jobs_mtx, pc, job,
                     owner, worker, jobState>>
  BY DEF SpuriousWakeup, list
<1>2. /\ TypeOK /\ BeforeShutdown /\ LeftWasTold /\ ReachesAll /\ LinksDescend
      /\ JobsPlaced /\ EnoughAwake /\ ShutdownDone
  BY DEF IInv
<1>3. TypeOK'
  BY <1>1, <1>2 DEF TypeOK
<1>4. Created' = Created
  BY <1>1 DEF Created
<1>5. BeforeShutdown' /\ ReachesAll' /\ LinksDescend' /\ ShutdownDone'
  BY <1>1, <1>2, <1>4, ListStays
<1>6. LeftWasTold' /\ JobsPlaced'
  BY <1>1, <1>2, NobodyLeaves, JobsStay
<1>7. EnoughAwake'
  <2>1. w \in Workers \ Looking /\ pc[w] = "wait"
    BY <1>1, <1>2 DEF TypeOK, Looking, Awake
  <2>2. Looking' = Looking \union {w}
    BY <1>1, <2>1 DEF Looking, Awake
  <2> QED BY <1>1, <1>2, <2>1, <2>2, AwakeStays
<1> QED BY <1>3, <1>5, <1>6, <1>7 DEF IInv

\* Only a worker that was told to leaves.
LEMMA WorkerExitKeeps == ASSUME IInv, NEW w \in Workers, WorkerExit(w) PROVE IInv'
<1>1. /\ terminate[w] /\ pc[w] = "testTerminate" /\ pc' = [pc EXCEPT ![w] = "exit"]
      /\ jobs_mtx' = Nobody
      /\ UNCHANGED <<workers, next, terminate, freed, waiting_jobs, sleeping, job, owner,
                     worker, jobState>>
  BY DEF WorkerExit, Goto, Unlock, list
<1>2. /\ TypeOK /\ BeforeShutdown /\ LeftWasTold /\ ReachesAll /\ LinksDescend
      /\ JobsPlaced /\ EnoughAwake /\ ShutdownDone
  BY DEF IInv
<1>3. /\ pc' \in [Workers -> PCs]
      /\ \A v \in Workers : pc'[v] = IF v = w THEN "exit" ELSE pc[v]
      /\ Created' = Created
  <2>1. "exit" \in PCs \ {"unborn"} /\ pc[w] # "unborn"
    BY <1>1 DEF PCs
  <2> QED BY <1>1, <1>2, <2>1, WorkerMoves
<1>4. BeforeShutdown' /\ ReachesAll' /\ LinksDescend' /\ ShutdownDone'
  BY <1>1, <1>2, <1>3, ListStays
<1>5. TypeOK'
  BY <1>1, <1>2, <1>3 DEF TypeOK
<1>6. LeftWasTold'
  BY <1>1, <1>2, <1>3 DEF LeftWasTold
<1>7. JobsPlaced'
  BY <1>1, <1>2, <1>3, JobsStay
<1>8. EnoughAwake'
  <2>1. owner \notin {"create", "link", "ready"}
    BY <1>1, <1>2 DEF BeforeShutdown
  <2> QED BY <1>1, <2>1, EnoughAwakeMeans
<1> QED BY <1>4, <1>5, <1>6, <1>7, <1>8 DEF IInv

\* One job less, and one worker less that looks for one.
LEMMA WorkerTakeKeeps == ASSUME IInv, NEW w \in Workers, WorkerTake(w) PROVE IInv'
<1> DEFINE j == Head(waiting_jobs)
<1>1. /\ waiting_jobs # <<>>
      /\ pc[w] = "testTerminate" /\ pc' = [pc EXCEPT ![w] = "run"]
      /\ job' = [job EXCEPT ![w] = j]
      /\ waiting_jobs' = Tail(waiting_jobs)
      /\ jobState' = [jobState EXCEPT ![j] = "running"]
      /\ jobs_mtx' = Nobody
      /\ UNCHANGED <<workers, next, terminate, freed, sleeping, owner, worker>>
  BY DEF WorkerTake, Goto, Unlock, list
<1>2. /\ TypeOK /\ BeforeShutdown /\ LeftWasTold /\ ReachesAll /\ LinksDescend
      /\ JobsPlaced /\ EnoughAwake /\ ShutdownDone
  BY DEF IInv
<1>3. /\ pc' \in [Workers -> PCs]
      /\ \A v \in Workers : pc'[v] = IF v = w THEN "run" ELSE pc[v]
      /\ Created' = Created
  <2>1. "run" \in PCs \ {"unborn"} /\ pc[w] # "unborn"
    BY <1>1 DEF PCs
  <2> QED BY <1>1, <1>2, <2>1, WorkerMoves
<1>4. BeforeShutdown' /\ ReachesAll' /\ LinksDescend' /\ ShutdownDone'
  BY <1>1, <1>2, <1>3, ListStays
<1>5. /\ waiting_jobs \in Seq(Jobs) /\ Len(waiting_jobs) \in Nat
      /\ j \in Jobs /\ j # Nobody
      /\ waiting_jobs' \in Seq(Jobs)
      /\ Len(waiting_jobs') = Len(waiting_jobs) - 1
      /\ NoDuplicates(waiting_jobs')
      /\ j \in Entries(waiting_jobs)
      /\ Entries(waiting_jobs') = Entries(waiting_jobs) \ {j}
  <2>1. waiting_jobs \in Seq(Jobs) /\ NoDuplicates(waiting_jobs)
    BY <1>2 DEF TypeOK, JobsPlaced
  <2> QED BY <1>1, <2>1, FrontFacts, LenProperties, NobodyAssumption
<1> HIDE DEF j
<1>6. /\ \A k \in Jobs : jobState'[k] = IF k = j THEN "running" ELSE jobState[k]
      /\ \A v \in Workers : job'[v] = IF v = w THEN j ELSE job[v]
  BY <1>1, <1>2 DEF TypeOK
<1>7. TypeOK'
  <2>1. /\ job' \in [Workers -> Jobs \union {Nobody}]
        /\ jobState' \in [Jobs -> {"new", "queued", "running", "done", "dropped"}]
    BY <1>1, <1>2, <1>5 DEF TypeOK
  <2>2. sleeping' \subseteq {v \in Workers : pc'[v] = "wait"}
    BY <1>1, <1>2, <1>3 DEF TypeOK
  <2> QED BY <1>1, <1>2, <1>3, <1>5, <2>1, <2>2 DEF TypeOK
<1>8. LeftWasTold'
  BY <1>1, <1>2, <1>3, NobodyLeaves
<1>9. JobsPlaced'
  <2>1. \A v \in Workers : job[v] # j
    BY <1>2, <1>5 DEF JobsPlaced
  <2>2. \A k \in Jobs : jobState'[k] = "queued" <=> k \in Entries(waiting_jobs')
    BY <1>2, <1>5, <1>6 DEF JobsPlaced
  <2>3. \A v \in Workers : job'[v] # Nobody <=> pc'[v] = "run"
    BY <1>2, <1>3, <1>5, <1>6 DEF JobsPlaced
  <2>4. \A u, v \in Workers : job'[u] = job'[v] /\ job'[u] # Nobody => u = v
    BY <1>2, <1>6, <2>1 DEF JobsPlaced
  <2>5. ASSUME NEW k \in Jobs
        PROVE  jobState'[k] = "running" <=> \E v \in Workers : job'[v] = k
    <3>1. CASE k = j
      BY <1>6, <3>1
    <3>2. CASE k # j
      <4>1. job[w] = Nobody
        BY <1>1, <1>2 DEF JobsPlaced
      <4>2. \A v \in Workers : job'[v] = k <=> job[v] = k
        BY <1>6, <3>2, <4>1, NobodyAssumption
      <4> QED BY <1>2, <1>6, <3>2, <4>2 DEF JobsPlaced
    <3> QED BY <3>1, <3>2
  <2> QED BY <1>5, <2>2, <2>3, <2>4, <2>5 DEF JobsPlaced
<1>10. EnoughAwake'
  <2>1. w \in Looking /\ Looking \subseteq Workers
    BY <1>1, <1>2 DEF Looking, Awake, TypeOK
  <2>2. Looking' = Looking \ {w}
    BY <1>1, <1>3 DEF Looking, Awake
  <2>3. Cardinality(Looking') = Cardinality(Looking) - 1 /\ Cardinality(Looking) \in Nat
    BY <2>1, <2>2, LookingCounted
  <2>4. owner' \in {"create", "link", "ready"} /\ sleeping' # {} =>
          Len(waiting_jobs') <= Cardinality(Looking')
    BY <1>1, <1>2, <1>5, <2>3, EnoughAwakeMeans
  <2> QED BY <2>4, EnoughAwakeMeans
<1> QED BY <1>4, <1>7, <1>8, <1>9, <1>10 DEF IInv

\* The job is done, and its worker looks for the next one.
LEMMA WorkerRunKeeps == ASSUME IInv, NEW w \in Workers, WorkerRun(w) PROVE IInv'
<1>1. /\ pc[w] = "run" /\ pc' = [pc EXCEPT ![w] = "lock"]
      /\ jobState' = [jobState EXCEPT ![job[w]] = "done"]
      /\ job' = [job EXCEPT ![w] = Nobody]
      /\ UNCHANGED <<workers, next, terminate, freed, waiting_jobs, jobs_mtx, sleeping,
                     owner, worker>>
  BY DEF WorkerRun, Goto, list
<1>2. /\ TypeOK /\ BeforeShutdown /\ LeftWasTold /\ ReachesAll /\ LinksDescend
      /\ JobsPlaced /\ EnoughAwake /\ ShutdownDone
  BY DEF IInv
<1>3. /\ pc' \in [Workers -> PCs]
      /\ \A v \in Workers : pc'[v] = IF v = w THEN "lock" ELSE pc[v]
      /\ Created' = Created
  <2>1. "lock" \in PCs \ {"unborn"} /\ pc[w] # "unborn"
    BY <1>1 DEF PCs
  <2> QED BY <1>1, <1>2, <2>1, WorkerMoves
<1>4. BeforeShutdown' /\ ReachesAll' /\ LinksDescend' /\ ShutdownDone'
  BY <1>1, <1>2, <1>3, ListStays
<1>5. job[w] \in Jobs /\ job[w] # Nobody /\ jobState[job[w]] = "running"
  BY <1>1, <1>2 DEF JobsPlaced, TypeOK
<1>6. /\ \A k \in Jobs : jobState'[k] = IF k = job[w] THEN "done" ELSE jobState[k]
      /\ \A v \in Workers : job'[v] = IF v = w THEN Nobody ELSE job[v]
  BY <1>1, <1>2 DEF TypeOK
<1>7. TypeOK'
  <2>1. /\ job' \in [Workers -> Jobs \union {Nobody}]
        /\ jobState' \in [Jobs -> {"new", "queued", "running", "done", "dropped"}]
    BY <1>1, <1>2 DEF TypeOK
  <2>2. sleeping' \subseteq {v \in Workers : pc'[v] = "wait"}
    BY <1>1, <1>2, <1>3 DEF TypeOK
  <2> QED BY <1>1, <1>2, <1>3, <2>1, <2>2 DEF TypeOK
<1>8. LeftWasTold'
  BY <1>1, <1>2, <1>3, NobodyLeaves
<1>9. JobsPlaced'
  <2>1. NoDuplicates(waiting_jobs') /\ Entries(waiting_jobs') = Entries(waiting_jobs)
    BY <1>1, <1>2 DEF JobsPlaced
  <2>2. \A k \in Jobs : jobState'[k] = "queued" <=> k \in Entries(waiting_jobs')
    BY <1>2, <1>5, <1>6, <2>1 DEF JobsPlaced
  <2>3. \A v \in Workers : job'[v] # Nobody <=> pc'[v] = "run"
    BY <1>2, <1>3, <1>6 DEF JobsPlaced
  <2>4. \A u, v \in Workers : job'[u] = job'[v] /\ job'[u] # Nobody => u = v
    BY <1>2, <1>6 DEF JobsPlaced
  <2>5. ASSUME NEW k \in Jobs
        PROVE  jobState'[k] = "running" <=> \E v \in Workers : job'[v] = k
    <3>1. CASE k = job[w]
      <4>1. \A v \in Workers : job'[v] # k
        BY <1>2, <1>5, <1>6, <3>1 DEF JobsPlaced
      <4> QED BY <1>6, <3>1, <4>1
    <3>2. CASE k # job[w]
      <4>1. \A v \in Workers : job'[v] = k <=> job[v] = k
        BY <1>6, <3>2, NobodyAssumption
      <4> QED BY <1>2, <1>6, <3>2, <4>1 DEF JobsPlaced
    <3> QED BY <3>1, <3>2
  <2> QED BY <2>1, <2>2, <2>3, <2>4, <2>5 DEF JobsPlaced
<1>10. EnoughAwake'
  <2>1. w \in Workers \ Looking /\ w \notin sleeping
    BY <1>1, <1>2 DEF Looking, Awake, TypeOK
  <2>2. Looking' = Looking \union {w}
    BY <1>1, <1>3, <2>1 DEF Looking, Awake
  <2> QED BY <1>1, <1>2, <2>1, <2>2, AwakeStays
<1> QED BY <1>4, <1>7, <1>8, <1>9, <1>10 DEF IInv

\* A worker frees itself on its way out.
LEMMA WorkerFreeKeeps == ASSUME IInv, NEW w \in Workers, WorkerFree(w) PROVE IInv'
<1>1. /\ pc[w] = "exit" /\ pc' = [pc EXCEPT ![w] = "gone"]
      /\ freed' = freed \union {w}
      /\ UNCHANGED <<workers, next, terminate, waiting_jobs, jobs_mtx, sleeping, job,
                     owner, worker, jobState>>
  BY DEF WorkerFree, Goto
<1>2. /\ TypeOK /\ BeforeShutdown /\ LeftWasTold /\ ReachesAll /\ LinksDescend
      /\ JobsPlaced /\ EnoughAwake /\ ShutdownDone
  BY DEF IInv
<1>3. /\ pc' \in [Workers -> PCs]
      /\ \A v \in Workers : pc'[v] = IF v = w THEN "gone" ELSE pc[v]
      /\ Created' = Created
  <2>1. "gone" \in PCs \ {"unborn"} /\ pc[w] # "unborn"
    BY <1>1 DEF PCs
  <2> QED BY <1>1, <1>2, <2>1, WorkerMoves
<1>4. BeforeShutdown' /\ ReachesAll' /\ LinksDescend' /\ ShutdownDone'
  BY <1>1, <1>2, <1>3, ListStays
<1>5. TypeOK'
  BY <1>1, <1>2, <1>3 DEF TypeOK
<1>6. LeftWasTold'
  BY <1>1, <1>2, <1>3 DEF LeftWasTold
<1>7. JobsPlaced'
  BY <1>1, <1>2, <1>3, JobsStay
<1>8. EnoughAwake'
  <2>1. Looking' = Looking
    BY <1>1, <1>3 DEF Looking, Awake
  <2> QED BY <1>1, <1>2, <2>1, AwakeStays
<1> QED BY <1>4, <1>5, <1>6, <1>7, <1>8 DEF IInv

-----------------------------------------------------------------------------
(* What follows                                                               *)

\* Nothing happens.
LEMMA StutterKeeps == IInv /\ UNCHANGED vars => IInv'
<1> SUFFICES ASSUME IInv, UNCHANGED vars PROVE IInv'
  OBVIOUS
<1> USE DEF vars, list, IInv
<1>1. TypeOK'
  BY DEF TypeOK
<1>2. BeforeShutdown' /\ ReachesAll' /\ LinksDescend' /\ ShutdownDone'
  <2>1. Created' = Created
    BY DEF Created
  <2> QED BY <2>1, ListStays
<1>3. LeftWasTold' /\ JobsPlaced'
  BY NobodyLeaves, JobsStay
<1>4. EnoughAwake'
  BY DEF EnoughAwake, Awake
<1> QED BY <1>1, <1>2, <1>3, <1>4

\* Every step of the owner, the clients and the workers keeps the invariant.
LEMMA NextKeeps == IInv /\ [Next]_vars => IInv'
<1> SUFFICES ASSUME IInv, [Next]_vars PROVE IInv'
  OBVIOUS
<1>1. CASE OwnerStep
  BY <1>1, CreateWorkerKeeps, LinkWorkerKeeps, CreateReturnsKeeps, ShutdownBeginKeeps,
     ShutdownMarkKeeps, ShutdownAdvanceKeeps, ShutdownClearKeeps DEF OwnerStep
<1>2. ASSUME NEW j \in Jobs, Queue(j) PROVE IInv'
  BY <1>2, QueueKeeps
<1>3. ASSUME NEW w \in Workers, WorkerStep(w) PROVE IInv'
  BY <1>3, LockStepKeeps, WorkerTestJobsKeeps, WorkerExitKeeps, WorkerTakeKeeps,
     WorkerRunKeeps, WorkerFreeKeeps DEF WorkerStep
<1>4. ASSUME NEW w \in Workers, SpuriousWakeup(w) PROVE IInv'
  BY <1>4, SpuriousWakeupKeeps
<1>5. CASE UNCHANGED vars
  BY <1>5, StutterKeeps
<1> QED BY <1>1, <1>2, <1>3, <1>4, <1>5 DEF Next

\* The invariant holds in every state of the pool (thread_pool.c), whatever its
\* clients and its owner do.
THEOREM Invariance == Spec => []IInv
  BY InitHolds, NextKeeps, PTL DEF Spec

\* A set in which any two elements are equal has none or one.
LEMMA AtMostOne ==
  ASSUME NEW S, \A x, y \in S : x = y
  PROVE  Cardinality(S) = IF S = {} THEN 0 ELSE 1
<1>1. S = {} \/ \E x : S = {x}
  OBVIOUS
<1> QED BY <1>1, FS_EmptySet, FS_Singleton

\* Queue and the workers lose no job and run none twice.
THEOREM JobSafety == Spec => []JobsAccounted
<1>1. IInv => JobsAccounted
  <2> SUFFICES ASSUME IInv, NEW j \in Jobs
               PROVE  /\ Cardinality({n \in DOMAIN waiting_jobs : waiting_jobs[n] = j})
                           = IF jobState[j] = "queued" THEN 1 ELSE 0
                      /\ Cardinality({w \in Workers : job[w] = j})
                           = IF jobState[j] = "running" THEN 1 ELSE 0
    BY DEF IInv, JobsAccounted
  <2> DEFINE places == {n \in DOMAIN waiting_jobs : waiting_jobs[n] = j}
             carriers == {w \in Workers : job[w] = j}
  <2>1. j # Nobody
    BY NobodyAssumption
  <2>2. \A m, n \in places : m = n
    BY DEF IInv, JobsPlaced, NoDuplicates
  <2>3. places = {} <=> jobState[j] # "queued"
    BY DEF IInv, JobsPlaced, Entries
  <2>4. \A v, w \in carriers : v = w
    BY <2>1 DEF IInv, JobsPlaced
  <2>5. carriers = {} <=> jobState[j] # "running"
    BY DEF IInv, JobsPlaced
  <2> HIDE DEF places, carriers
  <2>6. /\ Cardinality(places) = IF jobState[j] = "queued" THEN 1 ELSE 0
        /\ Cardinality(carriers) = IF jobState[j] = "running" THEN 1 ELSE 0
    BY <2>2, <2>3, <2>4, <2>5, AtMostOne
  <2> QED BY <2>6 DEF places, carriers
<1> QED BY <1>1, Invariance, PTL

\* The signal of Queue is enough, with any number of workers and spurious wakeups.
THEOREM WakeupSafety == Spec => []EnoughAwake
<1>1. IInv => EnoughAwake
  BY DEF IInv
<1> QED BY <1>1, Invariance, PTL

\* Shutdown walks the worker list without the mutex and yet tells every worker to
\* leave, and writes to none that has left already.
THEOREM ShutdownSafety == Spec => []ShutdownReachesAll
<1>1. IInv => ShutdownReachesAll
  <2> SUFFICES ASSUME IInv PROVE ShutdownReachesAll
    OBVIOUS
  <2>1. MarkSafe
    <3> SUFFICES ASSUME owner = "mark", worker \in freed PROVE FALSE
      BY DEF MarkSafe
    <3>1. worker \in Workers /\ worker # Nobody /\ terminate[worker]
      BY NobodyAssumption DEF IInv, LeftWasTold
    <3>2. PICK rank \in [Workers -> Nat] :
            \A w \in Workers : terminate[w] => rank[worker] < rank[w]
      BY <3>1 DEF IInv, LinksDescend
    <3>3. rank[worker] \in Nat /\ rank[worker] < rank[worker]
      BY <3>1, <3>2
    <3> QED BY <3>3
  <2>2. owner = "down" => \A w \in Created : terminate[w]
    BY DEF IInv, ShutdownDone, Unmarked
  <2> QED BY <2>1, <2>2 DEF ShutdownReachesAll
<1> QED BY <1>1, Invariance, PTL
=============================================================================
