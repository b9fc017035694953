--------------------------- MODULE ThreadedPrograms ---------------------------
(***************************************************************************)
(* Multi-threaded programs for any values of their constants: the queue benchmark  *)
(* and its counters (QueueBenchmark), the threads of the log (LogThreads) and the  *)
(* pool test (RedisPoolTest); and what a thread uses: a connection to MySQL         *)
(* (DBConn) and its prepared statements (DBStatements), the leak detector          *)
(* (MemLeak), the memory pool (MemoryPool) and exceptions (TryCatch).  Each has    *)
(* the inductive invariant that its safety properties follow from.  MCServices    *)
(* puts them beside other programs and has the theorems.                          *)
(***************************************************************************)
EXTENDS Integers, FiniteSets, Sequences, TLAPS, FiniteSetTheorems,
        SequenceTheorems, WellFoundedInduction

CONSTANTS
  \* RedisPoolTest
  Workers, Jobs, queue_max_num, MIN_CACHE_CONN_CNT, m_max_conn_cnt,
  \* QueueBenchmark
  Arguments, Q_SIZE, Batch, Incrementers, FOR_LOOP_COUNT,
  \* LogThreads
  Starters, Share

\* A number of jobs or of connections is not negative.
ASSUME TestAssumption ==
  /\ Jobs \in Nat /\ queue_max_num \in Nat
  /\ MIN_CACHE_CONN_CNT \in Nat /\ m_max_conn_cnt \in Nat

\* There is a consumer; a loop runs a finite number of times in finitely many threads.
ASSUME BenchAssumption ==
  /\ Arguments \subseteq Nat \X (Nat \ {0}) \X Nat
  /\ Batch \in Nat \ {0} /\ FOR_LOOP_COUNT \in Nat
  /\ IsFiniteSet(Incrementers)

\* 0 is the main thread and 100 nobody.
ASSUME ThreadsAssumption ==
  /\ IsFiniteSet(Starters) /\ 0 \notin Starters /\ 100 \notin Starters
  /\ Share \in Nat

VARIABLES
  \* RedisPoolTest
  queue_cur_num, queue_close, pool_close, queue_empty, queue_not_empty,
  queue_not_full, worker, main, toAdd, accepted, ran,
  m_free_list, m_cur_conn_cnt, m_pContext, m_free_notify, client, pConn, fault, deleted,
  \* QueueBenchmark
  arguments, round, queue, flushed, s_count_push, s_count_pop, producer, consumer, taken,
  outcome, test, counter, held, thread, printed,
  \* LogThreads
  object, tid_, count_, holder_, owner, asleep, mainAt, runner, queue_, sleepers, put, share,
  order, aborted

testVars == <<queue_cur_num, queue_close, pool_close, queue_empty, queue_not_empty,
              queue_not_full, worker, main, toAdd, accepted, ran, m_free_list,
              m_cur_conn_cnt, m_pContext, m_free_notify, client, pConn, fault, deleted>>
benchVars == <<arguments, round, queue, flushed, s_count_push, s_count_pop, producer,
               consumer, taken, outcome>>
counterVars == <<test, counter, held, thread, printed>>
threadsVars == <<object, tid_, count_, holder_, owner, asleep, mainAt, runner, queue_,
                 sleepers, put, share, order, aborted>>

-----------------------------------------------------------------------------
(* Counting: what the members of S have done when each has counted to at most F. *)

Counted(S, F, b) == {q \in S \X (1..F) : q[2] <= b[q[1]]}

LEMMA CountedFinite ==
  ASSUME NEW S, IsFiniteSet(S), NEW F \in Nat, NEW b
  PROVE  /\ IsFiniteSet(Counted(S, F, b)) /\ Cardinality(Counted(S, F, b)) \in Nat
         /\ IsFiniteSet(S \X (1..F)) /\ Cardinality(S \X (1..F)) = Cardinality(S) * F
         /\ Cardinality(Counted(S, F, b)) <= Cardinality(S) * F
<1>1. IsFiniteSet(1..F) /\ Cardinality(1..F) = F
  BY FS_Interval
<1>2. IsFiniteSet(S \X (1..F)) /\ Cardinality(S \X (1..F)) = Cardinality(S) * F
  BY <1>1, FS_Product
<1>3. Counted(S, F, b) \in SUBSET (S \X (1..F))
  BY DEF Counted
<1>4. /\ IsFiniteSet(Counted(S, F, b))
      /\ Cardinality(Counted(S, F, b)) <= Cardinality(S \X (1..F))
  BY <1>2, <1>3, FS_Subset
<1> QED BY <1>2, <1>4, FS_CardinalityType

LEMMA CountedNone ==
  ASSUME NEW S, NEW F \in Nat, NEW b, \A t \in S : b[t] = 0
  PROVE  Cardinality(Counted(S, F, b)) = 0
<1>1. Counted(S, F, b) = {}
  BY DEF Counted
<1> QED BY <1>1, FS_EmptySet

LEMMA CountedAll ==
  ASSUME NEW S, IsFiniteSet(S), NEW F \in Nat, NEW b, \A t \in S : b[t] = F
  PROVE  Cardinality(Counted(S, F, b)) = Cardinality(S) * F
<1>1. Counted(S, F, b) = S \X (1..F)
  BY DEF Counted
<1> QED BY <1>1, CountedFinite

LEMMA CountedSame ==
  ASSUME NEW S, NEW F, NEW b, NEW d, \A t \in S : b[t] = d[t]
  PROVE  Counted(S, F, b) = Counted(S, F, d)
BY DEF Counted

LEMMA CountedOneMore ==
  ASSUME NEW S, IsFiniteSet(S), NEW F \in Nat, NEW b, NEW d, NEW t \in S,
         \A u \in S : b[u] \in Nat, d[t] = b[t] + 1, b[t] < F,
         \A u \in S : u # t => d[u] = b[u]
  PROVE  Cardinality(Counted(S, F, d)) = Cardinality(Counted(S, F, b)) + 1
<1>1. b[t] \in Nat /\ b[t] + 1 \in 1..F
  OBVIOUS
<1>2. <<t, b[t] + 1>> \notin Counted(S, F, b)
  BY <1>1 DEF Counted
<1>3. Counted(S, F, d) = Counted(S, F, b) \cup {<<t, b[t] + 1>>}
  <2>1. ASSUME NEW q \in S \X (1..F)
        PROVE  q[2] <= d[q[1]] <=> q[2] <= b[q[1]] \/ q = <<t, b[t] + 1>>
    <3>1. q[1] \in S /\ q[2] \in 1..F /\ q = <<q[1], q[2]>>
      OBVIOUS
    <3>2. CASE q[1] = t
      <4>1. d[q[1]] = b[t] + 1
        BY <3>2
      <4>2. q[2] <= b[t] + 1 <=> q[2] <= b[t] \/ q[2] = b[t] + 1
        BY <1>1, <3>1
      <4>3. q = <<t, b[t] + 1>> <=> q[2] = b[t] + 1
        BY <3>1, <3>2
      <4> QED BY <3>2, <4>1, <4>2, <4>3
    <3>3. CASE q[1] # t
      <4>1. q # <<t, b[t] + 1>>
        BY <3>3
      <4> QED BY <3>1, <3>3, <4>1
    <3> QED BY <3>2, <3>3
  <2>2. <<t, b[t] + 1>> \in S \X (1..F)
    BY <1>1
  <2> QED BY <2>1, <2>2 DEF Counted
<1>4. IsFiniteSet(Counted(S, F, b)) /\ Cardinality(Counted(S, F, b)) \in Nat
  BY CountedFinite
<1> PICK before : before = Counted(S, F, b)
  OBVIOUS
<1>5. <<t, b[t] + 1>> \notin before /\ IsFiniteSet(before)
  BY <1>2, <1>4
<1>6. Cardinality(before \cup {<<t, b[t] + 1>>}) = Cardinality(before) + 1
  BY ONLY <1>5, FS_AddElement
<1> QED BY ONLY <1>3, <1>6, before = Counted(S, F, b)

-----------------------------------------------------------------------------
(* The counters.                                                             *)

Bench == INSTANCE QueueBenchmark WITH Threads <- Incrementers

\* The increments that thread t has made in the running test.
Made == [t \in Incrementers |->
           thread[t].i + (IF thread[t].at \in {"unlock", "reload"} THEN 1 ELSE 0)]

Inside(t) == thread[t].at \in {"load", "store", "unlock"}

\* Where a thread can be under each lock.
Places == [mutex |-> {"loop", "unlock"}, atomic |-> {"loop", "reload"},
           spin |-> {"loop", "load", "store", "unlock"},
           atomic_flag |-> {"loop", "load", "store", "unlock"}]

CounterTypes ==
  /\ test \in 1..5 /\ counter \in Nat /\ held \in BOOLEAN
  /\ thread \in [Incrementers -> [at : {"loop", "load", "store", "unlock", "reload"},
                                  i : 0..FOR_LOOP_COUNT, value : Nat]]
  /\ printed \in Seq(Nat) /\ Len(printed) = test - 1

\* Only one thread is between lock and unlock, and what it has loaded is the counter.
LockHeld ==
  /\ held <=> \E t \in Incrementers : Inside(t)
  /\ \A t, u \in Incrementers : Inside(t) /\ Inside(u) => t = u
  /\ \A t \in Incrementers : /\ thread[t].at # "loop" => thread[t].i < FOR_LOOP_COUNT
                             /\ thread[t].at = "store" => thread[t].value = counter
                             /\ test = 5 => thread[t].at = "loop"
                             /\ test < 5 => thread[t].at \in Places[Bench!Locks[test]]

\* The counter is the number of increments made; those of the mutex test are none.
CounterExact ==
  test < 5 => counter = IF Bench!Locks[test] = "mutex" THEN 0
                        ELSE Cardinality(Counted(Incrementers, FOR_LOOP_COUNT, Made))

CounterInv == CounterTypes /\ LockHeld /\ CounterExact /\ Bench!CountsExact

\* The cardinality of the modules that are instantiated is the same operator.
LEMMA SameCardinality == \A S : Bench!Cardinality(S) = Cardinality(S)
BY DEF Bench!Cardinality, Cardinality

LEMMA LockNames ==
  /\ Bench!Locks = <<"mutex", "atomic", "spin", "atomic_flag">>
  /\ DOMAIN Bench!Locks = 1..4
  /\ test \in 1..5 => (Bench!Running <=> test < 5)
<1>1. DOMAIN Bench!Locks = 1..4
  BY DEF Bench!Locks
<1> QED BY <1>1 DEF Bench!Locks, Bench!Running

\* A thread's record after its assignments.
LEMMA RecordUpdates ==
  ASSUME NEW S, NEW U, NEW V, NEW r \in [at : S, i : U, value : V], NEW x, NEW y
  PROVE  /\ [r EXCEPT !.at = x] = [at |-> x, i |-> r.i, value |-> r.value]
         /\ [[r EXCEPT !.at = x] EXCEPT !.value = y] = [at |-> x, i |-> r.i, value |-> y]
         /\ [[r EXCEPT !.at = x] EXCEPT !.i = @ + 1]
               = [at |-> x, i |-> r.i + 1, value |-> r.value]
         /\ [[[r EXCEPT !.at = x] EXCEPT !.i = @ + 1] EXCEPT !.value = y]
               = [at |-> x, i |-> r.i + 1, value |-> y]
<1> PICK a \in S, i \in U, v \in V : r = [at |-> a, i |-> i, value |-> v]
  OBVIOUS
<1>1. [r EXCEPT !.at = x] = [at |-> x, i |-> i, value |-> v]
  OBVIOUS
<1>2. [[at |-> x, i |-> i, value |-> v] EXCEPT !.value = y] = [at |-> x, i |-> i, value |-> y]
  OBVIOUS
<1>3. [[at |-> x, i |-> i, value |-> v] EXCEPT !.i = @ + 1]
        = [at |-> x, i |-> i + 1, value |-> v]
  OBVIOUS
<1>4. [[at |-> x, i |-> i + 1, value |-> v] EXCEPT !.value = y]
        = [at |-> x, i |-> i + 1, value |-> y]
  OBVIOUS
<1> QED BY <1>1, <1>2, <1>3, <1>4

LEMMA CounterInitInv == Bench!CounterInit => CounterInv
<1> SUFFICES ASSUME Bench!CounterInit PROVE CounterInv
  OBVIOUS
<1>1. /\ test = 1 /\ counter = 0 /\ held = FALSE /\ printed = <<>>
      /\ thread = [t \in Incrementers |-> [at |-> "loop", i |-> 0, value |-> 0]]
  BY DEF Bench!CounterInit, Bench!Fresh
<1>2. CounterTypes
  <2>1. 0 \in 0..FOR_LOOP_COUNT
    BY BenchAssumption
  <2>2. thread \in [Incrementers -> [at : {"loop", "load", "store", "unlock", "reload"},
                                    i : 0..FOR_LOOP_COUNT, value : Nat]]
    BY <1>1, <2>1
  <2>3. printed \in Seq(Nat) /\ Len(printed) = test - 1
    BY <1>1
  <2>4. test \in 1..5 /\ counter \in Nat
    BY <1>1
  <2>5. held \in BOOLEAN
    BY <1>1
  <2> QED BY ONLY <2>2, <2>3, <2>4, <2>5 DEF CounterTypes
<1>3. LockHeld
  BY <1>1, LockNames DEF LockHeld, Inside, Places
<1>4. CounterExact
  BY <1>1, LockNames DEF CounterExact
<1>5. Bench!CountsExact
  BY <1>1 DEF Bench!CountsExact
<1> QED BY <1>2, <1>3, <1>4, <1>5 DEF CounterInv

LEMMA CounterStep == CounterInv /\ Bench!CounterNext => CounterInv'
<1> SUFFICES ASSUME CounterInv, Bench!CounterNext PROVE CounterInv'
  OBVIOUS
<1> USE DEF CounterInv
<1> DEFINE T == Incrementers
           F == FOR_LOOP_COUNT
<1>a. F \in Nat /\ IsFiniteSet(T) /\ Cardinality(T) \in Nat
  BY BenchAssumption, FS_CardinalityType
<1>b. CounterTypes /\ LockHeld /\ CounterExact /\ Bench!CountsExact
  OBVIOUS
<1>1. CASE Bench!Join
  <2>1. /\ test < 5 /\ test \in 1..4
        /\ \A t \in T : thread[t].at = "loop" /\ thread[t].i = F
        /\ printed' = Append(printed, counter) /\ test' = test + 1 /\ counter' = 0
        /\ thread' = [t \in T |-> [at |-> "loop", i |-> 0, value |-> 0]]
        /\ held' = held
    BY <1>1, LockNames DEF Bench!Join, CounterTypes, Bench!Fresh
  <2>2. CounterTypes'
    BY <1>a, <1>b, <2>1, AppendProperties DEF CounterTypes
  <2>3. held = FALSE
    BY <1>b, <2>1 DEF LockHeld, Inside, CounterTypes
  <2>4. LockHeld'
    <3>1. test' \in 2..5
      BY <2>1
    <3> QED BY <2>1, <2>3, <3>1, LockNames DEF LockHeld, Inside, Places
  <2>5. CounterExact'
    <3>1. \A t \in T : Made'[t] = 0
      BY <2>1 DEF Made
    <3>2. Cardinality(Counted(T, F, Made')) = 0
      BY <1>a, <3>1, CountedNone
    <3> QED BY <2>1, <3>2 DEF CounterExact
  <2>6. counter = IF Bench!Locks[test] = "mutex" THEN 0 ELSE Cardinality(T) * F
    <3>1. \A t \in T : Made[t] = F
      BY <1>a, <2>1 DEF Made
    <3>2. Cardinality(Counted(T, F, Made)) = Cardinality(T) * F
      BY <1>a, <3>1, CountedAll
    <3> QED BY <1>b, <2>1, <3>2 DEF CounterExact
  <2>7. Bench!CountsExact'
    <3>1. /\ printed \in Seq(Nat) /\ counter \in Nat /\ Len(printed) = test - 1
          /\ DOMAIN printed = 1..(test - 1) /\ DOMAIN printed' = 1..test
      BY <1>b, <2>1, <2>2, LenProperties DEF CounterTypes
    <3>2. \A k \in 1..(test - 1) : printed'[k] = printed[k]
      BY <2>1, <3>1, AppendProperties
    <3>3. printed'[test] = counter
      <4>1. Append(printed, counter)[Len(printed) + 1] = counter
        BY <3>1, AppendProperties
      <4>2. Len(printed) + 1 = test
        BY <2>1, <3>1
      <4> QED BY <2>1, <4>1, <4>2
    <3>4. \A k \in 1..test : k \in 1..(test - 1) \/ k = test
      BY <2>1
    <3>5. \A k \in 1..(test - 1) :
            printed[k] = IF Bench!Locks[k] = "mutex" THEN 0 ELSE Cardinality(T) * F
      <4>1. \A k \in DOMAIN printed :
              printed[k] = IF Bench!Locks[k] = "mutex" THEN 0 ELSE Cardinality(T) * F
        BY ONLY <1>b, SameCardinality DEF Bench!CountsExact
      <4> QED BY ONLY <3>1, <4>1
    <3>6. \A k \in 1..test :
            printed'[k] = IF Bench!Locks[k] = "mutex" THEN 0 ELSE Cardinality(T) * F
      BY ONLY <2>6, <3>2, <3>3, <3>4, <3>5
    <3>7. \A k \in DOMAIN printed' :
            printed'[k] = IF Bench!Locks[k] = "mutex" THEN 0 ELSE Cardinality(T) * F
      BY ONLY <3>1, <3>6
    <3> QED BY ONLY <3>7, SameCardinality DEF Bench!CountsExact, Bench!Locks
  <2> QED BY <2>2, <2>4, <2>5, <2>7
<1>2. ASSUME NEW t \in T, Bench!Thread(t) PROVE CounterInv'
  <2> DEFINE lock == Bench!Locks[test]
  <2> PICK th : th = thread[t]
    OBVIOUS
  <2>1. /\ test \in 1..4 /\ lock \in {"mutex", "atomic", "spin", "atomic_flag"}
        /\ test' = test /\ printed' = printed /\ (Bench!Locks[test])' = lock
        /\ lock \in {"spin", "atomic_flag"} => Places[lock] = {"loop", "load", "store", "unlock"}
        /\ lock = "mutex" => Places[lock] = {"loop", "unlock"}
        /\ lock = "atomic" => Places[lock] = {"loop", "reload"}
    <3>1. test < 5 /\ test' = test /\ printed' = printed
      BY <1>2, <1>b, LockNames
         DEF Bench!Thread, Bench!Lock, Bench!Load, Bench!Store, Bench!Unlock, Bench!Xadd,
             Bench!Reload, Bench!At, Bench!Looping, CounterTypes
    <3>2. test \in 1..4
      BY <1>b, <3>1 DEF CounterTypes
    <3>3. (Bench!Locks[test])' = Bench!Locks[test]
      BY <3>1 DEF Bench!Locks
    <3>4. lock \in {"mutex", "atomic", "spin", "atomic_flag"}
      BY <3>2, LockNames
    <3> QED BY <3>1, <3>2, <3>3, <3>4 DEF Places
  <2>2. /\ th.at \in {"loop", "load", "store", "unlock", "reload"} /\ th.at \in Places[lock]
        /\ th.i \in 0..F /\ th.value \in Nat /\ th.at # "loop" => th.i < F
        /\ th \in [at : {"loop", "load", "store", "unlock", "reload"}, i : 0..F, value : Nat]
    BY <1>b, <2>1 DEF CounterTypes, LockHeld
  <2>3. Bench!CountsExact'
    BY <1>b, <2>1 DEF Bench!CountsExact, Bench!Locks
  <2> HIDE DEF lock
  \* What every step of a thread is, for the invariant.
  <2>4. ASSUME NEW place \in {"loop", "load", "store", "unlock", "reload"}, NEW i \in 0..F,
               NEW value \in Nat, counter' \in Nat, held' \in BOOLEAN,
               thread' = [thread EXCEPT ![t] = [at |-> place, i |-> i, value |-> value]],
               place # "loop" => i < F, place \in Places[lock],
               held' <=> place \in {"load", "store", "unlock"}
                         \/ \E u \in T \ {t} : Inside(u),
               place \in {"load", "store", "unlock"} =>
                 \A u \in T \ {t} : ~Inside(u),
               place = "store" => value = counter',
               counter' # counter => \A u \in T \ {t} : ~Inside(u)
        PROVE  CounterTypes' /\ LockHeld'
    <3>1. CounterTypes'
      BY <1>b, <2>1, <2>4 DEF CounterTypes
    <3>2. /\ thread'[t] = [at |-> place, i |-> i, value |-> value]
          /\ \A u \in T \ {t} : thread'[u] = thread[u]
      BY <1>b, <2>4 DEF CounterTypes
    <3>3. Inside(t)' <=> place \in {"load", "store", "unlock"}
      BY <3>2 DEF Inside
    <3>4. \A u \in T \ {t} : Inside(u)' <=> Inside(u)
      BY <3>2 DEF Inside
    <3>5. held' <=> \E u \in T : Inside(u)'
      BY <2>4, <3>3, <3>4
    <3>6. \A u, v \in T : Inside(u)' /\ Inside(v)' => u = v
      BY <1>b, <2>4, <3>3, <3>4 DEF LockHeld
    <3>7. ASSUME NEW u \in T
          PROVE  /\ thread'[u].at # "loop" => thread'[u].i < F
                 /\ thread'[u].at = "store" => thread'[u].value = counter'
                 /\ thread'[u].at \in Places[lock]
      <4>1. CASE u = t
        BY <2>4, <3>2, <4>1
      <4>2. CASE u # t
        <5>1. /\ thread[u].at # "loop" => thread[u].i < F
              /\ thread[u].at = "store" => thread[u].value = counter
              /\ thread[u].at \in Places[lock]
          BY <1>b, <2>1 DEF LockHeld, lock
        <5>2. thread[u].at = "store" => counter' = counter
          BY <2>4, <4>2 DEF Inside
        <5> QED BY <3>2, <4>2, <5>1, <5>2
      <4> QED BY <4>1, <4>2
    <3> QED BY <2>1, <3>1, <3>5, <3>6, <3>7 DEF LockHeld, lock
  \* The count of a step that increments, and of the others.
  <2>5. ASSUME thread' \in [T -> [at : {"loop", "load", "store", "unlock", "reload"},
                                  i : 0..F, value : Nat]],
               \A u \in T \ {t} : thread'[u] = thread[u],
               \/ /\ Made'[t] = Made[t] \/ lock = "mutex"
                  /\ counter' = counter
               \/ /\ Made'[t] = Made[t] + 1 /\ Made[t] < F
                  /\ counter' = counter + 1 /\ lock # "mutex"
        PROVE  CounterExact'
    <3>1. \A u \in T \ {t} : Made'[u] = Made[u]
      BY <2>5 DEF Made
    <3>2. \A u \in T : Made[u] \in Nat
      BY <1>b DEF Made, CounterTypes
    <3>m. CASE lock = "mutex" /\ counter' = counter
      BY <1>b, <2>1, <3>m DEF CounterExact, lock
    <3>3. CASE Made'[t] = Made[t] /\ counter' = counter
      <4>1. Counted(T, F, Made') = Counted(T, F, Made)
        BY <3>1, <3>3, CountedSame
      <4> QED BY <1>b, <2>1, <3>3, <4>1 DEF CounterExact, lock
    <3>4. CASE /\ Made'[t] = Made[t] + 1 /\ Made[t] < F
               /\ counter' = counter + 1 /\ lock # "mutex"
      <4>1. Cardinality(Counted(T, F, Made')) = Cardinality(Counted(T, F, Made)) + 1
        BY <1>a, <3>1, <3>2, <3>4, CountedOneMore
      <4> QED BY <1>b, <2>1, <3>4, <4>1 DEF CounterExact, lock
    <3> QED BY <2>5, <3>m, <3>3, <3>4
  <2>6. \A x : [thread EXCEPT ![t].at = x] =
                [thread EXCEPT ![t] = [at |-> x, i |-> th.i, value |-> th.value]]
    <3>1. \A x : [th EXCEPT !.at = x] = [at |-> x, i |-> th.i, value |-> th.value]
      BY ONLY <2>2, RecordUpdates
    <3>2. \A x : [thread EXCEPT ![t].at = x] = [thread EXCEPT ![t] = [th EXCEPT !.at = x]]
      BY Zenon
    <3> QED BY ONLY <3>1, <3>2
  <2>7. ASSUME Inside(t) PROVE held /\ \A u \in T \ {t} : ~Inside(u)
    BY <1>b, <2>7 DEF LockHeld
  <2>8. ASSUME ~Inside(t) PROVE held <=> \E u \in T \ {t} : Inside(u)
    BY <1>b, <2>8 DEF LockHeld
  <2>9. ASSUME NEW x, thread' = [thread EXCEPT ![t] = x]
        PROVE  thread'[t] = x /\ \A u \in T \ {t} : thread'[u] = thread[u]
    BY <1>b, <2>9 DEF CounterTypes
  <2>c. counter \in Nat /\ held \in BOOLEAN
    BY <1>b DEF CounterTypes
  <2>10. CASE Bench!Lock(t)
    <3> DEFINE place == IF lock = "mutex" THEN "unlock" ELSE "load"
    <3>1. /\ th.at = "loop" /\ th.i < F /\ lock # "atomic" /\ ~held
          /\ held' = TRUE /\ counter' = counter
          /\ thread' = [thread EXCEPT ![t] = [at |-> place, i |-> th.i, value |-> th.value]]
      BY <2>6, <2>10 DEF Bench!Lock, Bench!Looping, Bench!At, Bench!Goes, lock
    <3>2. ~Inside(t) /\ \A u \in T \ {t} : ~Inside(u)
      BY <1>b, <3>1 DEF LockHeld
    <3>3. place \in {"unlock", "load"} /\ place \in Places[lock]
      BY <2>1, <3>1
    <3> HIDE DEF place
    <3>4. CounterTypes' /\ LockHeld'
      <4>1. /\ place \in {"loop", "load", "store", "unlock", "reload"} /\ place # "store"
            /\ place \in {"load", "store", "unlock"} /\ th.i < F /\ counter' \in Nat
        BY <2>c, <3>1, <3>3
      <4>2. held' \in BOOLEAN /\ (held' <=> place \in {"load", "store", "unlock"}
                                         \/ \E u \in T \ {t} : Inside(u))
        BY ONLY <3>1, <4>1
      <4>3. th.i \in 0..F /\ th.value \in Nat
        BY <2>2
      <4> QED BY ONLY <2>4, <3>1, <3>2, <3>3, <4>1, <4>2, <4>3
    <3>5. CounterExact'
      <4>1. thread'[t] = [at |-> place, i |-> th.i, value |-> th.value]
        BY <2>9, <3>1
      <4>2. Made'[t] = Made[t] \/ lock = "mutex"
        BY <3>1, <4>1 DEF Made, place
      <4> QED BY <2>5, <2>9, <3>1, <3>4, <4>2 DEF CounterTypes
    <3> QED BY <2>3, <3>4, <3>5
  <2>11. CASE Bench!Load(t)
    <3>1. /\ th.at = "load" /\ held' = held /\ counter' = counter
          /\ thread' = [thread EXCEPT ![t].at = "store", ![t].value = counter]
      BY <2>11 DEF Bench!Load, Bench!At
    <3>2. thread' = [thread EXCEPT ![t] = [at |-> "store", i |-> th.i, value |-> counter]]
      <4>1. [[th EXCEPT !.at = "store"] EXCEPT !.value = counter]
              = [at |-> "store", i |-> th.i, value |-> counter]
        BY ONLY <2>2, RecordUpdates
      <4>2. thread' = [thread EXCEPT ![t] = [[th EXCEPT !.at = "store"] EXCEPT !.value = counter]]
        BY <1>b, <3>1 DEF CounterTypes
      <4> QED BY ONLY <4>1, <4>2
    <3>3. Inside(t)
      BY <3>1 DEF Inside
    <3>4. "store" \in Places[lock]
      BY <2>1, <2>2, <3>1
    <3>5. CounterTypes' /\ LockHeld'
      <4>1. held' \in BOOLEAN /\ counter' \in Nat /\ held'
        BY <2>7, <2>c, <3>1, <3>3
      <4>2. th.i \in 0..F /\ th.i < F
        BY <2>2, <3>1
      <4> QED BY ONLY <2>4, <2>7, <2>c, <3>1, <3>2, <3>3, <3>4, <4>1, <4>2
    <3>6. CounterExact'
      <4>1. thread'[t] = [at |-> "store", i |-> th.i, value |-> counter]
        BY <2>9, <3>2
      <4>2. Made'[t] = Made[t]
        BY <3>1, <4>1 DEF Made
      <4> QED BY <2>5, <2>9, <3>1, <3>2, <3>5, <4>2 DEF CounterTypes
    <3> QED BY <2>3, <3>5, <3>6
  <2>12. CASE Bench!Store(t)
    <3>1. /\ th.at = "store" /\ held' = held /\ counter' = th.value + 1
          /\ thread' = [thread EXCEPT ![t] = [at |-> "unlock", i |-> th.i, value |-> th.value]]
      BY <2>6, <2>12 DEF Bench!Store, Bench!At, Bench!Goes
    <3>2. th.value = counter /\ Inside(t)
      BY <1>b, <3>1 DEF LockHeld, Inside
    <3>3. "unlock" \in Places[lock] /\ lock # "mutex"
      BY <2>1, <2>2, <3>1
    <3>5. CounterTypes' /\ LockHeld'
      <4>1. held' \in BOOLEAN /\ counter' \in Nat /\ held'
        BY <2>7, <2>c, <3>1, <3>2
      <4>2. th.i \in 0..F /\ th.i < F /\ th.value \in Nat
        BY <2>2, <3>1
      <4> QED BY ONLY <2>4, <2>7, <2>c, <3>1, <3>2, <3>3, <4>1, <4>2
    <3>6. CounterExact'
      <4>1. thread'[t] = [at |-> "unlock", i |-> th.i, value |-> th.value]
        BY <2>9, <3>1
      <4>2. Made'[t] = Made[t] + 1 /\ Made[t] < F
        BY <1>a, <2>2, <3>1, <4>1 DEF Made
      <4> QED BY <2>5, <2>9, <3>1, <3>2, <3>3, <3>5, <4>2 DEF CounterTypes
    <3> QED BY <2>3, <3>5, <3>6
  <2>13. CASE Bench!Unlock(t) \/ Bench!Reload(t)
    <3> PICK value : value = IF th.at = "reload" THEN counter ELSE th.value
      OBVIOUS
    <3>1. /\ th.at \in {"unlock", "reload"} /\ counter' = counter
          /\ thread' = [thread EXCEPT ![t] = [at |-> "loop", i |-> th.i + 1, value |-> value]]
      <4>1. CASE Bench!Unlock(t)
        <5>1. th.at = "unlock" /\ counter' = counter
              /\ thread' = [thread EXCEPT ![t].at = "loop", ![t].i = @ + 1]
          BY <4>1 DEF Bench!Unlock, Bench!At
        <5>2. [[th EXCEPT !.at = "loop"] EXCEPT !.i = @ + 1]
                = [at |-> "loop", i |-> th.i + 1, value |-> th.value]
          BY ONLY <2>2, RecordUpdates
        <5>3. thread' = [thread EXCEPT ![t] = [[th EXCEPT !.at = "loop"] EXCEPT !.i = @ + 1]]
          BY <1>b, <5>1 DEF CounterTypes
        <5>4. value = th.value
          BY <5>1
        <5> QED BY ONLY <5>1, <5>2, <5>3, <5>4
      <4>2. CASE Bench!Reload(t)
        <5>1. th.at = "reload" /\ counter' = counter
              /\ thread' = [thread EXCEPT ![t].at = "loop", ![t].i = @ + 1, ![t].value = counter]
          BY <4>2 DEF Bench!Reload, Bench!At
        <5>2. [[[th EXCEPT !.at = "loop"] EXCEPT !.i = @ + 1] EXCEPT !.value = counter]
                = [at |-> "loop", i |-> th.i + 1, value |-> counter]
          BY ONLY <2>2, RecordUpdates
        <5>3. thread' = [thread EXCEPT ![t] =
                [[[th EXCEPT !.at = "loop"] EXCEPT !.i = @ + 1] EXCEPT !.value = counter]]
          BY <1>b, <5>1 DEF CounterTypes
        <5>4. value = counter
          BY <5>1
        <5> QED BY ONLY <5>1, <5>2, <5>3, <5>4
      <4> QED BY <2>13, <4>1, <4>2
    <3>2. held' = IF th.at = "unlock" THEN FALSE ELSE held
      BY <2>13 DEF Bench!Unlock, Bench!Reload, Bench!At
    <3>3. "loop" \in Places[lock] /\ value \in Nat /\ th.i + 1 \in 0..F
      BY <1>a, <2>1, <2>2, <2>c, <3>1
    <3>4. held' \in BOOLEAN /\ (held' <=> \E u \in T \ {t} : Inside(u))
      <4>1. CASE th.at = "unlock"
        <5>1. Inside(t)
          BY <4>1 DEF Inside
        <5> QED BY <2>7, <3>2, <4>1, <5>1
      <4>2. CASE th.at = "reload"
        <5>1. ~Inside(t)
          BY <4>2 DEF Inside
        <5> QED BY <2>8, <2>c, <3>2, <4>2, <5>1
      <4> QED BY <3>1, <4>1, <4>2
    <3>5. CounterTypes' /\ LockHeld'
      <4> PICK i : i = th.i + 1
        OBVIOUS
      <4>1. i \in 0..F /\ counter' \in Nat
        BY <2>c, <3>1, <3>3
      <4>2. thread' = [thread EXCEPT ![t] = [at |-> "loop", i |-> i, value |-> value]]
        BY <3>1
      <4> QED BY ONLY <2>4, <3>1, <3>3, <3>4, <4>1, <4>2
    <3>6. CounterExact'
      <4>1. thread'[t] = [at |-> "loop", i |-> th.i + 1, value |-> value]
        BY <2>9, <3>1
      <4>2. Made'[t] = Made[t]
        BY <2>2, <3>1, <4>1 DEF Made
      <4> QED BY <2>5, <2>9, <3>1, <3>5, <4>2 DEF CounterTypes
    <3> QED BY <2>3, <3>5, <3>6
  <2>14. CASE Bench!Xadd(t)
    <3>1. /\ th.at = "loop" /\ th.i < F /\ lock = "atomic"
          /\ held' = held /\ counter' = counter + 1
          /\ thread' = [thread EXCEPT ![t] = [at |-> "reload", i |-> th.i, value |-> th.value]]
      BY <2>6, <2>14 DEF Bench!Xadd, Bench!Looping, Bench!At, Bench!Goes, lock
    <3>2. ~Inside(t) /\ \A u \in T \ {t} : ~Inside(u)
      BY <1>b, <2>1, <3>1 DEF LockHeld, Inside, lock
    <3>3. "reload" \in Places[lock] /\ lock # "mutex"
      BY <2>1, <3>1
    <3>5. CounterTypes' /\ LockHeld'
      <4>1. held' \in BOOLEAN /\ counter' \in Nat
        BY <2>c, <3>1
      <4>2. th.i \in 0..F /\ th.i < F /\ th.value \in Nat
        BY <2>2, <3>1
      <4>3. held' <=> \E u \in T \ {t} : Inside(u)
        BY <2>8, <3>1, <3>2
      <4> QED BY ONLY <2>4, <3>1, <3>2, <3>3, <4>1, <4>2, <4>3
    <3>6. CounterExact'
      <4>1. thread'[t] = [at |-> "reload", i |-> th.i, value |-> th.value]
        BY <2>9, <3>1
      <4>2. Made'[t] = Made[t] + 1 /\ Made[t] < F
        BY <1>a, <2>2, <3>1, <4>1 DEF Made
      <4> QED BY <2>5, <2>9, <3>1, <3>3, <3>5, <4>2 DEF CounterTypes
    <3> QED BY <2>3, <3>5, <3>6
  <2> QED BY <1>2, <2>10, <2>11, <2>12, <2>13, <2>14 DEF Bench!Thread
<1> QED BY <1>1, <1>2 DEF Bench!CounterNext

\* The steps of the other programs.
LEMMA CounterFrame ==
  ASSUME CounterInv, UNCHANGED counterVars
  PROVE  CounterInv'
<1>1. /\ test' = test /\ counter' = counter /\ held' = held /\ thread' = thread
      /\ printed' = printed
  BY DEF counterVars
<1>2. Bench!Locks' = Bench!Locks
  BY DEF Bench!Locks
<1>3. CounterTypes'
  BY <1>1 DEF CounterInv, CounterTypes
<1>4. LockHeld'
  BY <1>1, <1>2 DEF CounterInv, LockHeld, Inside, Places
<1>5. CounterExact'
  <2>1. Made' = Made
    BY <1>1 DEF Made
  <2> QED BY <1>1, <1>2, <2>1 DEF CounterInv, CounterExact, Counted
<1>6. Bench!CountsExact'
  BY <1>1, <1>2 DEF CounterInv, Bench!CountsExact
<1> QED BY <1>3, <1>4, <1>5, <1>6 DEF CounterInv

-----------------------------------------------------------------------------
(* The queue benchmark.                                                      *)

\* The tests whose producers number an item before they push it.
NumberFirst == {"block", "lockfree"}
ProducerPlaces == {"add", "read", "enqueue", "flush", "done"}

\* Where a producer can be in test k, when it pushes n items, and how many of them it
\* has added to s_count_push.
PlaceOk(k, n, r) ==
  /\ r.i <= n
  /\ k = "mutex" => r.at \in {"enqueue", "done"}
  /\ k \in NumberFirst => r.at \in {"add", "read", "enqueue", "done"}
  /\ k = "array" => r.at # "flush"
  /\ r.at = "enqueue" \/ (r.at \in {"add", "read"} /\ k \in NumberFirst) => r.i < n
  /\ r.at = "add" /\ k \notin NumberFirst => r.i >= 1
  /\ r.at = "done" => r.i = n
Added(k, r) == IF k \in NumberFirst THEN r.i + (IF r.at \in {"read", "enqueue"} THEN 1 ELSE 0)
               ELSE r.i - (IF r.at = "add" THEN 1 ELSE 0)

PushedBy == [w \in 1..arguments[1] |-> producer[w].i]
AddedBy == [w \in 1..arguments[1] |-> Added(Bench!kind, producer[w])]
Adding == {x \in 1..arguments[2] : consumer[x] = "add"}

BenchTypes ==
  /\ arguments \in Arguments /\ round \in 1..6
  /\ queue \in Seq(Nat) /\ taken \in Seq(Nat) /\ flushed \in 0..Len(queue)
  /\ s_count_push \in Nat /\ s_count_pop \in Nat
  /\ producer \in [1..arguments[1] -> [at : ProducerPlaces, i : Nat, count : Nat]]
  /\ consumer \in [1..arguments[2] -> {"dequeue", "add", "check", "done"}]

ProducersStand ==
  \A w \in 1..arguments[1] : PlaceOk(Bench!kind, Bench!Items(Bench!kind), producer[w])

\* What is pushed, added and popped, and that a consumer leaves when all is taken.
PushesCounted ==
  Len(taken) + Len(queue) = Cardinality(Counted(1..arguments[1], arguments[3], PushedBy))
AddsCounted ==
  s_count_push = Cardinality(Counted(1..arguments[1], arguments[3], AddedBy))
PopsCounted == Len(taken) = s_count_pop + Cardinality(Adding)
LeftAfterLast ==
  (\E x \in 1..arguments[2] : consumer[x] = "done") => Len(taken) = Bench!AllItems

\* The items are the numbers from base on.
Base == IF Bench!kind \in NumberFirst THEN 1 ELSE 0
Numbered(base) ==
  /\ \A j \in 1..Len(taken) : taken[j] = base + j - 1
  /\ \A j \in 1..Len(queue) : queue[j] = base + Len(taken) + j - 1
InOrder == Bench!kind = "mutex" \/ arguments[1] = 1 => Numbered(Base)

\* What the count of a producer that is alone is.
CountOk(k, r) ==
  /\ k \in NumberFirst /\ r.at = "enqueue" => r.count = r.i + 1
  /\ k \notin NumberFirst /\ k # "mutex" /\ r.at \in {"enqueue", "flush"} => r.count = r.i
Alone ==
  arguments[1] = 1 =>
    /\ Len(taken) + Len(queue) = producer[1].i
    /\ s_count_push = Added(Bench!kind, producer[1])
    /\ CountOk(Bench!kind, producer[1])

BenchInv == /\ BenchTypes /\ ProducersStand /\ PushesCounted /\ AddsCounted /\ PopsCounted
            /\ LeftAfterLast /\ InOrder /\ Alone

-----------------------------------------------------------------------------
LEMMA ArgumentTypes ==
  ASSUME arguments \in Arguments
  PROVE  /\ arguments[1] \in Nat /\ arguments[2] \in Nat \ {0} /\ arguments[3] \in Nat
         /\ Bench!AllItems = arguments[1] * arguments[3] /\ Bench!AllItems \in Nat
<1>1. arguments \in Nat \X (Nat \ {0}) \X Nat
  BY BenchAssumption
<1>2. arguments[1] \in Nat /\ arguments[2] \in Nat \ {0} /\ arguments[3] \in Nat
  BY <1>1
<1> PICK a \in Nat : a = arguments[1]
  BY <1>2
<1> PICK b \in Nat : b = arguments[3]
  BY <1>2
<1>3. Bench!AllItems = b * a
  BY DEF Bench!AllItems, Bench!s_queue_item_num, Bench!s_producer_thread_num
<1> QED BY <1>2, <1>3

LEMMA TestNames ==
  ASSUME NEW j \in 1..6
  PROVE  /\ Bench!Tests[j] \in {"mutex", "block", "lockfree", "array", "ypipe", "batch"}
         /\ j < 6 <=> Bench!Tests[j] # "batch"
         /\ j < 5 <=> Bench!Tests[j] \notin {"ypipe", "batch"}
<1>1. j = 1 \/ j = 2 \/ j = 3 \/ j = 4 \/ j = 5 \/ j = 6
  OBVIOUS
<1> QED BY <1>1 DEF Bench!Tests

\* Dividing with remainder; a batch producer writes a multiple of the batch.
LEMMA Remainder ==
  ASSUME NEW a \in Nat, NEW q \in Nat \ {0}
  PROVE  /\ a % q \in 0 .. (q - 1)
         /\ a \div q \in Int
         /\ a = q * (a \div q) + (a % q)
OBVIOUS

LEMMA WholeBatches ==
  ASSUME NEW a \in Nat, NEW q \in Nat \ {0}
  PROVE  a - (a % q) \in 0..a /\ (a - (a % q)) % q = 0
<1> DEFINE n == a \div q
           m == a - (a % q)
<1>1. a % q \in 0..(q - 1) /\ n \in Int /\ a = q * n + (a % q)
  BY Remainder
<1> PICK r : r = a % q
  OBVIOUS
<1>2. m = q * n /\ r \in 0..(q - 1) /\ m = a - r
  BY <1>1
<1> HIDE DEF n, m
<1>3. n >= 0
  <2> SUFFICES ASSUME n <= -1 PROVE FALSE
    BY <1>1
  <2>1. q * n <= -q
    BY <1>1
  <2> QED BY <1>1, <1>2, <2>1
<1>4. m \in 0..a
  <2>1. q * n >= 0
    BY <1>1, <1>3
  <2> QED BY <1>2, <2>1
<1>5. m % q = 0
  <2> PICK l \in Int, s \in 0..(q - 1) : m = q * l + s /\ s = m % q
    <3>1. m \in Nat
      BY <1>4
    <3> QED BY <3>1, Remainder
  <2>1. q * (n - l) = s
    BY <1>1, <1>2
  <2>2. CASE n - l >= 1
    <3>1. q * (n - l) >= q
      BY <1>1, <2>2
    <3> QED BY <2>1, <3>1
  <2>3. CASE n - l <= -1
    <3>1. q * (n - l) <= -q
      BY <1>1, <2>3
    <3> QED BY <2>1, <3>1
  <2>4. CASE n = l
    BY <1>1, <2>1, <2>4
  <2> QED BY <1>1, <2>2, <2>3, <2>4
<1> QED BY <1>4, <1>5 DEF m

LEMMA ItemsBound ==
  ASSUME arguments \in Arguments, NEW k
  PROVE  /\ Bench!Items(k) \in 0..arguments[3]
         /\ k = "batch" => Bench!Items(k) % Batch = 0
<1>1. arguments[3] \in Nat /\ Batch \in Nat \ {0}
  BY ArgumentTypes, BenchAssumption
<1> PICK a \in Nat : a = arguments[3]
  BY <1>1
<1>2. a - (a % Batch) \in 0..a /\ (a - (a % Batch)) % Batch = 0
  BY <1>1, WholeBatches
<1>3. Bench!Items(k) = IF k = "batch" THEN a - (a % Batch) ELSE a
  BY DEF Bench!Items, Bench!s_queue_item_num
<1> QED BY <1>2, <1>3

-----------------------------------------------------------------------------
\* The start of a test.
LEMMA FreshTest ==
  ASSUME arguments \in Arguments, NEW k, NEW fresh, fresh = Bench!NewProducers(k)
  PROVE  /\ fresh \in [1..arguments[1] -> [at : ProducerPlaces, i : Nat, count : Nat]]
         /\ \A w \in 1..arguments[1] :
              /\ PlaceOk(k, Bench!Items(k), fresh[w])
              /\ fresh[w].i = 0 /\ Added(k, fresh[w]) = 0 /\ CountOk(k, fresh[w])
<1> PICK n : n = Bench!Items(k)
  OBVIOUS
<1> PICK start : start = Bench!Loop(k, 0)
  OBVIOUS
<1>1. n \in Nat
  BY ArgumentTypes, ItemsBound
<1>2. /\ start \in {"done", "add", "enqueue"}
      /\ start = "done" => n = 0
      /\ start # "done" => n > 0
      /\ start = "add" <=> n # 0 /\ k \in NumberFirst
  BY <1>1 DEF Bench!Loop, NumberFirst
<1>3. fresh = [w \in 1..arguments[1] |-> [at |-> start, i |-> 0, count |-> 0]]
  BY DEF Bench!NewProducers, Bench!s_producer_thread_num
<1>4. fresh \in [1..arguments[1] -> [at : ProducerPlaces, i : Nat, count : Nat]]
  BY <1>2, <1>3 DEF ProducerPlaces
<1>5. ASSUME NEW w \in 1..arguments[1]
      PROVE  /\ PlaceOk(k, Bench!Items(k), fresh[w])
             /\ fresh[w].i = 0 /\ Added(k, fresh[w]) = 0 /\ CountOk(k, fresh[w])
  <2> PICK r : r = fresh[w]
    OBVIOUS
  <2>1. r.at = start /\ r.i = 0 /\ r.count = 0
    BY <1>3
  <2>2. PlaceOk(k, n, r)
    BY <1>1, <1>2, <2>1 DEF PlaceOk, NumberFirst
  <2>3. Added(k, r) = 0
    <3>1. CASE k \in NumberFirst
      <4>1. r.at \notin {"read", "enqueue"}
        BY <1>1, <1>2, <2>1, <3>1
      <4> QED BY <2>1, <3>1, <4>1 DEF Added
    <3>2. CASE k \notin NumberFirst
      <4>1. r.at # "add"
        BY <1>2, <2>1, <3>2
      <4>2. Added(k, r) = r.i - 0
        BY <3>2, <4>1 DEF Added
      <4> QED BY <2>1, <4>2
    <3> QED BY <3>1, <3>2
  <2>4. CountOk(k, r)
    BY <1>2, <2>1 DEF CountOk, NumberFirst
  <2> QED BY <2>1, <2>2, <2>3, <2>4
<1> QED BY <1>4, <1>5

FreshState ==
  /\ arguments \in Arguments /\ round \in 1..6 /\ queue = <<>> /\ flushed = 0
  /\ s_count_push = 0 /\ s_count_pop = 0 /\ taken = <<>>
  /\ producer = Bench!NewProducers(Bench!kind) /\ consumer = Bench!NewConsumers

LEMMA FreshInv == FreshState => BenchInv
<1> SUFFICES ASSUME FreshState PROVE BenchInv
  OBVIOUS
<1> PICK k : k = Bench!kind
  OBVIOUS
<1>1. /\ arguments \in Arguments /\ round \in 1..6 /\ queue = <<>> /\ flushed = 0
      /\ s_count_push = 0 /\ s_count_pop = 0 /\ taken = <<>>
      /\ producer = Bench!NewProducers(k)
      /\ consumer = [x \in 1..arguments[2] |-> "dequeue"]
  BY DEF FreshState, Bench!NewConsumers, Bench!s_consumer_thread_num
<1>2. /\ producer \in [1..arguments[1] -> [at : ProducerPlaces, i : Nat, count : Nat]]
      /\ \A w \in 1..arguments[1] :
           /\ PlaceOk(k, Bench!Items(k), producer[w])
           /\ producer[w].i = 0 /\ Added(k, producer[w]) = 0 /\ CountOk(k, producer[w])
  BY <1>1, FreshTest
<1>3. /\ arguments[1] \in Nat /\ arguments[2] \in Nat \ {0} /\ arguments[3] \in Nat
  BY <1>1, ArgumentTypes
<1>4. BenchTypes
  <2>1. queue \in Seq(Nat) /\ taken \in Seq(Nat) /\ flushed \in 0..Len(queue)
    BY <1>1
  <2>2. consumer \in [1..arguments[2] -> {"dequeue", "add", "check", "done"}]
    BY <1>1
  <2>3. round \in 1..6 /\ s_count_push \in Nat /\ s_count_pop \in Nat
    BY <1>1
  <2> QED BY <1>1, <1>2, <2>1, <2>2, <2>3 DEF BenchTypes
<1>5. Len(taken) = 0 /\ Len(queue) = 0
  BY <1>1
<1>6. PushesCounted /\ AddsCounted
  <2>1. /\ \A w \in 1..arguments[1] : PushedBy[w] = 0
        /\ \A w \in 1..arguments[1] : AddedBy[w] = 0
    BY <1>2 DEF PushedBy, AddedBy
  <2> QED BY <1>1, <1>3, <1>5, <2>1, CountedNone DEF PushesCounted, AddsCounted
<1>7. PopsCounted
  <2>1. Adding = {}
    BY <1>1 DEF Adding
  <2> QED BY <1>1, <1>5, <2>1, FS_EmptySet DEF PopsCounted
<1>8. LeftAfterLast
  BY <1>1 DEF LeftAfterLast
<1>9. InOrder
  BY <1>5 DEF InOrder, Numbered
<1>10. Alone
  BY <1>1, <1>2, <1>5 DEF Alone
<1>11. ProducersStand
  BY <1>2 DEF ProducersStand
<1> QED BY <1>4, <1>6, <1>7, <1>8, <1>9, <1>10, <1>11 DEF BenchInv

-----------------------------------------------------------------------------
\* A step of a producer: where it goes, and what it pushes and adds.
LEMMA ProducerMoves ==
  ASSUME BenchInv, NEW w \in 1..arguments[1],
         NEW place \in ProducerPlaces, NEW i \in Nat, NEW count \in Nat,
         NEW r, r = [at |-> place, i |-> i, count |-> count],
         NEW k, k = Bench!kind,
         producer' = [producer EXCEPT ![w] = r],
         PlaceOk(k, Bench!Items(k), r),
         \/ i = producer[w].i /\ queue' = queue
         \/ i = producer[w].i + 1 /\ \E v \in Nat :
              /\ queue' = Append(queue, v)
              /\ k = "mutex" \/ arguments[1] = 1 => v = Base + Len(taken) + Len(queue),
         \/ Added(k, r) = Added(k, producer[w]) /\ s_count_push' = s_count_push
         \/ Added(k, r) = Added(k, producer[w]) + 1 /\ s_count_push' = s_count_push + 1,
         arguments[1] = 1 => CountOk(k, r),
         flushed' \in 0..Len(queue'),
         UNCHANGED <<arguments, round, s_count_pop, consumer, taken>>
  PROVE  BenchInv'
<1> PICK W : W = 1..arguments[1]
  OBVIOUS
<1> PICK F : F = arguments[3]
  OBVIOUS
<1>a. /\ BenchTypes /\ ProducersStand /\ PushesCounted /\ AddsCounted /\ PopsCounted
      /\ LeftAfterLast /\ InOrder /\ Alone
  BY DEF BenchInv
<1>b. /\ arguments[1] \in Nat /\ F \in Nat /\ arguments' = arguments /\ W = 1..arguments[1]
      /\ round' = round /\ Bench!kind' = k /\ (Bench!Items(k))' = Bench!Items(k)
      /\ taken' = taken /\ consumer' = consumer /\ s_count_pop' = s_count_pop
      /\ Bench!AllItems' = Bench!AllItems
  BY <1>a, ArgumentTypes
     DEF BenchTypes, Bench!kind, Bench!Items, Bench!AllItems, Bench!s_queue_item_num,
         Bench!s_producer_thread_num, Bench!Tests
<1>n. IsFiniteSet(W)
  <2> PICK a \in Nat : a = arguments[1]
    BY <1>b
  <2>1. 1 \in Int /\ a \in Int
    OBVIOUS
  <2>2. IsFiniteSet(1..a)
    BY ONLY <2>1, FS_Interval
  <2> QED BY <2>2
<1>c. /\ queue \in Seq(Nat) /\ Len(queue) \in Nat /\ taken \in Seq(Nat) /\ Len(taken) \in Nat
      /\ s_count_push \in Nat /\ Base \in Nat
      /\ producer \in [W -> [at : ProducerPlaces, i : Nat, count : Nat]]
  BY <1>a DEF BenchTypes, Base
<1>d. /\ producer'[w] = r /\ \A x \in W : x # w => producer'[x] = producer[x]
      /\ r.at = place /\ r.i = i /\ r.count = count
      /\ r \in [at : ProducerPlaces, i : Nat, count : Nat]
      /\ producer' \in [W -> [at : ProducerPlaces, i : Nat, count : Nat]]
  BY <1>c
<1>q. \/ queue' = queue /\ Len(queue') = Len(queue) /\ i = producer[w].i
      \/ /\ i = producer[w].i + 1 /\ queue' \in Seq(Nat) /\ Len(queue') = Len(queue) + 1
         /\ \A j \in 1..Len(queue) : queue'[j] = queue[j]
         /\ k = "mutex" \/ arguments[1] = 1 =>
              queue'[Len(queue) + 1] = Base + Len(taken) + Len(queue)
  <2>1. CASE i = producer[w].i /\ queue' = queue
    BY <2>1
  <2>2. ASSUME i = producer[w].i + 1, NEW v \in Nat, queue' = Append(queue, v),
               k = "mutex" \/ arguments[1] = 1 => v = Base + Len(taken) + Len(queue)
        PROVE  /\ queue' \in Seq(Nat) /\ Len(queue') = Len(queue) + 1
               /\ \A j \in 1..Len(queue) : queue'[j] = queue[j]
               /\ k = "mutex" \/ arguments[1] = 1 =>
                    queue'[Len(queue) + 1] = Base + Len(taken) + Len(queue)
    BY <1>c, <2>2, AppendProperties
  <2> QED BY <2>1, <2>2
<1>1. BenchTypes'
  <2>1. queue' \in Seq(Nat) /\ s_count_push' \in Nat
    BY <1>c, <1>q
  <2>2. BenchTypes
    BY <1>a
  <2> QED BY <1>b, <1>d, <2>1, <2>2 DEF BenchTypes
<1>f. \A x \in W : PlaceOk(k, Bench!Items(k), producer[x])
  BY <1>a DEF ProducersStand
<1>2. ProducersStand'
  <2>1. \A x \in W : PlaceOk(k, Bench!Items(k), producer'[x])
    BY <1>d, <1>f
  <2>2. Bench!Items(Bench!kind)' = Bench!Items(k)
    BY <1>b DEF Bench!Items, Bench!s_queue_item_num
  <2> QED BY <1>b, <2>1, <2>2 DEF ProducersStand
<1>3. PushesCounted'
  <2>1. /\ \A x \in W : PushedBy[x] = producer[x].i /\ PushedBy'[x] = producer'[x].i
        /\ \A x \in W : PushedBy[x] \in Nat
    BY <1>b, <1>c DEF PushedBy
  <2>2. \A x \in W : x # w => PushedBy'[x] = PushedBy[x]
    BY <1>d, <2>1
  <2>3. CASE queue' = queue /\ i = producer[w].i
    <3>1. Counted(W, F, PushedBy') = Counted(W, F, PushedBy)
      <4>1. \A x \in W : PushedBy'[x] = PushedBy[x]
        BY <1>d, <2>1, <2>2, <2>3
      <4> QED BY <4>1 DEF Counted
    <3> QED BY <1>a, <1>b, <2>3, <3>1 DEF PushesCounted
  <2>4. CASE i = producer[w].i + 1 /\ Len(queue') = Len(queue) + 1
    <3>1. PushedBy[w] < F
      <4>1. Bench!Items(k) <= F /\ Bench!Items(k) \in Nat /\ i <= Bench!Items(k)
        BY <1>a, <1>b, <1>d, ItemsBound DEF BenchTypes, PlaceOk
      <4>2. PushedBy[w] = producer[w].i /\ PushedBy[w] \in Nat /\ w \in W
        BY <1>b, <2>1
      <4>3. i = PushedBy[w] + 1
        BY <2>4, <4>2
      <4>4. F \in Nat
        BY <1>b
      <4> QED BY ONLY <4>1, <4>2, <4>3, <4>4
    <3>2. Cardinality(Counted(W, F, PushedBy')) = Cardinality(Counted(W, F, PushedBy)) + 1
      <4>1. IsFiniteSet(W) /\ w \in W /\ F \in Nat
        BY <1>b, <1>n
      <4>2. PushedBy'[w] = PushedBy[w] + 1
        BY <1>d, <2>1, <2>4
      <4> PICK b : b = PushedBy
        OBVIOUS
      <4> PICK d : d = PushedBy'
        OBVIOUS
      <4>3. /\ \A x \in W : b[x] \in Nat
            /\ d[w] = b[w] + 1 /\ b[w] < F
            /\ \A x \in W : x # w => d[x] = b[x]
        BY <2>1, <2>2, <3>1, <4>2
      <4>4. Cardinality(Counted(W, F, d)) = Cardinality(Counted(W, F, b)) + 1
        BY ONLY <4>1, <4>3, CountedOneMore
      <4> QED BY <4>4
    <3> QED BY <1>a, <1>b, <1>c, <2>4, <3>2 DEF PushesCounted
  <2> QED BY <1>q, <2>3, <2>4
<1>4. AddsCounted'
  <2>1. /\ \A x \in W : /\ AddedBy[x] = Added(k, producer[x])
                        /\ AddedBy'[x] = Added(k, producer'[x])
    BY <1>b DEF AddedBy, Added
  <2>2. \A x \in W : x # w => AddedBy'[x] = AddedBy[x]
    BY <1>d, <2>1
  <2>3. CASE Added(k, r) = Added(k, producer[w]) /\ s_count_push' = s_count_push
    <3>1. Counted(W, F, AddedBy') = Counted(W, F, AddedBy)
      <4>1. \A x \in W : AddedBy'[x] = AddedBy[x]
        BY <1>d, <2>1, <2>2, <2>3
      <4> QED BY <4>1 DEF Counted
    <3> QED BY <1>a, <1>b, <2>3, <3>1 DEF AddsCounted
  <2>4. CASE Added(k, r) = Added(k, producer[w]) + 1 /\ s_count_push' = s_count_push + 1
    <3>n. \A x \in W : AddedBy[x] \in Nat
      <4> SUFFICES ASSUME NEW x \in W PROVE Added(k, producer[x]) \in Nat
        BY <2>1
      <4>1. PlaceOk(k, Bench!Items(k), producer[x]) /\ producer[x].i \in Nat
        BY <1>c, <1>f
      <4> QED BY <4>1 DEF PlaceOk, Added
    <3>1. AddedBy[w] < F
      <4>1. Bench!Items(k) <= F /\ Bench!Items(k) \in Nat
        BY <1>a, <1>b, ItemsBound DEF BenchTypes
      <4>2. Added(k, r) <= Bench!Items(k)
        BY <1>b, <1>d, <4>1 DEF Added, PlaceOk
      <4> QED BY <1>b, <2>1, <2>4, <3>n, <4>1, <4>2
    <3>2. Cardinality(Counted(W, F, AddedBy')) = Cardinality(Counted(W, F, AddedBy)) + 1
      <4>1. IsFiniteSet(W) /\ w \in W /\ F \in Nat
        BY <1>b, <1>n
      <4>2. AddedBy'[w] = AddedBy[w] + 1
        BY <1>d, <2>1, <2>4
      <4> PICK b : b = AddedBy
        OBVIOUS
      <4> PICK d : d = AddedBy'
        OBVIOUS
      <4>3. /\ \A x \in W : b[x] \in Nat
            /\ d[w] = b[w] + 1 /\ b[w] < F
            /\ \A x \in W : x # w => d[x] = b[x]
        BY <2>2, <3>n, <3>1, <4>2
      <4>4. Cardinality(Counted(W, F, d)) = Cardinality(Counted(W, F, b)) + 1
        BY ONLY <4>1, <4>3, CountedOneMore
      <4> QED BY <4>4
    <3> QED BY <1>a, <1>b, <1>c, <2>4, <3>2 DEF AddsCounted
  <2> QED BY <2>3, <2>4
<1>5. PopsCounted' /\ LeftAfterLast'
  <2>1. Adding' = Adding
    BY <1>b DEF Adding
  <2> QED BY <1>a, <1>b, <2>1 DEF PopsCounted, LeftAfterLast
<1>6. InOrder'
  <2>1. Base' = Base
    BY <1>b DEF Base
  <2>2. ASSUME k = "mutex" \/ arguments[1] = 1 PROVE Numbered(Base)'
    <3>1. Numbered(Base)
      BY <1>a, <2>2 DEF InOrder
    <3>2. \A j \in 1..Len(queue') : queue'[j] = Base + Len(taken) + j - 1
      <4>1. CASE queue' = queue
        BY <3>1, <4>1 DEF Numbered
      <4>2. CASE queue' # queue
        <5>1. /\ Len(queue') = Len(queue) + 1
              /\ \A j \in 1..Len(queue) : queue'[j] = queue[j]
              /\ queue'[Len(queue) + 1] = Base + Len(taken) + Len(queue)
          BY <1>q, <2>2, <4>2
        <5>2. \A j \in 1..(Len(queue) + 1) : j \in 1..Len(queue) \/ j = Len(queue) + 1
          BY <1>c
        <5>3. Base + Len(taken) + (Len(queue) + 1) - 1 = Base + Len(taken) + Len(queue)
          BY <1>c
        <5> QED BY <3>1, <5>1, <5>2, <5>3 DEF Numbered
      <4> QED BY <4>1, <4>2
    <3> QED BY <1>b, <2>1, <3>1, <3>2 DEF Numbered
  <2> QED BY <1>b, <2>2 DEF InOrder
<1>7. Alone'
  <2> SUFFICES ASSUME arguments[1] = 1 PROVE /\ Len(taken) + Len(queue') = producer'[1].i
                                             /\ s_count_push' = Added(k, producer'[1])
                                             /\ CountOk(k, producer'[1])
    BY <1>b DEF Alone
  <2>1. w = 1 /\ producer'[1] = r
    BY <1>d
  <2>2. /\ Len(taken) + Len(queue) = producer[1].i /\ s_count_push = Added(k, producer[1])
    BY <1>a DEF Alone
  <2>3. Len(taken) + Len(queue') = r.i
    <3>2. Len(taken) \in Nat /\ Len(queue) \in Nat /\ i \in Nat /\ r.i = i
      BY <1>c, <1>d
    <3>3. \/ Len(queue') = Len(queue) /\ i = producer[1].i
          \/ Len(queue') = Len(queue) + 1 /\ i = producer[1].i + 1
      <4>1. \/ Len(queue') = Len(queue) /\ i = producer[w].i
            \/ Len(queue') = Len(queue) + 1 /\ i = producer[w].i + 1
        BY ONLY <1>q
      <4> QED BY ONLY <2>1, <4>1
    <3> QED BY ONLY <2>2, <3>2, <3>3
  <2>4. s_count_push' = Added(k, r)
    BY <2>1, <2>2
  <2> QED BY <2>1, <2>3, <2>4
<1> QED BY <1>1, <1>2, <1>3, <1>4, <1>5, <1>6, <1>7 DEF BenchInv

\* A producer's record after its assignments.
LEMMA ProducerRecords ==
  ASSUME NEW r, r \in [at : ProducerPlaces, i : Nat, count : Nat], NEW x, NEW y
  PROVE  /\ [r EXCEPT !.at = x] = [at |-> x, i |-> r.i, count |-> r.count]
         /\ [[r EXCEPT !.i = y] EXCEPT !.at = x] = [at |-> x, i |-> y, count |-> r.count]
         /\ [[r EXCEPT !.i = @ + 1] EXCEPT !.at = x]
               = [at |-> x, i |-> r.i + 1, count |-> r.count]
         /\ [[r EXCEPT !.count = y] EXCEPT !.at = x] = [at |-> x, i |-> r.i, count |-> y]
<1> PICK a \in ProducerPlaces, i \in Nat, v \in Nat : r = [at |-> a, i |-> i, count |-> v]
  OBVIOUS
<1>1. [r EXCEPT !.at = x] = [at |-> x, i |-> i, count |-> v]
  OBVIOUS
<1>2. [r EXCEPT !.i = y] = [at |-> a, i |-> y, count |-> v]
  OBVIOUS
<1>3. [r EXCEPT !.i = @ + 1] = [at |-> a, i |-> i + 1, count |-> v]
  OBVIOUS
<1>4. [r EXCEPT !.count = y] = [at |-> a, i |-> i, count |-> y]
  OBVIOUS
<1>5. [[at |-> a, i |-> y, count |-> v] EXCEPT !.at = x] = [at |-> x, i |-> y, count |-> v]
  OBVIOUS
<1>6. [[at |-> a, i |-> i + 1, count |-> v] EXCEPT !.at = x]
        = [at |-> x, i |-> i + 1, count |-> v]
  OBVIOUS
<1>7. [[at |-> a, i |-> i, count |-> y] EXCEPT !.at = x] = [at |-> x, i |-> i, count |-> y]
  OBVIOUS
<1>8. r.i = i /\ r.count = v
  OBVIOUS
<1> QED BY ONLY <1>1, <1>2, <1>3, <1>4, <1>5, <1>6, <1>7, <1>8

\* What is known of a producer and of the test it is in.
LEMMA ProducerFacts ==
  ASSUME BenchInv, NEW w \in DOMAIN producer, NEW r, r = producer[w],
         NEW k, k = Bench!kind, NEW n, n = Bench!Items(k)
  PROVE  /\ producer \in [1..arguments[1] -> [at : ProducerPlaces, i : Nat, count : Nat]]
         /\ w \in 1..arguments[1]
         /\ k \in {"mutex", "block", "lockfree", "array", "ypipe", "batch"}
         /\ r.at \in ProducerPlaces /\ r.i \in Nat /\ r.count \in Nat
         /\ PlaceOk(k, n, r) /\ n \in Nat
         /\ queue \in Seq(Nat) /\ Len(queue) \in Nat /\ Len(taken) \in Nat
         /\ flushed \in 0..Len(queue) /\ s_count_push \in Nat
<1>1. /\ BenchTypes /\ ProducersStand
  BY DEF BenchInv
<1>2. /\ w \in 1..arguments[1] /\ round \in 1..6 /\ arguments \in Arguments
      /\ producer \in [1..arguments[1] -> [at : ProducerPlaces, i : Nat, count : Nat]]
  BY <1>1 DEF BenchTypes
<1>3. k \in {"mutex", "block", "lockfree", "array", "ypipe", "batch"}
  BY <1>2, TestNames DEF Bench!kind
<1>4. r \in [at : ProducerPlaces, i : Nat, count : Nat]
  BY <1>2
<1>5. PlaceOk(k, n, r)
  BY <1>1, <1>2 DEF ProducersStand
<1>6. n \in Nat
  BY <1>2, ArgumentTypes, ItemsBound
<1>7. /\ queue \in Seq(Nat) /\ Len(queue) \in Nat /\ Len(taken) \in Nat
      /\ flushed \in 0..Len(queue) /\ s_count_push \in Nat
  BY <1>1 DEF BenchTypes
<1> QED BY <1>2, <1>3, <1>4, <1>5, <1>6, <1>7

\* Where the loop of a producer goes on.
LEMMA LoopPlace ==
  ASSUME NEW k, NEW j \in Nat
  PROVE  Bench!Loop(k, j) = IF j = Bench!Items(k) THEN "done"
                            ELSE IF k \in NumberFirst THEN "add" ELSE "enqueue"
BY DEF Bench!Loop, NumberFirst

\* What a producer that is alone has pushed, added and read.
LEMMA AloneFacts ==
  ASSUME BenchInv, NEW w \in 1..arguments[1], arguments[1] = 1
  PROVE  /\ Len(taken) + Len(queue) = producer[w].i
         /\ s_count_push = Added(Bench!kind, producer[w])
         /\ CountOk(Bench!kind, producer[w])
<1>1. w = 1
  OBVIOUS
<1> QED BY <1>1 DEF BenchInv, Alone

LEMMA MutexPushStep ==
  ASSUME BenchInv, NEW w \in DOMAIN producer, Bench!MutexPush(w)
  PROVE  BenchInv'
<1> PICK k : k = Bench!kind
  OBVIOUS
<1> PICK n : n = Bench!Items(k)
  OBVIOUS
<1> PICK r0 : r0 = producer[w]
  OBVIOUS
<1>b. /\ producer \in [1..arguments[1] -> [at : ProducerPlaces, i : Nat, count : Nat]]
      /\ w \in 1..arguments[1]
      /\ r0.at \in ProducerPlaces /\ r0.i \in Nat /\ r0.count \in Nat
      /\ PlaceOk(k, n, r0) /\ n \in Nat
      /\ queue \in Seq(Nat) /\ Len(queue) \in Nat /\ Len(taken) \in Nat
      /\ flushed \in 0..Len(queue) /\ s_count_push \in Nat
  BY ProducerFacts
<1>1. /\ k = "mutex" /\ r0.at = "enqueue"
      /\ queue' = Append(queue, s_count_push) /\ s_count_push' = s_count_push + 1
      /\ producer' = [producer EXCEPT ![w].i = @ + 1,
                                      ![w].at = Bench!Loop(k, r0.i + 1)]
      /\ flushed' = flushed
      /\ UNCHANGED <<arguments, round, s_count_pop, consumer, taken>>
  BY DEF Bench!MutexPush, Bench!kept
<1> PICK i \in Nat : i = r0.i + 1
  BY <1>b
<1> PICK place : place = Bench!Loop(k, i)
  OBVIOUS
<1> PICK r : r = [at |-> place, i |-> i, count |-> r0.count]
  OBVIOUS
<1>2. producer' = [producer EXCEPT ![w] = r]
  <2>1. producer' = [producer EXCEPT ![w] = [[r0 EXCEPT !.i = @ + 1] EXCEPT !.at = place]]
    BY <1>b, <1>1
  <2>2. r0 \in [at : ProducerPlaces, i : Nat, count : Nat]
    BY <1>b
  <2>3. [[r0 EXCEPT !.i = @ + 1] EXCEPT !.at = place]
          = [at |-> place, i |-> r0.i + 1, count |-> r0.count]
    BY ONLY <2>2, ProducerRecords
  <2> QED BY <2>1, <2>3
<1>3. r0.i < n
  BY <1>b, <1>1 DEF PlaceOk
<1>4. place = IF i = n THEN "done" ELSE "enqueue"
  BY <1>1, LoopPlace DEF NumberFirst
<1>5. place \in ProducerPlaces
  BY <1>4 DEF ProducerPlaces
<1>6. PlaceOk(k, n, r)
  BY <1>b, <1>1, <1>3, <1>4 DEF PlaceOk, NumberFirst
<1>7. s_count_push = Base + Len(taken) + Len(queue)
  <2>1. \A x \in 1..arguments[1] : AddedBy[x] = PushedBy[x]
    <3> SUFFICES ASSUME NEW x \in 1..arguments[1] PROVE AddedBy[x] = PushedBy[x]
      OBVIOUS
    <3>1. producer[x].at # "add" /\ producer[x].i \in Nat
      BY <1>b, <1>1 DEF BenchInv, ProducersStand, PlaceOk
    <3> QED BY <1>1, <3>1 DEF AddedBy, PushedBy, Added, NumberFirst
  <2>2. Counted(1..arguments[1], arguments[3], AddedBy)
          = Counted(1..arguments[1], arguments[3], PushedBy)
    BY <2>1, CountedSame
  <2>3. Base = 0
    BY <1>1 DEF Base, NumberFirst
  <2>4. s_count_push = Len(taken) + Len(queue)
    BY <2>2 DEF BenchInv, PushesCounted, AddsCounted
  <2> QED BY <1>b, <2>3, <2>4
<1>8. Added(k, r) = Added(k, r0) + 1
  <2>1. k \notin NumberFirst /\ r.at # "add" /\ r.i = i
    BY <1>1, <1>4 DEF NumberFirst
  <2>2. Added(k, r) = i - 0 /\ Added(k, r0) = r0.i - 0
    BY <1>1, <2>1 DEF Added
  <2> QED BY <1>b, <2>2
<1>9. CountOk(k, r)
  BY <1>1 DEF CountOk, NumberFirst
<1>10. flushed' \in 0..Len(queue')
  <2>1. Len(queue') = Len(queue) + 1
    BY <1>b, <1>1, AppendProperties
  <2> QED BY <1>b, <1>1, <2>1
<1> QED BY <1>b, <1>1, <1>2, <1>5, <1>6, <1>7, <1>8, <1>9, <1>10, ProducerMoves
LEMMA AddPushStep ==
  ASSUME BenchInv, NEW w \in DOMAIN producer, Bench!AddPush(w)
  PROVE  BenchInv'
<1> PICK k : k = Bench!kind
  OBVIOUS
<1> PICK n : n = Bench!Items(k)
  OBVIOUS
<1> PICK r0 : r0 = producer[w]
  OBVIOUS
<1>b. /\ producer \in [1..arguments[1] -> [at : ProducerPlaces, i : Nat, count : Nat]]
      /\ w \in 1..arguments[1]
      /\ k \in {"mutex", "block", "lockfree", "array", "ypipe", "batch"}
      /\ r0.at \in ProducerPlaces /\ r0.i \in Nat /\ r0.count \in Nat
      /\ PlaceOk(k, n, r0) /\ n \in Nat
      /\ queue \in Seq(Nat) /\ Len(queue) \in Nat /\ Len(taken) \in Nat
      /\ flushed \in 0..Len(queue) /\ s_count_push \in Nat
  BY ProducerFacts
<1>t. r0 \in [at : ProducerPlaces, i : Nat, count : Nat]
  BY <1>b
<1>1. /\ r0.at = "add" /\ s_count_push' = s_count_push + 1
      /\ producer' = [producer EXCEPT ![w].at = "read"]
      /\ queue' = queue /\ flushed' = flushed
      /\ UNCHANGED <<arguments, round, s_count_pop, consumer, taken>>
  BY DEF Bench!AddPush, Bench!kept
<1> PICK r : r = [at |-> "read", i |-> r0.i, count |-> r0.count]
  OBVIOUS
<1>2. producer' = [producer EXCEPT ![w] = r]
  <2>1. producer' = [producer EXCEPT ![w] = [r0 EXCEPT !.at = "read"]]
    BY <1>b, <1>1
  <2>2. [r0 EXCEPT !.at = "read"] = [at |-> "read", i |-> r0.i, count |-> r0.count]
    BY ONLY <1>t, ProducerRecords
  <2> QED BY <2>1, <2>2
<1>3. r.at = "read" /\ r.i = r0.i
  OBVIOUS
<1>4. "read" \in ProducerPlaces
  BY DEF ProducerPlaces
<1>5. PlaceOk(k, n, r)
  BY <1>b, <1>1, <1>3 DEF PlaceOk
<1>6. Added(k, r) = Added(k, r0) + 1
  <2>1. CASE k \in NumberFirst
    <3>1. Added(k, r) = r.i + 1 /\ Added(k, r0) = r0.i + 0
      BY <1>1, <1>3, <2>1 DEF Added
    <3> QED BY <1>b, <1>3, <3>1
  <2>2. CASE k \notin NumberFirst
    <3>1. Added(k, r) = r.i - 0 /\ Added(k, r0) = r0.i - 1
      BY <1>1, <1>3, <2>2 DEF Added
    <3> QED BY <1>b, <1>3, <3>1
  <2> QED BY <2>1, <2>2
<1>7. CountOk(k, r)
  BY <1>3 DEF CountOk
<1> QED BY <1>b, <1>1, <1>2, <1>4, <1>5, <1>6, <1>7, ProducerMoves

LEMMA ReadPushStep ==
  ASSUME BenchInv, NEW w \in DOMAIN producer, Bench!ReadPush(w)
  PROVE  BenchInv'
<1> PICK k : k = Bench!kind
  OBVIOUS
<1> PICK n : n = Bench!Items(k)
  OBVIOUS
<1> PICK r0 : r0 = producer[w]
  OBVIOUS
<1>b. /\ producer \in [1..arguments[1] -> [at : ProducerPlaces, i : Nat, count : Nat]]
      /\ w \in 1..arguments[1]
      /\ k \in {"mutex", "block", "lockfree", "array", "ypipe", "batch"}
      /\ r0.at \in ProducerPlaces /\ r0.i \in Nat /\ r0.count \in Nat
      /\ PlaceOk(k, n, r0) /\ n \in Nat
      /\ queue \in Seq(Nat) /\ Len(queue) \in Nat /\ Len(taken) \in Nat
      /\ flushed \in 0..Len(queue) /\ s_count_push \in Nat
  BY ProducerFacts
<1>t. r0 \in [at : ProducerPlaces, i : Nat, count : Nat]
  BY <1>b
<1> PICK i \in Nat : i = r0.i
  BY <1>b
<1>n. k \in NumberFirst <=> k \in {"block", "lockfree"}
  BY DEF NumberFirst
<1> PICK place : place = CASE k \in {"block", "lockfree"} -> "enqueue"
                            [] k = "array" -> Bench!Loop(k, i)
                            [] k = "batch" /\ i % Batch # 0 -> "enqueue"
                            [] OTHER -> "flush"
  OBVIOUS
<1>1. /\ r0.at = "read" /\ s_count_push' = s_count_push
      /\ producer' = [producer EXCEPT ![w].count = s_count_push, ![w].at = place]
      /\ queue' = queue /\ flushed' = flushed
      /\ UNCHANGED <<arguments, round, s_count_pop, consumer, taken>>
  BY DEF Bench!ReadPush, Bench!kept
<1> PICK r : r = [at |-> place, i |-> i, count |-> s_count_push]
  OBVIOUS
<1>2. producer' = [producer EXCEPT ![w] = r]
  <2>1. producer' = [producer EXCEPT
                       ![w] = [[r0 EXCEPT !.count = s_count_push] EXCEPT !.at = place]]
    BY <1>b, <1>1
  <2>2. [[r0 EXCEPT !.count = s_count_push] EXCEPT !.at = place]
          = [at |-> place, i |-> r0.i, count |-> s_count_push]
    BY ONLY <1>t, ProducerRecords
  <2> QED BY <2>1, <2>2
<1>3. r.at = place /\ r.i = i /\ r.count = s_count_push /\ i <= n
  BY <1>b DEF PlaceOk
<1>l. Bench!Loop("array", i) = IF i = Bench!Items("array") THEN "done" ELSE "enqueue"
  BY LoopPlace DEF NumberFirst
<1>m. /\ k # "mutex"
      /\ k \in NumberFirst => i < n
  BY <1>b, <1>1 DEF PlaceOk
<1>p. \/ k \in NumberFirst /\ place = "enqueue" /\ i < n
      \/ k = "array" /\ place = "done" /\ i = n
      \/ k = "array" /\ place = "enqueue" /\ i < n
      \/ k = "batch" /\ place = "enqueue" /\ i < n
      \/ k \in {"ypipe", "batch"} /\ place = "flush"
  <2>1. CASE k \in NumberFirst
    BY <1>n, <1>m, <2>1
  <2>2. CASE k = "array"
    BY <1>b, <1>3, <1>l, <2>2
  <2>3. CASE k = "batch" /\ i % Batch # 0
    <3>1. n % Batch = 0
      BY <2>3, ItemsBound DEF BenchInv, BenchTypes
    <3>2. i # n
      BY <2>3, <3>1
    <3> QED BY <1>b, <1>3, <2>3, <3>2
  <2>4. CASE k \in {"ypipe", "batch"} /\ ~(k = "batch" /\ i % Batch # 0)
    BY <2>4
  <2> QED BY <1>b, <1>n, <1>m, <2>1, <2>2, <2>3, <2>4
<1>4. place \in ProducerPlaces
  BY <1>p DEF ProducerPlaces
<1>5. PlaceOk(k, n, r)
  <2>1. k # "mutex" /\ (k = "array" => place # "flush") /\ place \notin {"add", "read"}
    BY <1>m, <1>p
  <2>2. k \in NumberFirst => place = "enqueue"
    BY <1>p DEF NumberFirst
  <2>3. (place = "enqueue" => i < n) /\ (place = "done" => i = n)
    BY <1>p
  <2> QED BY <1>3, <2>1, <2>2, <2>3 DEF PlaceOk
<1>6. Added(k, r) = Added(k, r0)
  <2>1. CASE k \in NumberFirst
    <3>0. place = "enqueue"
      BY <1>p, <2>1 DEF NumberFirst
    <3>1. Added(k, r) = r.i + 1 /\ Added(k, r0) = r0.i + 1
      BY <1>1, <1>3, <2>1, <3>0 DEF Added
    <3> QED BY <1>3, <3>1
  <2>2. CASE k \notin NumberFirst
    <3>0. place # "add"
      BY <1>p
    <3>1. Added(k, r) = r.i - 0 /\ Added(k, r0) = r0.i - 0
      BY <1>1, <1>3, <2>2, <3>0 DEF Added
    <3> QED BY <1>3, <3>1
  <2> QED BY <2>1, <2>2
<1>7. ASSUME arguments[1] = 1 PROVE CountOk(k, r)
  <2>1. s_count_push = Added(k, r0)
    BY <1>b, <1>7, AloneFacts
  <2>2. CASE k \in NumberFirst
    <3>1. Added(k, r0) = i + 1
      BY <1>1, <2>2 DEF Added
    <3> QED BY <1>3, <2>1, <2>2, <3>1 DEF CountOk
  <2>3. CASE k \notin NumberFirst
    <3>1. Added(k, r0) = i - 0
      BY <1>1, <2>3 DEF Added
    <3>2. r.count = r.i
      BY <1>3, <2>1, <3>1
    <3> QED BY <2>3, <3>2 DEF CountOk
  <2> QED BY <2>2, <2>3
<1> QED BY <1>b, <1>1, <1>2, <1>4, <1>5, <1>6, <1>7, ProducerMoves

LEMMA EnqueueStep ==
  ASSUME BenchInv, NEW w \in DOMAIN producer, Bench!Enqueue(w)
  PROVE  BenchInv'
<1> PICK k : k = Bench!kind
  OBVIOUS
<1> PICK n : n = Bench!Items(k)
  OBVIOUS
<1> PICK r0 : r0 = producer[w]
  OBVIOUS
<1>b. /\ producer \in [1..arguments[1] -> [at : ProducerPlaces, i : Nat, count : Nat]]
      /\ w \in 1..arguments[1]
      /\ k \in {"mutex", "block", "lockfree", "array", "ypipe", "batch"}
      /\ r0.at \in ProducerPlaces /\ r0.i \in Nat /\ r0.count \in Nat
      /\ PlaceOk(k, n, r0) /\ n \in Nat
      /\ queue \in Seq(Nat) /\ Len(queue) \in Nat /\ Len(taken) \in Nat
      /\ flushed \in 0..Len(queue) /\ s_count_push \in Nat
  BY ProducerFacts
<1>t. r0 \in [at : ProducerPlaces, i : Nat, count : Nat]
  BY <1>b
<1> PICK i \in Nat : i = r0.i + 1
  BY <1>b
<1> PICK place : place = IF k \in {"block", "lockfree"} THEN Bench!Loop(k, i) ELSE "add"
  OBVIOUS
<1>n. k \in NumberFirst <=> k \in {"block", "lockfree"}
  BY DEF NumberFirst
<1>1. /\ r0.at = "enqueue" /\ k # "mutex" /\ s_count_push' = s_count_push
      /\ producer' = [producer EXCEPT ![w].i = i, ![w].at = place]
      /\ queue' = Append(queue, r0.count) /\ flushed' = flushed
      /\ UNCHANGED <<arguments, round, s_count_pop, consumer, taken>>
  BY DEF Bench!Enqueue, Bench!kept
<1> PICK r : r = [at |-> place, i |-> i, count |-> r0.count]
  OBVIOUS
<1>2. producer' = [producer EXCEPT ![w] = r]
  <2>1. producer' = [producer EXCEPT ![w] = [[r0 EXCEPT !.i = i] EXCEPT !.at = place]]
    BY <1>b, <1>1
  <2>2. [[r0 EXCEPT !.i = i] EXCEPT !.at = place]
          = [at |-> place, i |-> i, count |-> r0.count]
    <3> PICK a, m, v : r0 = [at |-> a, i |-> m, count |-> v]
      BY <1>t
    <3>1. [r0 EXCEPT !.i = i] = [at |-> a, i |-> i, count |-> v] /\ r0.count = v
      OBVIOUS
    <3>2. [[at |-> a, i |-> i, count |-> v] EXCEPT !.at = place]
            = [at |-> place, i |-> i, count |-> v]
      OBVIOUS
    <3> QED BY ONLY <3>1, <3>2
  <2> QED BY <2>1, <2>2
<1>3. r.at = place /\ r.i = i /\ r0.i < n /\ i <= n
  BY <1>b, <1>1 DEF PlaceOk
<1>p. \/ k \in NumberFirst /\ place = "add" /\ i < n
      \/ k \in NumberFirst /\ place = "done" /\ i = n
      \/ k \notin NumberFirst /\ place = "add"
  <2>1. CASE k \in NumberFirst
    <3>1. place = Bench!Loop(k, i)
      BY <1>n, <2>1
    <3>2. Bench!Loop(k, i) = IF i = n THEN "done" ELSE "add"
      BY <2>1, LoopPlace
    <3> QED BY <1>b, <1>3, <2>1, <3>1, <3>2
  <2>2. CASE k \notin NumberFirst
    BY <1>n, <2>2
  <2> QED BY <2>1, <2>2
<1>4. place \in ProducerPlaces
  BY <1>p DEF ProducerPlaces
<1>5. PlaceOk(k, n, r)
  BY <1>b, <1>1, <1>3, <1>p DEF PlaceOk
<1>6. Added(k, r) = Added(k, r0)
  <2>1. CASE k \in NumberFirst
    <3>0. place \notin {"read", "enqueue"}
      BY <1>p
    <3>1. Added(k, r) = r.i + 0 /\ Added(k, r0) = r0.i + 1
      BY <1>1, <1>3, <2>1, <3>0 DEF Added
    <3> QED BY <1>b, <1>3, <3>1
  <2>2. CASE k \notin NumberFirst
    <3>0. place = "add"
      BY <1>p, <2>2
    <3>1. Added(k, r) = r.i - 1 /\ Added(k, r0) = r0.i - 0
      BY <1>1, <1>3, <2>2, <3>0 DEF Added
    <3> QED BY <1>b, <1>3, <3>1
  <2> QED BY <2>1, <2>2
<1>7. CountOk(k, r)
  BY <1>3, <1>p DEF CountOk
<1>8. ASSUME arguments[1] = 1 PROVE r0.count = Base + Len(taken) + Len(queue)
  <2>1. Len(taken) + Len(queue) = r0.i /\ CountOk(k, r0)
    BY <1>b, <1>8, AloneFacts
  <2>2. CASE k \in NumberFirst
    <3>1. r0.count = r0.i + 1 /\ Base = 1
      BY <1>1, <2>1, <2>2 DEF CountOk, Base
    <3> QED BY <1>b, <2>1, <3>1
  <2>3. CASE k \notin NumberFirst
    <3>1. r0.count = r0.i /\ Base = 0
      BY <1>1, <2>1, <2>3 DEF CountOk, Base
    <3> QED BY <1>b, <2>1, <3>1
  <2> QED BY <2>2, <2>3
<1>9. flushed' \in 0..Len(queue')
  <2>1. Len(queue') = Len(queue) + 1
    BY <1>b, <1>1, AppendProperties
  <2> QED BY <1>b, <1>1, <2>1
<1>10. k = "mutex" \/ arguments[1] = 1 => r0.count = Base + Len(taken) + Len(queue)
  BY <1>1, <1>8
<1>11. i = producer[w].i + 1 /\ producer[w] = r0
  OBVIOUS
<1>12. \/ Added(k, r) = Added(k, producer[w]) /\ s_count_push' = s_count_push
       \/ Added(k, r) = Added(k, producer[w]) + 1 /\ s_count_push' = s_count_push + 1
  BY <1>1, <1>6, <1>11
<1>13. \/ i = producer[w].i /\ queue' = queue
       \/ i = producer[w].i + 1 /\ \E v \in Nat :
            /\ queue' = Append(queue, v)
            /\ k = "mutex" \/ arguments[1] = 1 => v = Base + Len(taken) + Len(queue)
  BY <1>b, <1>1, <1>10, <1>11
<1>14. /\ BenchInv /\ w \in 1..arguments[1] /\ place \in ProducerPlaces /\ i \in Nat
       /\ r0.count \in Nat /\ r = [at |-> place, i |-> i, count |-> r0.count]
       /\ k = Bench!kind /\ PlaceOk(k, Bench!Items(k), r)
       /\ UNCHANGED <<arguments, round, s_count_pop, consumer, taken>>
  BY <1>b, <1>1, <1>4, <1>5
<1>15. arguments[1] = 1 => CountOk(k, r)
  BY <1>7
<1> QED BY ONLY <1>2, <1>9, <1>12, <1>13, <1>14, <1>15, ProducerMoves

LEMMA FlushStep ==
  ASSUME BenchInv, NEW w \in DOMAIN producer, Bench!Flush(w)
  PROVE  BenchInv'
<1> PICK k : k = Bench!kind
  OBVIOUS
<1> PICK n : n = Bench!Items(k)
  OBVIOUS
<1> PICK r0 : r0 = producer[w]
  OBVIOUS
<1>b. /\ producer \in [1..arguments[1] -> [at : ProducerPlaces, i : Nat, count : Nat]]
      /\ w \in 1..arguments[1]
      /\ k \in {"mutex", "block", "lockfree", "array", "ypipe", "batch"}
      /\ r0.at \in ProducerPlaces /\ r0.i \in Nat /\ r0.count \in Nat
      /\ PlaceOk(k, n, r0) /\ n \in Nat
      /\ queue \in Seq(Nat) /\ Len(queue) \in Nat /\ Len(taken) \in Nat
      /\ flushed \in 0..Len(queue) /\ s_count_push \in Nat
  BY ProducerFacts
<1>t. r0 \in [at : ProducerPlaces, i : Nat, count : Nat]
  BY <1>b
<1> PICK i \in Nat : i = r0.i
  BY <1>b
<1> PICK place : place = Bench!Loop(k, i)
  OBVIOUS
<1>1. /\ r0.at = "flush" /\ s_count_push' = s_count_push
      /\ producer' = [producer EXCEPT ![w].at = place]
      /\ queue' = queue /\ flushed' = Len(queue)
      /\ UNCHANGED <<arguments, round, s_count_pop, consumer, taken>>
  BY DEF Bench!Flush, Bench!kept
<1> PICK r : r = [at |-> place, i |-> i, count |-> r0.count]
  OBVIOUS
<1>2. producer' = [producer EXCEPT ![w] = r]
  <2>1. producer' = [producer EXCEPT ![w] = [r0 EXCEPT !.at = place]]
    BY <1>b, <1>1
  <2>2. [r0 EXCEPT !.at = place] = [at |-> place, i |-> r0.i, count |-> r0.count]
    BY ONLY <1>t, ProducerRecords
  <2> QED BY <2>1, <2>2
<1>3. r.at = place /\ r.i = i /\ r.count = r0.count /\ i <= n
  BY <1>b DEF PlaceOk
<1>4. k \notin NumberFirst /\ k # "mutex"
  BY <1>b, <1>1 DEF PlaceOk
<1>5. place = IF i = n THEN "done" ELSE "enqueue"
  BY <1>4, LoopPlace
<1>6. place \in ProducerPlaces
  BY <1>5 DEF ProducerPlaces
<1>7. PlaceOk(k, n, r)
  BY <1>b, <1>3, <1>4, <1>5 DEF PlaceOk
<1>8. Added(k, r) = Added(k, r0)
  <2>1. Added(k, r) = r.i - 0 /\ Added(k, r0) = r0.i - 0
    BY <1>1, <1>3, <1>4, <1>5 DEF Added
  <2> QED BY <1>3, <2>1
<1>9. ASSUME arguments[1] = 1 PROVE CountOk(k, r)
  <2>1. CountOk(k, r0)
    BY <1>b, <1>9, AloneFacts
  <2>2. r0.count = r0.i
    BY <1>1, <1>4, <2>1 DEF CountOk
  <2> QED BY <1>3, <1>4, <2>2 DEF CountOk
<1>10. flushed' \in 0..Len(queue')
  BY <1>b, <1>1
<1> QED BY <1>b, <1>1, <1>2, <1>6, <1>7, <1>8, <1>9, <1>10, ProducerMoves

LEMMA BenchInitInv == Bench!Init => BenchInv
<1>1. Bench!Init => FreshState
  BY DEF Bench!Init, FreshState
<1> QED BY <1>1, FreshInv

\* The state after NextTest is fresh as well.
LEMMA FreshNext == FreshState' => BenchInv'
BY FreshInv, PTL

LEMMA BenchFrame ==
  ASSUME BenchInv,
         UNCHANGED <<arguments, round, queue, flushed, s_count_push, s_count_pop, producer,
                     consumer, taken>>
  PROVE  BenchInv'
<1>1. /\ arguments' = arguments /\ round' = round /\ queue' = queue /\ flushed' = flushed
      /\ s_count_push' = s_count_push /\ s_count_pop' = s_count_pop
      /\ producer' = producer /\ consumer' = consumer /\ taken' = taken
  OBVIOUS
<1>k. Bench!kind' = Bench!kind /\ Base' = Base
  BY <1>1 DEF Bench!kind, Bench!Tests, Base
<1>n. Bench!Items(Bench!kind)' = Bench!Items(Bench!kind)
  BY <1>1, <1>k DEF Bench!Items, Bench!s_queue_item_num
<1>m. Bench!AllItems' = Bench!AllItems
  BY <1>1 DEF Bench!AllItems, Bench!s_queue_item_num, Bench!s_producer_thread_num
<1>2. BenchTypes'
  BY <1>1 DEF BenchInv, BenchTypes
<1>3. ProducersStand'
  BY <1>1, <1>k, <1>n DEF BenchInv, ProducersStand
<1>4. PushesCounted' /\ AddsCounted'
  <2>1. PushedBy' = PushedBy /\ AddedBy' = AddedBy
    BY <1>1, <1>k DEF PushedBy, AddedBy
  <2> QED BY <1>1, <2>1 DEF BenchInv, PushesCounted, AddsCounted
<1>5. PopsCounted' /\ LeftAfterLast'
  <2>1. Adding' = Adding
    BY <1>1 DEF Adding
  <2> QED BY <1>1, <1>m, <2>1 DEF BenchInv, PopsCounted, LeftAfterLast
<1>6. InOrder'
  <2>1. Numbered(Base)' <=> Numbered(Base)
    BY <1>1, <1>k DEF Numbered
  <2> QED BY <1>1, <1>k, <2>1 DEF BenchInv, InOrder
<1>7. Alone'
  BY <1>1, <1>k DEF BenchInv, Alone
<1> QED BY <1>2, <1>3, <1>4, <1>5, <1>6, <1>7 DEF BenchInv

\* A step of a consumer: it may take the first item of the queue.
LEMMA ConsumerMoves ==
  ASSUME BenchInv, UNCHANGED <<arguments, round, s_count_push, producer>>,
         queue' \in Seq(Nat), taken' \in Seq(Nat), flushed' \in 0..Len(queue'),
         s_count_pop' \in Nat,
         consumer' \in [1..arguments[2] -> {"dequeue", "add", "check", "done"}],
         Len(taken') + Len(queue') = Len(taken) + Len(queue),
         PopsCounted', LeftAfterLast',
         Numbered(Base) => Numbered(Base)'
  PROVE  BenchInv'
<1>1. /\ arguments' = arguments /\ round' = round
      /\ s_count_push' = s_count_push /\ producer' = producer
  OBVIOUS
<1>k. Bench!kind' = Bench!kind /\ Base' = Base
  BY <1>1 DEF Bench!kind, Bench!Tests, Base
<1>n. Bench!Items(Bench!kind)' = Bench!Items(Bench!kind)
  BY <1>1, <1>k DEF Bench!Items, Bench!s_queue_item_num
<1>2. BenchTypes'
  BY <1>1 DEF BenchInv, BenchTypes
<1>3. ProducersStand'
  BY <1>1, <1>k, <1>n DEF BenchInv, ProducersStand
<1>4. PushesCounted' /\ AddsCounted'
  <2>1. PushedBy' = PushedBy /\ AddedBy' = AddedBy
    BY <1>1, <1>k DEF PushedBy, AddedBy
  <2> QED BY <1>1, <2>1 DEF BenchInv, PushesCounted, AddsCounted
<1>6. InOrder'
  BY <1>1, <1>k DEF BenchInv, InOrder
<1>7. Alone'
  BY <1>1, <1>k DEF BenchInv, Alone
<1> QED BY <1>2, <1>3, <1>4, <1>6, <1>7 DEF BenchInv

\* What is known of the consumers; no more items are pushed than there are.
LEMMA ConsumerFacts ==
  ASSUME BenchInv
  PROVE  /\ consumer \in [1..arguments[2] -> {"dequeue", "add", "check", "done"}]
         /\ arguments[2] \in Nat \ {0}
         /\ queue \in Seq(Nat) /\ taken \in Seq(Nat) /\ flushed \in 0..Len(queue)
         /\ Len(queue) \in Nat /\ Len(taken) \in Nat /\ s_count_pop \in Nat
         /\ Bench!AllItems \in Nat /\ Len(taken) + Len(queue) <= Bench!AllItems
         /\ IsFiniteSet(Adding) /\ Cardinality(Adding) \in Nat
         /\ Len(taken) = s_count_pop + Cardinality(Adding)
<1>1. BenchTypes /\ PushesCounted /\ PopsCounted
  BY DEF BenchInv
<1>2. /\ arguments[1] \in Nat /\ arguments[2] \in Nat \ {0} /\ arguments[3] \in Nat
      /\ Bench!AllItems = arguments[1] * arguments[3] /\ Bench!AllItems \in Nat
  BY <1>1, ArgumentTypes DEF BenchTypes
<1>3. /\ consumer \in [1..arguments[2] -> {"dequeue", "add", "check", "done"}]
      /\ queue \in Seq(Nat) /\ taken \in Seq(Nat) /\ flushed \in 0..Len(queue)
      /\ Len(queue) \in Nat /\ Len(taken) \in Nat /\ s_count_pop \in Nat
  BY <1>1 DEF BenchTypes
<1> PICK a \in Nat : a = arguments[1]
  BY <1>2
<1> PICK b \in Nat : b = arguments[3]
  BY <1>2
<1> PICK d \in Nat : d = arguments[2]
  BY <1>2
<1>4. IsFiniteSet(1..a) /\ Cardinality(1..a) = a
  <2>1. 1 \in Int /\ a \in Int /\ a - 1 + 1 = a /\ (1 > a <=> a = 0)
    OBVIOUS
  <2> QED BY <2>1, FS_Interval
<1>5. Len(taken) + Len(queue) <= Bench!AllItems
  <2> PICK f : f = PushedBy
    OBVIOUS
  <2>1. Cardinality(Counted(1..a, b, f)) <= Cardinality(1..a) * b
    BY ONLY <1>4, CountedFinite, b \in Nat
  <2>2. Len(taken) + Len(queue) = Cardinality(Counted(1..a, b, f))
    BY <1>1 DEF PushesCounted
  <2> QED BY <1>2, <1>4, <2>1, <2>2
<1>6. IsFiniteSet(Adding) /\ Cardinality(Adding) \in Nat
  <2>1. 1 \in Int /\ d \in Int
    OBVIOUS
  <2>2. IsFiniteSet(1..d)
    BY ONLY <2>1, FS_Interval
  <2>3. Adding \in SUBSET (1..d)
    BY DEF Adding
  <2>4. IsFiniteSet(Adding)
    BY ONLY <2>2, <2>3, FS_Subset
  <2> QED BY <2>4, FS_CardinalityType
<1> QED BY <1>1, <1>2, <1>3, <1>5, <1>6 DEF PopsCounted

LEMMA DequeueStep ==
  ASSUME BenchInv, NEW x \in DOMAIN consumer, Bench!Dequeue(x)
  PROVE  BenchInv'
<1>a. /\ consumer \in [1..arguments[2] -> {"dequeue", "add", "check", "done"}]
      /\ queue \in Seq(Nat) /\ taken \in Seq(Nat) /\ flushed \in 0..Len(queue)
      /\ Len(queue) \in Nat /\ Len(taken) \in Nat /\ s_count_pop \in Nat
      /\ Bench!AllItems \in Nat /\ Len(taken) + Len(queue) <= Bench!AllItems
      /\ IsFiniteSet(Adding) /\ Cardinality(Adding) \in Nat
      /\ Len(taken) = s_count_pop + Cardinality(Adding)
  BY ConsumerFacts
<1>1. /\ consumer[x] = "dequeue"
      /\ queue' = Tail(queue) /\ taken' = Append(taken, Head(queue))
      /\ flushed' = (IF flushed > 0 THEN flushed - 1 ELSE 0)
      /\ s_count_pop' = (IF Bench!kind = "mutex" THEN s_count_pop + 1 ELSE s_count_pop)
      /\ consumer' = [consumer EXCEPT ![x] = IF Bench!kind = "mutex" THEN "check" ELSE "add"]
      /\ UNCHANGED <<arguments, round, s_count_push, producer>>
  BY DEF Bench!Dequeue, Bench!kept
<1>2. Len(queue) > 0
  BY <1>a DEF Bench!Dequeue, Bench!Readable
<1>3. x \in 1..arguments[2]
  BY <1>a
<1>4. /\ queue # <<>>
      /\ Head(queue) \in Nat /\ Head(queue) = queue[1]
      /\ Tail(queue) \in Seq(Nat) /\ Len(Tail(queue)) = Len(queue) - 1
      /\ \A j \in 1..(Len(queue) - 1) : Tail(queue)[j] = queue[j + 1]
  BY <1>a, <1>2, HeadTailProperties
<1>5. /\ taken' \in Seq(Nat) /\ Len(taken') = Len(taken) + 1
      /\ taken'[Len(taken) + 1] = queue[1]
      /\ \A j \in 1..Len(taken) : taken'[j] = taken[j]
  <2> PICK l : l = taken
    OBVIOUS
  <2> PICK v : v = queue[1]
    OBVIOUS
  <2>1. taken' = Append(l, v) /\ l \in Seq(Nat) /\ v \in Nat
    BY <1>a, <1>1, <1>4
  <2> QED BY ONLY <2>1, l = taken, v = queue[1], AppendProperties
<1>6. queue' \in Seq(Nat) /\ Len(queue') = Len(queue) - 1
  BY <1>1, <1>4
<1>7. flushed' \in 0..Len(queue')
  BY <1>a, <1>1, <1>2, <1>6
<1>8. s_count_pop' \in Nat
  BY <1>a, <1>1
<1>9. consumer' \in [1..arguments[2] -> {"dequeue", "add", "check", "done"}]
  BY <1>a, <1>1
<1>10. PopsCounted'
  <2>1. CASE Bench!kind = "mutex"
    <3>1. Adding' = Adding
      BY <1>a, <1>1, <2>1 DEF Adding
    <3>2. s_count_pop' = s_count_pop + 1
      BY <1>1, <2>1
    <3>3. Len(taken') = s_count_pop' + Cardinality(Adding)
      BY <1>a, <1>5, <3>2
    <3> QED BY <3>1, <3>3 DEF PopsCounted
  <2>2. CASE Bench!kind # "mutex"
    <3>1. consumer' = [consumer EXCEPT ![x] = "add"]
      BY <1>1, <2>2
    <3>2. Adding' = Adding \cup {x} /\ x \notin Adding
      <4>1. arguments' = arguments
        BY <1>1
      <4> QED BY <1>a, <1>1, <1>3, <3>1, <4>1 DEF Adding
    <3>3. Cardinality(Adding \cup {x}) = Cardinality(Adding) + 1
      BY <1>a, <3>2, FS_AddElement
    <3>4. s_count_pop' = s_count_pop
      BY <1>1, <2>2
    <3>5. Len(taken') = s_count_pop' + Cardinality(Adding \cup {x})
      BY <1>a, <1>5, <3>3, <3>4
    <3> QED BY <3>2, <3>5 DEF PopsCounted
  <2> QED BY <2>1, <2>2
<1>11. LeftAfterLast'
  <2> SUFFICES ASSUME NEW y \in 1..arguments[2], consumer'[y] = "done" PROVE FALSE
    BY <1>1 DEF LeftAfterLast
  <2>1. consumer[y] = "done"
    BY <1>a, <1>1
  <2>2. Len(taken) = Bench!AllItems
    BY <2>1 DEF BenchInv, LeftAfterLast
  <2> QED BY <1>a, <1>2, <2>2
<1>12. Numbered(Base) => Numbered(Base)'
  <2> SUFFICES ASSUME Numbered(Base) PROVE Numbered(Base)'
    OBVIOUS
  <2> PICK base : base = Base
    OBVIOUS
  <2>b. base \in Nat /\ Base' = base
    BY <1>1 DEF Base, Bench!kind, Bench!Tests
  <2>1. \A j \in 1..Len(taken') : taken'[j] = base + j - 1
    <3> SUFFICES ASSUME NEW j \in 1..Len(taken') PROVE taken'[j] = base + j - 1
      OBVIOUS
    <3>1. CASE j \in 1..Len(taken)
      BY <1>5, <3>1 DEF Numbered
    <3>2. CASE j = Len(taken) + 1
      <4>1. 1 \in 1..Len(queue)
        BY <1>a, <1>2
      <4>2. queue[1] = base + Len(taken) + 1 - 1
        BY <4>1 DEF Numbered
      <4> PICK l \in Nat : l = Len(taken)
        BY <1>a
      <4>3. taken'[j] = base + l + 1 - 1 /\ j = l + 1
        BY <1>5, <3>2, <4>2
      <4> QED BY ONLY <2>b, <4>3
    <3>3. j \in 1..Len(taken) \/ j = Len(taken) + 1
      <4> PICK l \in Nat : l = Len(taken)
        BY <1>a
      <4>1. j \in 1..l + 1
        BY <1>5
      <4> QED BY <4>1
    <3> QED BY <3>1, <3>2, <3>3
  <2>2. \A j \in 1..Len(queue') : queue'[j] = base + Len(taken') + j - 1
    <3> SUFFICES ASSUME NEW j \in 1..Len(queue') PROVE queue'[j] = base + Len(taken') + j - 1
      OBVIOUS
    <3>1. j \in 1..(Len(queue) - 1) /\ j + 1 \in 1..Len(queue) /\ j \in Int
      BY <1>a, <1>6
    <3>2. queue'[j] = queue[j + 1]
      BY <1>1, <1>4, <3>1
    <3>3. queue[j + 1] = base + Len(taken) + (j + 1) - 1
      BY <3>1 DEF Numbered
    <3> PICK l \in Nat : l = Len(taken)
      BY <1>a
    <3>4. base + l + (j + 1) - 1 = base + (l + 1) + j - 1
      BY ONLY <2>b, <3>1
    <3>5. queue'[j] = base + (l + 1) + j - 1
      BY ONLY <3>2, <3>3, <3>4, l = Len(taken)
    <3>6. Len(taken') = l + 1
      BY <1>5
    <3> QED BY ONLY <3>5, <3>6
  <2> QED BY <2>b, <2>1, <2>2 DEF Numbered
<1>13. Len(taken') + Len(queue') = Len(taken) + Len(queue)
  <2> PICK l \in Nat, m \in Nat : l = Len(taken) /\ m = Len(queue)
    BY <1>a
  <2>1. Len(taken') = l + 1 /\ Len(queue') = m - 1
    BY <1>5, <1>6
  <2> QED BY <2>1
<1> QED BY <1>1, <1>5, <1>6, <1>7, <1>8, <1>9, <1>10, <1>11, <1>12, <1>13, ConsumerMoves

\* The other steps of a consumer leave the queue alone.
LEMMA ConsumerCounts ==
  ASSUME BenchInv, UNCHANGED <<arguments, round, s_count_push, producer, queue, flushed, taken>>,
         s_count_pop' \in Nat,
         consumer' \in [1..arguments[2] -> {"dequeue", "add", "check", "done"}],
         Len(taken) = s_count_pop' + Cardinality(Adding'),
         (\E y \in 1..arguments[2] : consumer'[y] = "done") => Len(taken) = Bench!AllItems
  PROVE  BenchInv'
<1>1. /\ queue' = queue /\ taken' = taken /\ flushed' = flushed /\ arguments' = arguments
      /\ round' = round
  OBVIOUS
<1>2. queue' \in Seq(Nat) /\ taken' \in Seq(Nat) /\ flushed' \in 0..Len(queue')
  BY <1>1, ConsumerFacts
<1>3. PopsCounted'
  BY <1>1 DEF PopsCounted
<1>4. LeftAfterLast'
  BY <1>1 DEF LeftAfterLast, Bench!AllItems, Bench!s_queue_item_num,
         Bench!s_producer_thread_num
<1>5. Base' = Base
  BY <1>1 DEF Base, Bench!kind, Bench!Tests
<1>6. Numbered(Base) => Numbered(Base)'
  BY <1>1, <1>5 DEF Numbered
<1>7. Len(taken') + Len(queue') = Len(taken) + Len(queue)
  BY <1>1
<1> QED BY <1>2, <1>3, <1>4, <1>6, <1>7, ConsumerMoves

LEMMA ConsumerStep ==
  ASSUME BenchInv, NEW x \in DOMAIN consumer, Bench!Consumer(x)
  PROVE  BenchInv'
<1>a. /\ consumer \in [1..arguments[2] -> {"dequeue", "add", "check", "done"}]
      /\ Len(queue) \in Nat /\ Len(taken) \in Nat /\ s_count_pop \in Nat
      /\ Bench!AllItems \in Nat /\ Len(taken) + Len(queue) <= Bench!AllItems
      /\ IsFiniteSet(Adding) /\ Cardinality(Adding) \in Nat
      /\ Len(taken) = s_count_pop + Cardinality(Adding)
      /\ x \in 1..arguments[2]
  BY ConsumerFacts
<1>l. (\E y \in 1..arguments[2] : consumer[y] = "done") => Len(taken) = Bench!AllItems
  BY DEF BenchInv, LeftAfterLast
<1>1. CASE Bench!Dequeue(x)
  BY <1>1, DequeueStep
<1>2. CASE Bench!NoData(x)
  <2>1. /\ consumer[x] = "dequeue" /\ consumer' = [consumer EXCEPT ![x] = "check"]
        /\ s_count_pop' = s_count_pop /\ arguments' = arguments
        /\ UNCHANGED <<arguments, round, s_count_push, producer, queue, flushed, taken>>
    BY <1>2 DEF Bench!NoData, Bench!kept
  <2>2. Adding' = Adding
    BY <1>a, <2>1 DEF Adding
  <2>3. consumer' \in [1..arguments[2] -> {"dequeue", "add", "check", "done"}]
    BY <1>a, <2>1
  <2>4. (\E y \in 1..arguments[2] : consumer'[y] = "done") => Len(taken) = Bench!AllItems
    BY <1>a, <1>l, <2>1
  <2> QED BY <1>a, <2>1, <2>2, <2>3, <2>4, ConsumerCounts
<1>3. CASE Bench!AddPop(x)
  <2>1. /\ consumer[x] = "add" /\ consumer' = [consumer EXCEPT ![x] = "check"]
        /\ s_count_pop' = s_count_pop + 1 /\ arguments' = arguments
        /\ UNCHANGED <<arguments, round, s_count_push, producer, queue, flushed, taken>>
    BY <1>3 DEF Bench!AddPop, Bench!kept
  <2>2. Adding' = Adding \ {x} /\ x \in Adding
    BY <1>a, <2>1 DEF Adding
  <2>3. Cardinality(Adding \ {x}) = Cardinality(Adding) - 1
    BY <1>a, <2>2, FS_RemoveElement
  <2>4. Len(taken) = s_count_pop' + Cardinality(Adding')
    BY <1>a, <2>1, <2>2, <2>3
  <2>5. consumer' \in [1..arguments[2] -> {"dequeue", "add", "check", "done"}]
    BY <1>a, <2>1
  <2>6. (\E y \in 1..arguments[2] : consumer'[y] = "done") => Len(taken) = Bench!AllItems
    BY <1>a, <1>l, <2>1
  <2>7. s_count_pop' \in Nat
    BY <1>a, <2>1
  <2> QED BY <2>1, <2>4, <2>5, <2>6, <2>7, ConsumerCounts
<1>4. CASE Bench!Check(x)
  <2>1. /\ consumer[x] = "check"
        /\ consumer' = [consumer EXCEPT ![x] = IF s_count_pop >= Bench!AllItems THEN "done"
                                               ELSE "dequeue"]
        /\ s_count_pop' = s_count_pop /\ arguments' = arguments
        /\ UNCHANGED <<arguments, round, s_count_push, producer, queue, flushed, taken>>
    BY <1>4 DEF Bench!Check, Bench!kept
  <2>2. Adding' = Adding
    BY <1>a, <2>1 DEF Adding
  <2>3. consumer' \in [1..arguments[2] -> {"dequeue", "add", "check", "done"}]
    BY <1>a, <2>1
  <2>4. ASSUME NEW y \in 1..arguments[2], consumer'[y] = "done"
        PROVE  Len(taken) = Bench!AllItems
    <3>1. CASE y = x
      <4>1. s_count_pop >= Bench!AllItems
        BY <1>a, <2>1, <2>4, <3>1
      <4> QED BY <1>a, <4>1
    <3>2. CASE y # x
      <4>1. consumer[y] = "done"
        BY <1>a, <2>1, <2>4, <3>2
      <4> QED BY <1>l, <4>1
    <3> QED BY <3>1, <3>2
  <2> QED BY <1>a, <2>1, <2>2, <2>3, <2>4, ConsumerCounts
<1> QED BY <1>1, <1>2, <1>3, <1>4 DEF Bench!Consumer

LEMMA ProducerStep ==
  ASSUME BenchInv, NEW w \in DOMAIN producer, Bench!Producer(w)
  PROVE  BenchInv'
BY MutexPushStep, AddPushStep, ReadPushStep, EnqueueStep, FlushStep DEF Bench!Producer

\* When all threads are joined everything was pushed, counted and taken.
LEMMA JoinedFacts ==
  ASSUME BenchInv, Bench!Joined
  PROVE  /\ queue = <<>> /\ Len(taken) = Bench!AllItems
         /\ s_count_push = Len(taken) /\ s_count_pop = Len(taken)
<1>a. /\ consumer \in [1..arguments[2] -> {"dequeue", "add", "check", "done"}]
      /\ arguments[2] \in Nat \ {0} /\ queue \in Seq(Nat)
      /\ Len(queue) \in Nat /\ Len(taken) \in Nat /\ s_count_pop \in Nat
      /\ Bench!AllItems \in Nat /\ Len(taken) + Len(queue) <= Bench!AllItems
      /\ Len(taken) = s_count_pop + Cardinality(Adding)
  BY ConsumerFacts
<1>1. \A y \in 1..arguments[2] : consumer[y] = "done"
  BY <1>a DEF Bench!Joined
<1>2. Len(taken) = Bench!AllItems
  <2>1. 1 \in 1..arguments[2]
    BY <1>a
  <2> QED BY <1>1, <2>1 DEF BenchInv, LeftAfterLast
<1>3. queue = <<>>
  BY <1>a, <1>2
<1>4. s_count_pop = Len(taken)
  <2>1. Adding = {}
    BY <1>1 DEF Adding
  <2> QED BY <1>a, <2>1, FS_EmptySet
<1>5. s_count_push = Len(taken)
  <2>1. ASSUME NEW x \in 1..arguments[1] PROVE AddedBy[x] = PushedBy[x]
    <3> PICK r : r = producer[x]
      OBVIOUS
    <3>1. r.at = "done" /\ r.i \in Nat
      BY DEF Bench!Joined, BenchInv, BenchTypes
    <3>2. Added(Bench!kind, r) = r.i
      BY <3>1 DEF Added
    <3> QED BY <3>2 DEF AddedBy, PushedBy
  <2>2. Counted(1..arguments[1], arguments[3], AddedBy)
          = Counted(1..arguments[1], arguments[3], PushedBy)
    BY <2>1, CountedSame
  <2>3. s_count_push = Len(taken) + Len(queue)
    BY <2>2 DEF BenchInv, PushesCounted, AddsCounted
  <2> QED BY <1>a, <1>3, <2>3
<1> QED BY <1>2, <1>3, <1>4, <1>5

LEMMA NextTestStep ==
  ASSUME BenchInv, Bench!NextTest
  PROVE  BenchInv'
<1>1. /\ Bench!Joined /\ round < Bench!LastRound /\ round' = round + 1
      /\ s_count_push' = 0 /\ s_count_pop' = 0 /\ taken' = <<>>
      /\ producer' = Bench!NewProducers(Bench!Tests[round + 1])
      /\ consumer' = Bench!NewConsumers
      /\ arguments' = arguments /\ queue' = queue /\ flushed' = flushed
  BY DEF Bench!NextTest
<1>2. queue = <<>> /\ Len(queue) = 0
  BY <1>1, JoinedFacts
<1>3. arguments \in Arguments /\ round \in 1..6 /\ flushed \in 0..Len(queue)
  BY DEF BenchInv, BenchTypes
<1>4. flushed = 0
  BY <1>2, <1>3
<1>5. round' \in 1..6
  BY <1>1, <1>3 DEF Bench!LastRound
<1>6. Bench!kind' = Bench!Tests[round + 1]
  BY <1>1 DEF Bench!kind, Bench!Tests
<1>7. producer' = Bench!NewProducers(Bench!kind)'
  <2>1. \A k, i : Bench!Loop(k, i)' = Bench!Loop(k, i)
    BY <1>1 DEF Bench!Loop, Bench!Items, Bench!s_queue_item_num
  <2>2. Bench!NewProducers(Bench!kind)' =
          [w \in 1..arguments[1] |-> [at |-> Bench!Loop(Bench!Tests[round + 1], 0),
                                      i |-> 0, count |-> 0]]
    BY <1>1, <1>6, <2>1 DEF Bench!NewProducers, Bench!s_producer_thread_num
  <2> QED BY <1>1, <2>2 DEF Bench!NewProducers, Bench!s_producer_thread_num
<1>8. consumer' = Bench!NewConsumers'
  BY <1>1 DEF Bench!NewConsumers, Bench!s_consumer_thread_num
<1>9. FreshState'
  BY <1>1, <1>2, <1>3, <1>4, <1>5, <1>7, <1>8 DEF FreshState
<1> QED BY <1>9, FreshNext

LEMMA BenchStep == BenchInv /\ Bench!Next => BenchInv'
<1> SUFFICES ASSUME BenchInv, Bench!Next PROVE BenchInv'
  OBVIOUS
<1>1. ASSUME NEW w \in DOMAIN producer, Bench!Producer(w) PROVE BenchInv'
  BY <1>1, ProducerStep
<1>2. ASSUME NEW x \in DOMAIN consumer, Bench!Consumer(x) PROVE BenchInv'
  BY <1>2, ConsumerStep
<1>3. CASE Bench!DivideByZero \/ Bench!Finish
  <2>1. UNCHANGED <<arguments, round, queue, flushed, s_count_push, s_count_pop, producer,
                    consumer, taken>>
    BY <1>3 DEF Bench!DivideByZero, Bench!Finish
  <2> QED BY <2>1, BenchFrame
<1>4. CASE Bench!NextTest
  BY <1>4, NextTestStep
<1> QED BY <1>1, <1>2, <1>3, <1>4 DEF Bench!Next, Bench!Main

\* The invariant says what the run checks of the benchmark.
LEMMA BenchSafe == BenchInv => Bench!LeavesAfterLast /\ Bench!NumbersInOrder
<1> SUFFICES ASSUME BenchInv PROVE Bench!LeavesAfterLast /\ Bench!NumbersInOrder
  OBVIOUS
<1>1. Bench!LeavesAfterLast
  <2>1. (\E y \in DOMAIN consumer : consumer[y] = "done") => Len(taken) = Bench!AllItems
    <3>1. DOMAIN consumer = 1..arguments[2]
      BY ConsumerFacts
    <3> QED BY <3>1 DEF BenchInv, LeftAfterLast
  <2>2. Bench!Joined => queue = <<>> /\ s_count_push = Bench!AllItems
                                     /\ s_count_pop = Bench!AllItems
    BY JoinedFacts
  <2> QED BY <2>1, <2>2 DEF Bench!LeavesAfterLast
<1>2. Bench!NumbersInOrder
  <2> PICK base : base = Base
    OBVIOUS
  <2> PICK all : all = taken \o queue
    OBVIOUS
  <2>1. base \in Nat /\ base = IF Bench!kind \in {"block", "lockfree"} THEN 1 ELSE 0
    BY DEF Base, NumberFirst
  <2>2. /\ queue \in Seq(Nat) /\ taken \in Seq(Nat)
        /\ Len(queue) \in Nat /\ Len(taken) \in Nat
    BY ConsumerFacts
  <2>3. /\ all \in Seq(Nat) /\ Len(all) = Len(taken) + Len(queue)
        /\ \A i \in 1..(Len(taken) + Len(queue)) :
             all[i] = IF i <= Len(taken) THEN taken[i] ELSE queue[i - Len(taken)]
    BY <2>2, ConcatProperties
  <2>4. ASSUME Bench!kind = "mutex" \/ arguments[1] = 1, NEW i \in DOMAIN all
        PROVE  all[i] = base + i - 1
    <3>1. /\ \A j \in 1..Len(taken) : taken[j] = base + j - 1
          /\ \A j \in 1..Len(queue) : queue[j] = base + Len(taken) + j - 1
      BY <2>4 DEF BenchInv, InOrder, Numbered
    <3>2. i \in 1..(Len(taken) + Len(queue))
      BY <2>3, <2>4
    <3>3. CASE i <= Len(taken)
      BY <2>2, <2>3, <3>1, <3>2, <3>3
    <3>4. CASE i > Len(taken)
      <4>1. i - Len(taken) \in 1..Len(queue)
        BY <2>2, <3>2, <3>4
      <4>2. all[i] = queue[i - Len(taken)]
        BY <2>2, <2>3, <3>2, <3>4
      <4>3. queue[i - Len(taken)] = base + Len(taken) + (i - Len(taken)) - 1
        BY <3>1, <4>1
      <4>4. base + Len(taken) + (i - Len(taken)) - 1 = base + i - 1
        BY <2>1, <2>2, <3>2
      <4> QED BY <4>2, <4>3, <4>4
    <3> QED BY <2>2, <3>2, <3>3, <3>4
  <2> QED BY <2>1, <2>4 DEF Bench!NumbersInOrder, Bench!s_producer_thread_num
<1> QED BY <1>1, <1>2

-----------------------------------------------------------------------------
(* The threads of the log: the start of a thread.                            *)

Threads == INSTANCE LogThreads WITH
  Threads <- Starters, main <- mainAt, taken <- share

LEMMA ThreadsCardinality == \A S : Threads!Cardinality(S) = Cardinality(S)
BY DEF Threads!Cardinality, Cardinality

StartTypes ==
  /\ object \in [Starters -> {"none", "made", "started", "joined", "destroyed"}]
  /\ tid_ \in [Starters -> {0} \cup Starters] /\ count_ \in [Starters -> {0, 1}]
  /\ owner \in [Starters -> {0, 100} \cup Starters] /\ holder_ = owner
  /\ runner \in [Starters -> {"none", "tid", "countDown", "notify", "unlock", "run", "ended"}]
  /\ mainAt[1] \in {"choose", "latch", "count", "assert"}
  /\ mainAt[1] # "choose" => mainAt[2] \in Starters

\* What the latch and the id of a thread are, by the place of the thread and of main;
\* when start has returned the thread is past its latch.
StartOk(t) ==
  /\ runner[t] = "none" <=> object[t] \in {"none", "made"}
  /\ count_[t] = IF runner[t] \in {"none", "tid", "countDown"} THEN 1 ELSE 0
  /\ tid_[t] = IF runner[t] \in {"none", "tid"} THEN 0 ELSE t
  /\ owner[t] = IF runner[t] \in {"notify", "unlock"} THEN t
                ELSE IF mainAt[1] = "count" /\ mainAt[2] = t THEN 0 ELSE 100
  /\ mainAt[1] = "count" /\ mainAt[2] = t => runner[t] \notin {"notify", "unlock"}
  /\ mainAt[1] # "choose" /\ mainAt[2] = t => object[t] = "started"
  /\ object[t] \in {"started", "joined", "destroyed"} =>
       \/ runner[t] \in {"run", "ended"}
       \/ mainAt[1] \in {"latch", "count"} /\ mainAt[2] = t

StartInv == /\ StartTypes
            /\ \A t \in Starters : StartOk(t)
            /\ aborted => \E t \in Starters : object[t] = "made"

LEMMA StartInitInv == Threads!Init => StartInv
<1> SUFFICES ASSUME Threads!Init PROVE StartInv
  OBVIOUS
<1>1. /\ object = [t \in Starters |-> "none"] /\ tid_ = [t \in Starters |-> 0]
      /\ count_ = [t \in Starters |-> 1] /\ owner = [t \in Starters |-> 100]
      /\ holder_ = [t \in Starters |-> 100] /\ runner = [t \in Starters |-> "none"]
      /\ mainAt[1] = "choose" /\ aborted = FALSE
  BY DEF Threads!Init, Threads!Nobody
<1>2. StartTypes
  BY <1>1 DEF StartTypes
<1>3. \A t \in Starters : StartOk(t)
  BY <1>1 DEF StartOk
<1> QED BY <1>1, <1>2, <1>3 DEF StartInv

\* Main's own steps.
LEMMA StartMainStep ==
  ASSUME StartInv, ~aborted,
         \/ \E t \in Starters : Threads!Start(t) \/ Threads!Join(t) \/ Threads!Destroy(t)
         \/ Threads!EnterLatch \/ Threads!CheckCount \/ Threads!Started
  PROVE  StartInv'
<1>a. StartTypes /\ \A t \in Starters : StartOk(t)
  BY DEF StartInv
<1>s. 0 \notin Starters /\ 100 \notin Starters
  BY ThreadsAssumption
<1>1. ASSUME NEW t \in Starters, Threads!Start(t) PROVE StartInv'
  <2>1. /\ mainAt[1] = "choose" /\ object[t] = "none"
        /\ UNCHANGED <<tid_, count_, holder_, owner>>
    BY <1>1 DEF Threads!Start, Threads!latches
  <2>2. CASE /\ object' = [object EXCEPT ![t] = "started"]
             /\ runner' = [runner EXCEPT ![t] = "tid"] /\ mainAt' = <<"latch", t>>
             /\ UNCHANGED aborted
    <3>1. /\ object'[t] = "started" /\ runner'[t] = "tid"
          /\ mainAt'[1] = "latch" /\ mainAt'[2] = t /\ runner[t] = "none"
          /\ \A u \in Starters : u # t => object'[u] = object[u] /\ runner'[u] = runner[u]
      BY <1>a, <2>1, <2>2 DEF StartTypes, StartOk
    <3>2. StartTypes'
      BY <1>a, <2>1, <2>2, <3>1 DEF StartTypes
    <3>3. StartOk(t)'
      BY <1>a, <2>1, <3>1 DEF StartOk
    <3>4. ASSUME NEW u \in Starters, u # t PROVE StartOk(u)'
      BY <1>a, <2>1, <3>1, <3>4 DEF StartOk
    <3>5. aborted' = FALSE
      BY <2>2
    <3> QED BY <3>2, <3>3, <3>4, <3>5 DEF StartInv
  <2>3. CASE /\ object' = [object EXCEPT ![t] = "made"] /\ aborted' = TRUE
             /\ UNCHANGED <<runner, mainAt>>
    <3>1. /\ object'[t] = "made" /\ runner' = runner /\ mainAt' = mainAt
          /\ \A u \in Starters : u # t => object'[u] = object[u]
      BY <1>a, <2>3 DEF StartTypes
    <3>2. StartTypes'
      BY <1>a, <2>1, <2>3, <3>1 DEF StartTypes
    <3>3. StartOk(t)'
      BY <1>a, <2>1, <3>1 DEF StartOk
    <3>4. ASSUME NEW u \in Starters, u # t PROVE StartOk(u)'
      BY <1>a, <2>1, <3>1, <3>4 DEF StartOk
    <3> QED BY <3>1, <3>2, <3>3, <3>4 DEF StartInv
  <2> QED BY <1>1, <2>2, <2>3 DEF Threads!Start
<1>2. ASSUME NEW t \in Starters, Threads!Join(t) \/ Threads!Destroy(t) PROVE StartInv'
  <2>1. /\ mainAt[1] = "choose" /\ object[t] \in {"started", "joined"}
        /\ UNCHANGED <<tid_, count_, holder_, owner, mainAt, runner>>
        /\ \/ object' = [object EXCEPT ![t] = "joined"] /\ aborted' = aborted
           \/ /\ object' = [object EXCEPT ![t] = "destroyed"]
              /\ aborted' = (holder_[t] # 100)
    BY <1>2 DEF Threads!Join, Threads!Destroy, Threads!latches, Threads!Nobody
  <2>2. /\ object'[t] \in {"joined", "destroyed"}
        /\ \A u \in Starters : u # t => object'[u] = object[u]
    BY <1>a, <2>1 DEF StartTypes
  <2>3. runner[t] \in {"run", "ended"}
    BY <1>a, <2>1 DEF StartOk
  <2>4. holder_[t] = 100
    BY <1>a, <2>1, <2>3 DEF StartOk, StartTypes
  <2>5. ~aborted'
    BY <2>1, <2>4
  <2>6. StartTypes'
    BY <1>a, <2>1 DEF StartTypes
  <2>7. StartOk(t)'
    BY <1>a, <2>1, <2>2, <2>3 DEF StartOk
  <2>8. ASSUME NEW u \in Starters, u # t PROVE StartOk(u)'
    BY <1>a, <2>1, <2>2, <2>8 DEF StartOk
  <2> QED BY <2>5, <2>6, <2>7, <2>8 DEF StartInv
<1>3. CASE Threads!EnterLatch
  <2> PICK t : t = mainAt[2]
    OBVIOUS
  <2>1. /\ mainAt[1] = "latch" /\ owner[t] = 100
        /\ owner' = [owner EXCEPT ![t] = 0] /\ holder_' = [holder_ EXCEPT ![t] = 0]
        /\ mainAt' = <<"count", t>>
        /\ UNCHANGED <<object, tid_, count_, runner, aborted>>
    BY <1>3 DEF Threads!EnterLatch, Threads!Lock, Threads!Main, Threads!Nobody
  <2>2. t \in Starters /\ mainAt'[1] = "count" /\ mainAt'[2] = t
    BY <1>a, <2>1 DEF StartTypes
  <2>3. owner'[t] = 0 /\ \A u \in Starters : u # t => owner'[u] = owner[u]
    BY <1>a, <2>1, <2>2 DEF StartTypes
  <2>4. StartTypes'
    BY <1>a, <2>1, <2>2 DEF StartTypes
  <2>5. runner[t] \notin {"notify", "unlock"}
    BY <1>a, <1>s, <2>1, <2>2 DEF StartOk
  <2>6. StartOk(t)'
    BY <1>a, <2>1, <2>2, <2>3, <2>5 DEF StartOk
  <2>7. ASSUME NEW u \in Starters, u # t PROVE StartOk(u)'
    BY <1>a, <2>1, <2>2, <2>3, <2>7 DEF StartOk
  <2> QED BY <2>1, <2>4, <2>6, <2>7 DEF StartInv
<1>4. CASE Threads!CheckCount
  <2> PICK t : t = mainAt[2]
    OBVIOUS
  <2>1. /\ mainAt[1] = "count"
        /\ owner' = [owner EXCEPT ![t] = 100] /\ holder_' = [holder_ EXCEPT ![t] = 100]
        /\ mainAt' = IF count_[t] > 0 THEN <<"latch", t>> ELSE <<"assert", t>>
        /\ UNCHANGED <<object, tid_, count_, runner, aborted>>
    BY <1>4 DEF Threads!CheckCount, Threads!Unlock, Threads!Nobody
  <2>2. t \in Starters /\ mainAt'[2] = t
        /\ mainAt'[1] = IF count_[t] > 0 THEN "latch" ELSE "assert"
    BY <1>a, <2>1 DEF StartTypes
  <2>3. owner'[t] = 100 /\ \A u \in Starters : u # t => owner'[u] = owner[u]
    BY <1>a, <2>1, <2>2 DEF StartTypes
  <2>4. StartTypes'
    BY <1>a, <2>1, <2>2 DEF StartTypes
  <2>5. /\ runner[t] \notin {"notify", "unlock", "none"} /\ object[t] = "started"
        /\ ~(count_[t] > 0) => runner[t] \in {"run", "ended"}
    <3>1. runner[t] \notin {"notify", "unlock"} /\ object[t] = "started"
      BY <1>a, <2>1, <2>2 DEF StartOk
    <3>2. runner[t] # "none"
      BY <1>a, <2>2, <3>1 DEF StartOk
    <3>3. runner[t] \in {"tid", "countDown", "run", "ended"}
      BY <1>a, <2>2, <3>1, <3>2 DEF StartTypes
    <3>4. runner[t] \in {"tid", "countDown"} => count_[t] = 1
      BY <1>a, <2>2 DEF StartOk
    <3> QED BY <3>1, <3>2, <3>3, <3>4
  <2>6. StartOk(t)'
    BY <1>a, <2>1, <2>2, <2>3, <2>5 DEF StartOk
  <2>7. ASSUME NEW u \in Starters, u # t PROVE StartOk(u)'
    BY <1>a, <2>1, <2>2, <2>3, <2>7 DEF StartOk
  <2> QED BY <2>1, <2>4, <2>6, <2>7 DEF StartInv
<1>5. CASE Threads!Started
  <2> PICK t : t = mainAt[2]
    OBVIOUS
  <2>1. /\ mainAt[1] = "assert" /\ mainAt' = <<"choose", 100>>
        /\ aborted' = (tid_[t] = 0)
        /\ UNCHANGED <<object, tid_, count_, holder_, owner, runner>>
    BY <1>5 DEF Threads!Started, Threads!latches, Threads!Nobody
  <2>2. t \in Starters /\ mainAt'[1] = "choose"
    BY <1>a, <2>1 DEF StartTypes
  <2>3. object[t] = "started" /\ runner[t] \in {"run", "ended"}
    BY <1>a, <2>1, <2>2 DEF StartOk
  <2>4. aborted' = FALSE
    <3>1. tid_[t] = t
      BY <1>a, <2>2, <2>3 DEF StartOk
    <3> QED BY <1>s, <2>1, <2>2, <3>1
  <2>5. StartTypes'
    BY <1>a, <2>1, <2>2 DEF StartTypes
  <2>6. ASSUME NEW u \in Starters PROVE StartOk(u)'
    BY <1>a, <2>1, <2>2, <2>3 DEF StartOk
  <2> QED BY <2>4, <2>5, <2>6 DEF StartInv
<1> QED BY <1>1, <1>2, <1>3, <1>4, <1>5

\* The steps of a thread on its way through runInThread and the latch.
LEMMA StartRunnerStep ==
  ASSUME StartInv, ~aborted, NEW t \in Starters,
         Threads!SetTid(t) \/ Threads!CountDown(t) \/ Threads!NotifyAll(t) \/ Threads!Leave(t)
           \/ Threads!End(t)
  PROVE  StartInv'
<1>a. StartTypes /\ \A u \in Starters : StartOk(u)
  BY DEF StartInv
<1>s. 0 \notin Starters /\ 100 \notin Starters /\ t # 0 /\ t # 100
  BY ThreadsAssumption
<1>b. UNCHANGED <<object, mainAt, aborted>>
  BY DEF Threads!SetTid, Threads!CountDown, Threads!NotifyAll, Threads!Leave, Threads!End,
         Threads!queue, Threads!latches
<1>c. ~aborted'
  BY <1>b
<1>1. CASE Threads!SetTid(t)
  <2>1. /\ runner[t] = "tid" /\ runner' = [runner EXCEPT ![t] = "countDown"]
        /\ tid_' = [tid_ EXCEPT ![t] = t] /\ UNCHANGED <<count_, holder_, owner>>
    BY <1>1 DEF Threads!SetTid, Threads!At
  <2>2. /\ runner'[t] = "countDown" /\ tid_'[t] = t
        /\ \A u \in Starters : u # t => runner'[u] = runner[u] /\ tid_'[u] = tid_[u]
    BY <1>a, <2>1 DEF StartTypes
  <2>3. StartTypes'
    BY <1>a, <1>b, <2>1 DEF StartTypes
  <2>4. StartOk(t)'
    BY <1>a, <1>b, <2>1, <2>2 DEF StartOk
  <2>5. ASSUME NEW u \in Starters, u # t PROVE StartOk(u)'
    BY <1>a, <1>b, <2>1, <2>2, <2>5 DEF StartOk
  <2> QED BY <1>c, <2>3, <2>4, <2>5 DEF StartInv
<1>2. CASE Threads!CountDown(t)
  <2>1. /\ runner[t] = "countDown" /\ runner' = [runner EXCEPT ![t] = "notify"]
        /\ owner[t] = 100
        /\ owner' = [owner EXCEPT ![t] = t] /\ holder_' = [holder_ EXCEPT ![t] = t]
        /\ count_' = [count_ EXCEPT ![t] = @ - 1] /\ UNCHANGED tid_
    BY <1>2 DEF Threads!CountDown, Threads!At, Threads!Lock, Threads!Nobody
  <2>2. count_[t] = 1 /\ ~(mainAt[1] = "count" /\ mainAt[2] = t)
    BY <1>a, <1>s, <2>1 DEF StartOk
  <2>3. /\ runner'[t] = "notify" /\ owner'[t] = t /\ count_'[t] = 0
        /\ \A u \in Starters : u # t => /\ runner'[u] = runner[u] /\ owner'[u] = owner[u]
                                        /\ count_'[u] = count_[u]
    BY <1>a, <2>1, <2>2 DEF StartTypes
  <2>4. StartTypes'
    BY <1>a, <1>b, <2>1, <2>2 DEF StartTypes
  <2>5. StartOk(t)'
    BY <1>a, <1>b, <2>1, <2>2, <2>3 DEF StartOk
  <2>6. ASSUME NEW u \in Starters, u # t PROVE StartOk(u)'
    BY <1>a, <1>b, <2>1, <2>3, <2>6 DEF StartOk
  <2> QED BY <1>c, <2>4, <2>5, <2>6 DEF StartInv
<1>3. CASE Threads!NotifyAll(t)
  <2>1. /\ runner[t] = "notify" /\ runner' = [runner EXCEPT ![t] = "unlock"]
        /\ UNCHANGED <<count_, holder_, owner, tid_>>
    BY <1>3 DEF Threads!NotifyAll, Threads!At
  <2>2. /\ runner'[t] = "unlock"
        /\ \A u \in Starters : u # t => runner'[u] = runner[u]
    BY <1>a, <2>1 DEF StartTypes
  <2>3. StartTypes'
    BY <1>a, <1>b, <2>1 DEF StartTypes
  <2>4. StartOk(t)'
    BY <1>a, <1>b, <2>1, <2>2 DEF StartOk
  <2>5. ASSUME NEW u \in Starters, u # t PROVE StartOk(u)'
    BY <1>a, <1>b, <2>1, <2>2, <2>5 DEF StartOk
  <2> QED BY <1>c, <2>3, <2>4, <2>5 DEF StartInv
<1>4. CASE Threads!Leave(t)
  <2>1. /\ runner[t] = "unlock" /\ runner' = [runner EXCEPT ![t] = "run"]
        /\ owner' = [owner EXCEPT ![t] = 100] /\ holder_' = [holder_ EXCEPT ![t] = 100]
        /\ UNCHANGED <<count_, tid_>>
    BY <1>4 DEF Threads!Leave, Threads!At, Threads!Unlock, Threads!Nobody
  <2>2. ~(mainAt[1] = "count" /\ mainAt[2] = t)
    BY <1>a, <2>1 DEF StartOk
  <2>3. /\ runner'[t] = "run" /\ owner'[t] = 100
        /\ \A u \in Starters : u # t => runner'[u] = runner[u] /\ owner'[u] = owner[u]
    BY <1>a, <2>1 DEF StartTypes
  <2>4. StartTypes'
    BY <1>a, <1>b, <2>1 DEF StartTypes
  <2>5. StartOk(t)'
    BY <1>a, <1>b, <2>1, <2>2, <2>3 DEF StartOk
  <2>6. ASSUME NEW u \in Starters, u # t PROVE StartOk(u)'
    BY <1>a, <1>b, <2>1, <2>3, <2>6 DEF StartOk
  <2> QED BY <1>c, <2>4, <2>5, <2>6 DEF StartInv
<1>5. CASE Threads!End(t)
  <2>1. /\ runner[t] = "run" /\ runner' = [runner EXCEPT ![t] = "ended"]
        /\ UNCHANGED <<count_, holder_, owner, tid_>>
    BY <1>5 DEF Threads!End, Threads!At, Threads!latches
  <2>2. /\ runner'[t] = "ended"
        /\ \A u \in Starters : u # t => runner'[u] = runner[u]
    BY <1>a, <2>1 DEF StartTypes
  <2>3. StartTypes'
    BY <1>a, <1>b, <2>1 DEF StartTypes
  <2>4. StartOk(t)'
    BY <1>a, <1>b, <2>1, <2>2 DEF StartOk
  <2>5. ASSUME NEW u \in Starters, u # t PROVE StartOk(u)'
    BY <1>a, <1>b, <2>1, <2>2, <2>5 DEF StartOk
  <2> QED BY <1>c, <2>3, <2>4, <2>5 DEF StartInv
<1> QED BY <1>1, <1>2, <1>3, <1>4, <1>5

LEMMA StartFrame ==
  ASSUME StartInv, UNCHANGED <<object, tid_, count_, holder_, owner, mainAt, runner, aborted>>
  PROVE  StartInv'
<1>1. StartTypes'
  BY DEF StartInv, StartTypes
<1>2. ASSUME NEW t \in Starters PROVE StartOk(t)'
  BY DEF StartInv, StartOk
<1> QED BY <1>1, <1>2 DEF StartInv

LEMMA StartStep == StartInv /\ Threads!Next => StartInv'
<1> SUFFICES ASSUME StartInv, Threads!Next PROVE StartInv'
  OBVIOUS
<1>0. ~aborted
  BY DEF Threads!Next
<1>1. CASE Threads!MainStep \/ \E t \in Starters : Threads!Destroy(t)
  <2>1. CASE Threads!Put
    BY <2>1, StartFrame DEF Threads!Put, Threads!latches
  <2>2. CASE ~Threads!Put
    BY <1>0, <1>1, <2>2, StartMainStep DEF Threads!MainStep
  <2> QED BY <2>1, <2>2
<1>2. CASE Threads!Spurious \/ \E t \in Starters : Threads!SpuriousTake(t) \/ Threads!Take(t)
  BY <1>2, StartFrame DEF Threads!Spurious, Threads!SpuriousTake, Threads!Take,
         Threads!latches
<1>3. ASSUME NEW t \in Starters, Threads!Runner(t) PROVE StartInv'
  <2>1. CASE Threads!Take(t)
    BY <1>2, <2>1
  <2>2. CASE ~Threads!Take(t)
    BY <1>0, <1>3, <2>2, StartRunnerStep DEF Threads!Runner
  <2> QED BY <2>1, <2>2
<1> QED BY <1>1, <1>2, <1>3 DEF Threads!Next

LEMMA StartSafe == StartInv => Threads!ThreadsStartSafely
<1> SUFFICES ASSUME StartInv PROVE Threads!ThreadsStartSafely
  OBVIOUS
<1>1. ASSUME NEW t \in Starters, object[t] \in {"joined", "destroyed"}
      PROVE  runner[t] \in {"run", "ended"}
  <2>1. StartOk(t)
    BY DEF StartInv
  <2> QED BY <1>1, <2>1 DEF StartOk
<1>2. holder_ = owner
  BY DEF StartInv, StartTypes
<1> QED BY <1>1, <1>2 DEF StartInv, Threads!ThreadsStartSafely

-----------------------------------------------------------------------------
(* The threads of the log: the queue of items.                               *)

\* The threads that still come for an item without being notified.
Awake == {t \in Starters \ sleepers : Len(share[t]) < Share}

ItemsTypes ==
  /\ sleepers \subseteq Starters /\ share \in [Starters -> Seq(Nat)]
  /\ order \in Seq(Nat) /\ queue_ \in Seq(Nat) /\ put \in Nat
  /\ DOMAIN runner = Starters

\* The items are their numbers, those that were taken before those in the queue.
ItemsNumbered ==
  /\ Len(order) + Len(queue_) = put
  /\ \A j \in 1..Len(order) : order[j] = j
  /\ \A j \in 1..Len(queue_) : queue_[j] = Len(order) + j

\* A thread sleeps only before its last item, and while one does, those that are awake are
\* enough for the items.
EnoughAwake ==
  /\ \A t \in sleepers : runner[t] = "run" /\ Len(share[t]) < Share
  /\ \A t \in Starters : runner[t] = "ended" => Len(share[t]) = Share
  /\ sleepers # {} => Len(queue_) <= Cardinality(Awake)

ItemsInv == ItemsTypes /\ ItemsNumbered /\ EnoughAwake

LEMMA ItemsInitInv == Threads!Init => ItemsInv
<1> SUFFICES ASSUME Threads!Init PROVE ItemsInv
  OBVIOUS
<1>1. /\ queue_ = <<>> /\ sleepers = {} /\ put = 0 /\ order = <<>>
      /\ share = [t \in Starters |-> <<>>] /\ runner = [t \in Starters |-> "none"]
  BY DEF Threads!Init
<1>2. ItemsTypes
  BY <1>1 DEF ItemsTypes
<1>3. ItemsNumbered
  BY <1>1 DEF ItemsNumbered
<1>4. EnoughAwake
  BY <1>1 DEF EnoughAwake
<1> QED BY <1>2, <1>3, <1>4 DEF ItemsInv

LEMMA AwakeFinite ==
  ASSUME ItemsInv
  PROVE  /\ IsFiniteSet(Awake) /\ Cardinality(Awake) \in Nat
         /\ Len(queue_) \in Nat /\ Len(order) \in Nat
         /\ \A t \in Starters : Len(share[t]) \in Nat
<1>1. Awake \in SUBSET Starters
  BY DEF Awake
<1>2. IsFiniteSet(Awake)
  BY <1>1, ThreadsAssumption, FS_Subset
<1>3. Cardinality(Awake) \in Nat
  BY <1>2, FS_CardinalityType
<1> QED BY <1>2, <1>3 DEF ItemsInv, ItemsTypes

LEMMA PutStep ==
  ASSUME ItemsInv, Threads!Put
  PROVE  ItemsInv'
<1>a. ItemsTypes /\ ItemsNumbered /\ EnoughAwake
  BY DEF ItemsInv
<1>f. /\ IsFiniteSet(Awake) /\ Cardinality(Awake) \in Nat
      /\ Len(queue_) \in Nat /\ Len(order) \in Nat
  BY AwakeFinite
<1>1. /\ put' = put + 1 /\ queue_' = Append(queue_, put')
      /\ order' = order /\ share' = share /\ runner' = runner
      /\ \/ sleepers = {} /\ sleepers' = sleepers
         \/ \E t \in sleepers : sleepers' = sleepers \ {t}
  BY DEF Threads!Put
<1>2. put' \in Nat
  BY <1>a, <1>1 DEF ItemsTypes
<1>3. /\ queue_' \in Seq(Nat) /\ Len(queue_') = Len(queue_) + 1
      /\ queue_'[Len(queue_) + 1] = put'
      /\ \A j \in 1..Len(queue_) : queue_'[j] = queue_[j]
  BY <1>a, <1>1, <1>2, AppendProperties DEF ItemsTypes
<1>4. ItemsTypes'
  BY <1>a, <1>1, <1>2, <1>3 DEF ItemsTypes
<1>5. ItemsNumbered'
  <2>1. Len(order') + Len(queue_') = put'
    BY <1>a, <1>1, <1>3, <1>f DEF ItemsNumbered
  <2>2. \A j \in 1..Len(queue_') : queue_'[j] = Len(order') + j
    <3> SUFFICES ASSUME NEW j \in 1..Len(queue_') PROVE queue_'[j] = Len(order) + j
      BY <1>1
    <3>1. CASE j \in 1..Len(queue_)
      BY <1>a, <1>3, <3>1 DEF ItemsNumbered
    <3>2. CASE j = Len(queue_) + 1
      BY <1>1, <1>3, <2>1, <3>2, <1>f
    <3> QED BY <1>3, <1>f, <3>1, <3>2
  <2> QED BY <1>a, <1>1, <2>1, <2>2 DEF ItemsNumbered
<1>6. EnoughAwake'
  <2>1. /\ \A t \in sleepers' : runner'[t] = "run" /\ Len(share'[t]) < Share
        /\ \A t \in Starters : runner'[t] = "ended" => Len(share'[t]) = Share
    BY <1>a, <1>1 DEF EnoughAwake
  <2>2. CASE sleepers' = {}
    BY <2>1, <2>2 DEF EnoughAwake
  <2>3. ASSUME NEW t \in sleepers, sleepers' = sleepers \ {t}
        PROVE  Len(queue_') <= Cardinality(Awake')
    <3>1. Awake' = Awake \cup {t} /\ t \notin Awake
      BY <1>a, <1>1, <2>3 DEF Awake, EnoughAwake, ItemsTypes
    <3>2. Cardinality(Awake \cup {t}) = Cardinality(Awake) + 1
      BY <1>f, <3>1, FS_AddElement
    <3>3. Len(queue_) <= Cardinality(Awake)
      BY <1>a, <2>3 DEF EnoughAwake
    <3> QED BY <1>3, <1>f, <3>1, <3>2, <3>3
  <2> QED BY <1>1, <2>1, <2>2, <2>3 DEF EnoughAwake
<1> QED BY <1>4, <1>5, <1>6 DEF ItemsInv

LEMMA TakeStep ==
  ASSUME ItemsInv, NEW t \in Starters, Threads!Take(t)
  PROVE  ItemsInv'
<1>a. ItemsTypes /\ ItemsNumbered /\ EnoughAwake
  BY DEF ItemsInv
<1>f. /\ IsFiniteSet(Awake) /\ Cardinality(Awake) \in Nat
      /\ Len(queue_) \in Nat /\ Len(order) \in Nat
      /\ \A u \in Starters : Len(share[u]) \in Nat
  BY AwakeFinite
<1>1. /\ runner[t] = "run" /\ t \notin sleepers /\ Len(share[t]) < Share
      /\ put' = put /\ runner' = runner
  BY DEF Threads!Take
<1>2. CASE queue_ = <<>>
  <2>1. sleepers' = sleepers \cup {t} /\ queue_' = queue_ /\ share' = share /\ order' = order
    BY <1>2 DEF Threads!Take
  <2>2. ItemsTypes'
    BY <1>a, <1>1, <2>1 DEF ItemsTypes
  <2>3. ItemsNumbered'
    BY <1>a, <1>1, <2>1 DEF ItemsNumbered
  <2>4. Len(queue_') = 0
    BY <1>2, <2>1
  <2>5. Cardinality(Awake') \in Nat
    <3>1. Awake' = Awake \ {t}
      BY <1>a, <2>1 DEF Awake
    <3> QED BY <1>f, <3>1, FS_RemoveElement, FS_CardinalityType
  <2>6. EnoughAwake'
    BY <1>a, <1>1, <2>1, <2>4, <2>5 DEF EnoughAwake
  <2> QED BY <2>2, <2>3, <2>6 DEF ItemsInv
<1>3. CASE queue_ # <<>>
  <2> PICK first : first = Head(queue_)
    OBVIOUS
  <2>1. /\ share' = [share EXCEPT ![t] = Append(@, first)]
        /\ order' = Append(order, first) /\ queue_' = Tail(queue_)
        /\ sleepers' = sleepers
    BY <1>3 DEF Threads!Take
  <2>2. /\ first \in Nat /\ first = queue_[1] /\ Len(queue_) > 0
        /\ queue_' \in Seq(Nat) /\ Len(queue_') = Len(queue_) - 1
        /\ \A j \in 1..(Len(queue_) - 1) : queue_'[j] = queue_[j + 1]
    <3>1. queue_ \in Seq(Nat)
      BY <1>a DEF ItemsTypes
    <3>2. Len(queue_) > 0
      BY <1>3, <3>1
    <3> QED BY <1>3, <2>1, <3>1, <3>2, HeadTailProperties
  <2>3. /\ order' \in Seq(Nat) /\ Len(order') = Len(order) + 1
        /\ order'[Len(order) + 1] = first
        /\ \A j \in 1..Len(order) : order'[j] = order[j]
    BY <1>a, <2>1, <2>2, AppendProperties DEF ItemsTypes
  <2>4. /\ share' \in [Starters -> Seq(Nat)] /\ Len(share'[t]) = Len(share[t]) + 1
        /\ \A u \in Starters : u # t => share'[u] = share[u]
    <3>1. share \in [Starters -> Seq(Nat)] /\ share[t] \in Seq(Nat)
      BY <1>a DEF ItemsTypes
    <3>2. Append(share[t], first) \in Seq(Nat)
          /\ Len(Append(share[t], first)) = Len(share[t]) + 1
      BY <2>2, <3>1, AppendProperties
    <3>3. share' = [share EXCEPT ![t] = Append(share[t], first)]
      BY <2>1
    <3> QED BY ONLY <3>1, <3>2, <3>3, t \in Starters
  <2>5. ItemsTypes'
    BY <1>a, <1>1, <2>1, <2>2, <2>3, <2>4 DEF ItemsTypes
  <2>6. ItemsNumbered'
    <3>1. first = Len(order) + 1
      BY <1>a, <1>f, <2>2 DEF ItemsNumbered
    <3>2. Len(order') + Len(queue_') = put'
      BY <1>a, <1>1, <1>f, <2>2, <2>3 DEF ItemsNumbered
    <3>3. \A j \in 1..Len(order') : order'[j] = j
      <4> SUFFICES ASSUME NEW j \in 1..Len(order') PROVE order'[j] = j
        OBVIOUS
      <4>1. CASE j \in 1..Len(order)
        BY <1>a, <2>3, <4>1 DEF ItemsNumbered
      <4>2. CASE j = Len(order) + 1
        BY <2>3, <3>1, <4>2
      <4> QED BY <1>f, <2>3, <4>1, <4>2
    <3>4. \A j \in 1..Len(queue_') : queue_'[j] = Len(order') + j
      <4> SUFFICES ASSUME NEW j \in 1..Len(queue_') PROVE queue_'[j] = Len(order') + j
        OBVIOUS
      <4>1. j \in 1..(Len(queue_) - 1) /\ j + 1 \in 1..Len(queue_) /\ j \in Int
        BY <1>f, <2>2
      <4>2. queue_'[j] = queue_[j + 1]
        BY <2>2, <4>1
      <4>3. queue_[j + 1] = Len(order) + (j + 1)
        BY <1>a, <4>1 DEF ItemsNumbered
      <4> PICK l \in Nat : l = Len(order)
        BY <1>f
      <4>4. l + (j + 1) = (l + 1) + j
        BY ONLY <4>1, l \in Nat
      <4>5. queue_'[j] = (l + 1) + j
        BY ONLY <4>2, <4>3, <4>4, l = Len(order)
      <4>6. Len(order') = l + 1
        BY <2>3
      <4> QED BY ONLY <4>5, <4>6
    <3> QED BY <3>2, <3>3, <3>4 DEF ItemsNumbered
  <2>7. EnoughAwake'
    <3>1. \A u \in sleepers' : runner'[u] = "run" /\ Len(share'[u]) < Share
      BY <1>a, <1>1, <2>1, <2>4 DEF EnoughAwake, ItemsTypes
    <3>2. \A u \in Starters : runner'[u] = "ended" => Len(share'[u]) = Share
      BY <1>a, <1>1, <2>4 DEF EnoughAwake
    <3>3. ASSUME sleepers # {} PROVE Len(queue_') <= Cardinality(Awake')
      <4>1. Len(queue_) <= Cardinality(Awake)
        BY <1>a, <3>3 DEF EnoughAwake
      <4>2. Awake' = Awake \/ Awake' = Awake \ {t}
        BY <1>a, <1>1, <2>1, <2>4 DEF Awake, ItemsTypes
      <4>3. t \in Awake
        BY <1>1 DEF Awake
      <4>4. Cardinality(Awake \ {t}) = Cardinality(Awake) - 1
        BY <1>f, <4>3, FS_RemoveElement
      <4>5. Cardinality(Awake') >= Cardinality(Awake) - 1
        <5>1. CASE Awake' = Awake
          BY <1>f, <5>1
        <5>2. CASE Awake' = Awake \ {t}
          BY <1>f, <4>4, <5>2
        <5> QED BY <4>2, <5>1, <5>2
      <4>6. Cardinality(Awake') \in Nat
        BY <1>f, <4>2, FS_RemoveElement, FS_CardinalityType
      <4> QED BY <1>f, <2>2, <4>1, <4>5, <4>6
    <3> QED BY <2>1, <3>1, <3>2, <3>3 DEF EnoughAwake
  <2> QED BY <2>5, <2>6, <2>7 DEF ItemsInv
<1> QED BY <1>2, <1>3

LEMMA SpuriousTakeStep ==
  ASSUME ItemsInv, NEW t \in Starters, Threads!SpuriousTake(t)
  PROVE  ItemsInv'
<1>a. ItemsTypes /\ ItemsNumbered /\ EnoughAwake
  BY DEF ItemsInv
<1>f. /\ IsFiniteSet(Awake) /\ Cardinality(Awake) \in Nat /\ Len(queue_) \in Nat
  BY AwakeFinite
<1>1. /\ t \in sleepers /\ sleepers' = sleepers \ {t}
      /\ queue_' = queue_ /\ share' = share /\ order' = order /\ put' = put
      /\ runner' = runner
  BY DEF Threads!SpuriousTake
<1>2. ItemsTypes'
  BY <1>a, <1>1 DEF ItemsTypes
<1>3. ItemsNumbered'
  BY <1>a, <1>1 DEF ItemsNumbered
<1>4. Awake' = Awake \cup {t} /\ t \notin Awake
  BY <1>a, <1>1 DEF Awake, EnoughAwake, ItemsTypes
<1>5. Cardinality(Awake \cup {t}) = Cardinality(Awake) + 1
  BY <1>f, <1>4, FS_AddElement
<1>6. Len(queue_') <= Cardinality(Awake')
  BY <1>a, <1>1, <1>f, <1>4, <1>5 DEF EnoughAwake
<1>7. EnoughAwake'
  BY <1>a, <1>1, <1>6 DEF EnoughAwake
<1> QED BY <1>2, <1>3, <1>7 DEF ItemsInv

\* The steps that leave the queue alone: they change at most the place of a thread, which
\* ends only with its share.
LEMMA ItemsFrame ==
  ASSUME ItemsInv, UNCHANGED <<queue_, sleepers, put, share, order>>,
         \/ runner' = runner
         \/ \E t \in Starters \ sleepers : \E place :
              /\ runner' = [runner EXCEPT ![t] = place]
              /\ place = "ended" => Len(share[t]) = Share
  PROVE  ItemsInv'
<1>a. ItemsTypes /\ ItemsNumbered /\ EnoughAwake
  BY DEF ItemsInv
<1>1. /\ queue_' = queue_ /\ share' = share /\ order' = order /\ put' = put
      /\ sleepers' = sleepers
  OBVIOUS
<1>2. ItemsTypes'
  BY <1>a, <1>1 DEF ItemsTypes
<1>3. ItemsNumbered'
  BY <1>a, <1>1 DEF ItemsNumbered
<1>4. Awake' = Awake
  BY <1>1 DEF Awake
<1>5. /\ \A t \in sleepers : runner'[t] = runner[t]
      /\ \A t \in Starters :
           runner'[t] = runner[t] \/ (runner'[t] = "ended" => Len(share[t]) = Share)
  BY <1>a DEF ItemsTypes
<1>6. EnoughAwake'
  BY <1>a, <1>1, <1>4, <1>5 DEF EnoughAwake
<1> QED BY <1>2, <1>3, <1>6 DEF ItemsInv

LEMMA ItemsStep == StartInv /\ ItemsInv /\ Threads!Next => ItemsInv'
<1> SUFFICES ASSUME StartInv, ItemsInv, Threads!Next PROVE ItemsInv'
  OBVIOUS
<1>r. \A t \in Starters : runner[t] # "run" => t \notin sleepers
  BY DEF ItemsInv, EnoughAwake
<1>1. CASE Threads!Put
  BY <1>1, PutStep
<1>2. ASSUME NEW t \in Starters, Threads!Take(t) \/ Threads!SpuriousTake(t) PROVE ItemsInv'
  BY <1>2, TakeStep, SpuriousTakeStep
<1>3. CASE Threads!EnterLatch \/ Threads!CheckCount \/ Threads!Started \/ Threads!Spurious
  <2>1. UNCHANGED <<queue_, sleepers, put, share, order, runner>>
    BY <1>3 DEF Threads!EnterLatch, Threads!CheckCount, Threads!Started, Threads!Spurious,
                Threads!queue
  <2> QED BY <2>1, ItemsFrame
<1>4. ASSUME NEW t \in Starters, Threads!Join(t) \/ Threads!Destroy(t) PROVE ItemsInv'
  <2>1. UNCHANGED <<queue_, sleepers, put, share, order, runner>>
    BY <1>4 DEF Threads!Join, Threads!Destroy, Threads!queue
  <2> QED BY <2>1, ItemsFrame
<1>5. ASSUME NEW t \in Starters, Threads!Start(t) PROVE ItemsInv'
  <2>1. UNCHANGED <<queue_, sleepers, put, share, order>>
    BY <1>5 DEF Threads!Start, Threads!queue
  <2>2. runner' = runner \/ runner' = [runner EXCEPT ![t] = "tid"]
    BY <1>5 DEF Threads!Start
  <2>3. t \notin sleepers
    <3>1. object[t] = "none"
      BY <1>5 DEF Threads!Start
    <3>2. runner[t] = "none"
      BY <3>1 DEF StartInv, StartOk
    <3> QED BY <1>r, <3>2
  <2> QED BY <2>1, <2>2, <2>3, ItemsFrame
<1>6. ASSUME NEW t \in Starters,
             Threads!SetTid(t) \/ Threads!CountDown(t) \/ Threads!NotifyAll(t) \/ Threads!Leave(t)
      PROVE  ItemsInv'
  <2>1. UNCHANGED <<queue_, sleepers, put, share, order>>
    BY <1>6 DEF Threads!SetTid, Threads!CountDown, Threads!NotifyAll, Threads!Leave,
           Threads!queue
  <2>2. PICK place : /\ runner' = [runner EXCEPT ![t] = place] /\ runner[t] # "run"
                     /\ place # "ended"
    <3>1. \/ runner[t] = "tid" /\ runner' = [runner EXCEPT ![t] = "countDown"]
          \/ runner[t] = "countDown" /\ runner' = [runner EXCEPT ![t] = "notify"]
          \/ runner[t] = "notify" /\ runner' = [runner EXCEPT ![t] = "unlock"]
          \/ runner[t] = "unlock" /\ runner' = [runner EXCEPT ![t] = "run"]
      BY <1>6 DEF Threads!SetTid, Threads!CountDown, Threads!NotifyAll, Threads!Leave,
             Threads!At
    <3> QED BY <3>1
  <2> QED BY <1>r, <2>1, <2>2, ItemsFrame
<1>7. ASSUME NEW t \in Starters, Threads!End(t) PROVE ItemsInv'
  <2>1. UNCHANGED <<queue_, sleepers, put, share, order>>
    BY <1>7 DEF Threads!End, Threads!queue
  <2>2. /\ runner' = [runner EXCEPT ![t] = "ended"] /\ Len(share[t]) = Share
    BY <1>7 DEF Threads!End, Threads!At
  <2>3. t \notin sleepers
    BY <2>2, ThreadsAssumption DEF ItemsInv, EnoughAwake
  <2> QED BY <2>1, <2>2, <2>3, ItemsFrame
<1> QED BY <1>1, <1>2, <1>3, <1>4, <1>5, <1>6, <1>7
        DEF Threads!Next, Threads!MainStep, Threads!Runner

LEMMA ItemsSafe == ItemsInv => Threads!ItemsInOrder
<1> SUFFICES ASSUME ItemsInv PROVE Threads!ItemsInOrder
  OBVIOUS
<1>a. ItemsTypes /\ ItemsNumbered /\ EnoughAwake
  BY DEF ItemsInv
<1>f. /\ IsFiniteSet(Awake) /\ Cardinality(Awake) \in Nat
      /\ Len(queue_) \in Nat /\ Len(order) \in Nat
  BY AwakeFinite
<1> PICK all : all = order \o queue_
  OBVIOUS
<1>1. all = [i \in 1..put |-> i]
  <2>1. order \in Seq(Nat) /\ queue_ \in Seq(Nat)
    BY <1>a DEF ItemsTypes
  <2>2. /\ all \in Seq(Nat) /\ Len(all) = Len(order) + Len(queue_)
        /\ \A i \in 1..(Len(order) + Len(queue_)) :
             all[i] = IF i <= Len(order) THEN order[i] ELSE queue_[i - Len(order)]
    BY <2>1, ConcatProperties
  <2>3. Len(all) = put
    BY <1>a, <2>2 DEF ItemsNumbered
  <2>4. ASSUME NEW i \in 1..put PROVE all[i] = i
    <3>1. i \in 1..(Len(order) + Len(queue_))
      BY <2>2, <2>3
    <3>2. CASE i <= Len(order)
      BY <1>a, <1>f, <2>2, <3>1, <3>2 DEF ItemsNumbered
    <3>3. CASE i > Len(order)
      <4>1. i - Len(order) \in 1..Len(queue_)
        BY <1>f, <3>1, <3>3
      <4>2. all[i] = queue_[i - Len(order)]
        BY <1>f, <2>2, <3>1, <3>3
      <4>3. queue_[i - Len(order)] = Len(order) + (i - Len(order))
        BY <1>a, <4>1 DEF ItemsNumbered
      <4>4. Len(order) + (i - Len(order)) = i
        BY <1>f, <3>1
      <4> QED BY <4>2, <4>3, <4>4
    <3> QED BY <1>f, <3>1, <3>2, <3>3
  <2>5. all \in [1..put -> Nat]
    <3>1. all \in [1..Len(all) -> Nat]
      BY <2>2, LenProperties
    <3> QED BY <2>3, <3>1
  <2> QED BY <2>4, <2>5
<1>2. ASSUME sleepers # {}
      PROVE  Len(queue_) <= Threads!Cardinality({t \in Starters \ sleepers : runner[t] # "ended"})
  <2> PICK others : others = {t \in Starters \ sleepers : runner[t] # "ended"}
    OBVIOUS
  <2>1. Awake \in SUBSET others
    BY <1>a, ThreadsAssumption DEF Awake, EnoughAwake
  <2>2. IsFiniteSet(others)
    <3>1. others \in SUBSET Starters
      OBVIOUS
    <3> QED BY <3>1, ThreadsAssumption, FS_Subset
  <2>3. Cardinality(Awake) <= Cardinality(others) /\ Cardinality(others) \in Nat
    BY <2>1, <2>2, FS_Subset, FS_CardinalityType
  <2>4. Len(queue_) <= Cardinality(Awake)
    BY <1>2, <1>a DEF EnoughAwake
  <2> QED BY <1>f, <2>3, <2>4, ThreadsCardinality
<1> QED BY <1>1, <1>2 DEF Threads!ItemsInOrder

-----------------------------------------------------------------------------
(* The pool test (test_ThreadPool.cpp): its thread pool and the connection pool   *)
(* that its jobs use.                                                        *)

Test == INSTANCE RedisPoolTest WITH crashed <- fault

Running == {w \in Workers : worker[w] = "job"}

\* Main is beyond the closing of the pool exactly if pool_close is set, and then the
\* queue is empty; it has freed the pool when all workers are gone.
MainPlace ==
  /\ pool_close <=> main \in {"join", "freed"}
  /\ pool_close => queue_cur_num = 0
  /\ main = "freed" => \A w \in Workers : worker[w] = "exit"
  /\ deleted => main = "freed"

\* A job that was accepted is in the queue, with a worker or over.
JobsCounted ==
  /\ IsFiniteSet(Running)
  /\ accepted = ran + queue_cur_num + Cardinality(Running)
  /\ accepted + toAdd <= Jobs

\* Only a worker with a job is in the connection pool, and it has a connection between
\* GetCacheConn and RelCacheConn.
ClientPlace ==
  /\ \A w \in Workers : client[w] # "out" => worker[w] = "job"
  /\ \A w \in Workers : pConn[w] # 0 <=> client[w] \in {"holding", "used"}

\* Connections are numbered as they are made.
ConnsNumbered ==
  /\ m_free_list \in Seq(Test!Conns)
  /\ ~deleted => \A c \in Test!Conns : c > m_cur_conn_cnt => m_pContext[c] = "none"

TestInv == /\ Test!TypeOK /\ MainPlace /\ JobsCounted /\ ClientPlace /\ ConnsNumbered
        /\ Test!ConnsAccounted

-----------------------------------------------------------------------------
(* The first state.                                                          *)

LEMMA TestInitInv == Test!Init => TestInv
<1> SUFFICES ASSUME Test!Init PROVE TestInv
  OBVIOUS
<1> USE DEF Test!Init, Test!PoolInit, Test!CacheInit
<1> DEFINE n == MIN_CACHE_CONN_CNT
<1>1. n \in Nat /\ Test!MaxConns \in Nat /\ n <= Test!MaxConns
  BY TestAssumption DEF Test!MaxConns
<1>2. /\ m_free_list = [i \in 1..n |-> i] /\ DOMAIN m_free_list = 1..n
      /\ \A i \in 1..n : m_free_list[i] = i /\ i \in Test!Conns
  BY <1>1 DEF Test!Conns
<1>3. m_free_list \in Seq(Test!Conns)
  BY <1>1, <1>2
<1>4. Test!TypeOK
  <2>1. Test!PoolTypeOK
    <3>1. /\ queue_cur_num \in 0..queue_max_num /\ toAdd \in 0..Jobs
          /\ accepted \in 0..Jobs /\ ran \in 0..accepted
      BY TestAssumption
    <3>2. worker \in [Workers -> {"lock", "wait", "job", "exit"}]
      OBVIOUS
    <3> QED BY <3>1, <3>2 DEF Test!PoolTypeOK
  <2>2. Test!CacheTypeOK
    <3>1. m_pContext \in [Test!Conns -> {"none", "ready", "half"}]
      OBVIOUS
    <3>2. client \in [Workers -> {"out", "wait", "holding", "used"}]
      OBVIOUS
    <3>3. pConn \in [Workers -> 0..Test!MaxConns] /\ m_cur_conn_cnt \in 0..Test!MaxConns
      BY <1>1
    <3>4. \A i \in DOMAIN m_free_list : m_free_list[i] \in Test!Conns
      BY ONLY <1>2
    <3>5. m_free_notify \subseteq Workers /\ fault \in BOOLEAN
      OBVIOUS
    <3> QED BY ONLY <3>1, <3>2, <3>3, <3>4, <3>5 DEF Test!CacheTypeOK
  <2> QED BY <2>1, <2>2 DEF Test!TypeOK
<1>5. MainPlace
  BY DEF MainPlace
<1>6. JobsCounted
  <2>1. Running = {}
    BY DEF Running
  <2>2. IsFiniteSet(Running) /\ Cardinality(Running) = 0
    BY <2>1, FS_EmptySet
  <2> QED BY <2>2, TestAssumption DEF JobsCounted
<1>7. ClientPlace
  BY DEF ClientPlace
<1>8. ConnsNumbered
  <2>1. \A c \in Test!Conns : c > n => m_pContext[c] = "none"
    BY <1>1 DEF Test!Conns
  <2> QED BY <1>3, <2>1 DEF ConnsNumbered
<1>9. Test!ConnsAccounted
  <2>1. Test!IsInjective(m_free_list)
    BY <1>2 DEF Test!IsInjective
  <2>2. Test!Held = {} /\ Test!Idle = 1..n
    BY <1>2 DEF Test!Held, Test!Idle
  <2> QED BY <2>1, <2>2 DEF Test!ConnsAccounted
<1> QED BY <1>4, <1>5, <1>6, <1>7, <1>8, <1>9 DEF TestInv

-----------------------------------------------------------------------------
(* The thread pool.                                                          *)

\* Steps of the thread pool change no connection.
LEMMA CacheFrame ==
  ASSUME UNCHANGED <<Test!cacheVars, deleted>>, Test!CacheTypeOK, ConnsNumbered, Test!ConnsAccounted
  PROVE  Test!CacheTypeOK' /\ ConnsNumbered' /\ Test!ConnsAccounted'
<1>1. UNCHANGED <<m_free_list, m_cur_conn_cnt, m_pContext, m_free_notify, client, pConn, fault,
                  deleted>>
  BY DEF Test!cacheVars
<1>2. Test!CacheTypeOK'
  BY <1>1 DEF Test!CacheTypeOK
<1>3. ConnsNumbered'
  BY <1>1 DEF ConnsNumbered
<1>4. Test!ConnsAccounted'
  BY <1>1 DEF Test!ConnsAccounted, Test!Idle, Test!Held
<1> QED BY <1>2, <1>3, <1>4

\* A worker takes a job, or is done with one.
LEMMA RunningStep ==
  ASSUME Test!PoolTypeOK, IsFiniteSet(Running), NEW w \in Workers, NEW to,
         worker' = [worker EXCEPT ![w] = to]
  PROVE  /\ IsFiniteSet(Running') /\ Cardinality(Running) \in Nat
         /\ worker[w] # "job" /\ to # "job" => Cardinality(Running') = Cardinality(Running)
         /\ worker[w] # "job" /\ to = "job" => Cardinality(Running') = Cardinality(Running) + 1
         /\ worker[w] = "job" /\ to # "job" =>
              /\ Cardinality(Running') = Cardinality(Running) - 1
              /\ Cardinality(Running) > 0
<1>1. /\ to = "job" => Running' = Running \union {w}
      /\ to # "job" => Running' = Running \ {w}
      /\ worker[w] = "job" <=> w \in Running
  BY DEF Test!PoolTypeOK, Running
<1>2. IsFiniteSet(Running \union {w}) /\ IsFiniteSet(Running \ {w})
  BY FS_AddElement, FS_RemoveElement
<1>3. /\ Cardinality(Running) \in Nat
      /\ w \in Running => Cardinality(Running) # 0
  BY FS_CardinalityType, FS_EmptySet
<1>4. /\ w \notin Running => /\ Cardinality(Running \union {w}) = Cardinality(Running) + 1
                            /\ Running \ {w} = Running
      /\ w \in Running => Cardinality(Running \ {w}) = Cardinality(Running) - 1
  BY FS_AddElement, FS_RemoveElement
<1>5. CASE to = "job"
  BY <1>1, <1>2, <1>3, <1>4, <1>5
<1>6. CASE to # "job" /\ w \in Running
  BY <1>1, <1>2, <1>3, <1>4, <1>6
<1>7. CASE to # "job" /\ w \notin Running
  BY <1>1, <1>2, <1>3, <1>4, <1>7
<1> QED BY <1>5, <1>6, <1>7

\* A step of main in the thread pool.
LEMMA PoolMainInv ==
  ASSUME TestInv, Test!PoolMain, Test!PoolOnly
  PROVE  TestInv'
<1>0. /\ Test!PoolTypeOK /\ MainPlace /\ JobsCounted /\ ClientPlace
      /\ UNCHANGED <<Test!cacheVars, deleted>>
      /\ Test!CacheTypeOK' /\ ConnsNumbered' /\ Test!ConnsAccounted' /\ deleted' \in BOOLEAN
  BY CacheFrame DEF TestInv, Test!TypeOK, Test!PoolOnly
<1>1. UNCHANGED <<worker, ran, deleted, client, pConn>> /\ Running' = Running
  BY <1>0 DEF Test!PoolMain, Test!WaitForRoom, Test!AddJob, Test!Drain, Test!Close,
     Test!Free, Test!cacheVars, Running
<1>2. Cardinality(Running) \in Nat
  BY <1>0, FS_CardinalityType DEF JobsCounted
<1>3. Test!PoolTypeOK'
  <2>1. accepted + toAdd <= Jobs /\ Jobs \in Nat /\ queue_max_num \in Nat
    BY <1>0, TestAssumption DEF JobsCounted
  <2>2. CASE Test!AddJob
    <3>1. /\ queue_cur_num' \in 0..queue_max_num /\ toAdd' \in 0..Jobs
          /\ accepted' \in 0..Jobs /\ ran' \in 0..accepted'
      BY <1>0, <1>1, <2>1, <2>2 DEF Test!PoolTypeOK, Test!AddJob
    <3> QED BY <1>0, <1>1, <2>2, <3>1 DEF Test!PoolTypeOK, Test!AddJob
  <2>3. CASE Test!WaitForRoom \/ Test!Drain \/ Test!Close \/ Test!Free
    BY <1>0, <1>1, <2>3 DEF Test!PoolTypeOK, Test!WaitForRoom, Test!Drain, Test!Close,
           Test!Free
  <2> QED BY <2>2, <2>3 DEF Test!PoolMain
<1>4. MainPlace'
  BY <1>0, <1>1 DEF Test!PoolTypeOK, MainPlace, Test!PoolMain, Test!WaitForRoom,
     Test!AddJob, Test!Drain, Test!Close, Test!Free
<1>5. JobsCounted'
  BY <1>0, <1>1, <1>2, TestAssumption
     DEF Test!PoolTypeOK, JobsCounted, Test!PoolMain, Test!WaitForRoom, Test!AddJob,
         Test!Drain, Test!Close, Test!Free
<1>6. ClientPlace'
  BY <1>0, <1>1 DEF ClientPlace
<1> QED BY <1>0, <1>3, <1>4, <1>5, <1>6, TestAssumption DEF TestInv, Test!TypeOK

\* A step of a worker in the thread pool.
LEMMA PoolWorkerInv ==
  ASSUME TestInv, NEW w \in Workers, Test!PoolWorker(w), Test!PoolOnly
  PROVE  TestInv'
<1>0. /\ Test!PoolTypeOK /\ MainPlace /\ JobsCounted /\ ClientPlace
      /\ UNCHANGED <<Test!cacheVars, deleted>>
      /\ Test!CacheTypeOK' /\ ConnsNumbered' /\ Test!ConnsAccounted' /\ deleted' \in BOOLEAN
  BY CacheFrame DEF TestInv, Test!TypeOK, Test!PoolOnly
<1>1. /\ UNCHANGED <<pool_close, main, toAdd, accepted, ran, deleted, client, pConn>>
      /\ worker[w] \in {"lock", "wait"}
  BY <1>0 DEF Test!PoolWorker, Test!WaitForJob, Test!Take, Test!Exit, Test!Awake,
         Test!cacheVars
<1>2. PICK to \in {"wait", "job", "exit"} : worker' = [worker EXCEPT ![w] = to]
  BY DEF Test!PoolWorker, Test!WaitForJob, Test!Take, Test!Exit
<1>3. worker'[w] = to /\ \A v \in Workers : v # w => worker'[v] = worker[v]
  BY <1>0, <1>2 DEF Test!PoolTypeOK
<1>4. Test!PoolTypeOK'
  BY <1>0, <1>1, TestAssumption
     DEF Test!PoolTypeOK, Test!PoolWorker, Test!WaitForJob, Test!Take, Test!Exit
<1>5. main # "freed"
  BY <1>0, <1>1 DEF MainPlace
<1>6. MainPlace'
  BY <1>0, <1>1, <1>5 DEF MainPlace, Test!PoolWorker, Test!WaitForJob, Test!Take, Test!Exit
<1>7. JobsCounted'
  <2>1. /\ IsFiniteSet(Running') /\ Cardinality(Running) \in Nat
        /\ to # "job" => Cardinality(Running') = Cardinality(Running)
        /\ to = "job" => Cardinality(Running') = Cardinality(Running) + 1
    BY <1>0, <1>1, <1>2, RunningStep DEF JobsCounted
  <2>2. CASE Test!Take(w)
    <3>1. to = "job" /\ queue_cur_num' = queue_cur_num - 1
      BY <1>3, <2>2, <1>0 DEF Test!Take, Test!PoolTypeOK
    <3> QED BY <1>0, <1>1, <2>1, <3>1 DEF JobsCounted, Test!PoolTypeOK
  <2>3. CASE Test!WaitForJob(w) \/ Test!Exit(w)
    <3>1. to # "job" /\ queue_cur_num' = queue_cur_num
      BY <1>3, <2>3, <1>0 DEF Test!WaitForJob, Test!Exit, Test!PoolTypeOK
    <3> QED BY <1>0, <1>1, <2>1, <3>1 DEF JobsCounted, Test!PoolTypeOK
  <2> QED BY <2>2, <2>3 DEF Test!PoolWorker
<1>8. ClientPlace'
  BY <1>0, <1>1, <1>3 DEF ClientPlace
<1> QED BY <1>0, <1>4, <1>6, <1>7, <1>8, TestAssumption DEF TestInv, Test!TypeOK

\* Wakeups without reason.
LEMMA SpuriousInv ==
  ASSUME TestInv, Test!Spurious
  PROVE  TestInv'
<1>1. /\ UNCHANGED <<queue_cur_num, queue_close, pool_close, worker, main, toAdd, accepted, ran,
                     m_free_list, m_cur_conn_cnt, m_pContext, client, pConn, fault, deleted>>
      /\ queue_empty' \in BOOLEAN /\ queue_not_full' \in BOOLEAN
      /\ queue_not_empty' \subseteq Workers /\ m_free_notify' \subseteq Workers
  BY DEF TestInv, Test!TypeOK, Test!PoolTypeOK, Test!CacheTypeOK, Test!Spurious,
         Test!PoolSpurious, Test!PoolOnly, Test!CacheSpurious, Test!cacheVars, Test!poolVars
<1>2. Test!TypeOK'
  BY <1>1, TestAssumption DEF TestInv, Test!TypeOK, Test!PoolTypeOK, Test!CacheTypeOK
<1>3. MainPlace' /\ JobsCounted' /\ ClientPlace'
  BY <1>1 DEF TestInv, MainPlace, JobsCounted, ClientPlace, Running
<1>4. ConnsNumbered' /\ Test!ConnsAccounted'
  BY <1>1 DEF TestInv, ConnsNumbered, Test!ConnsAccounted, Test!Idle, Test!Held
<1> QED BY <1>2, <1>3, <1>4 DEF TestInv

-----------------------------------------------------------------------------
(* The connection pool.                                                      *)

\* What a job does in the connection pool the thread pool does not notice.
LEMMA PoolFrame ==
  ASSUME Test!PoolTypeOK, MainPlace, JobsCounted, UNCHANGED <<Test!poolVars, deleted>>
  PROVE  Test!PoolTypeOK' /\ MainPlace' /\ JobsCounted'
<1>1. UNCHANGED <<queue_cur_num, queue_close, pool_close, queue_empty, queue_not_empty,
                  queue_not_full, worker, main, toAdd, accepted, ran, deleted>>
  BY DEF Test!poolVars
<1> QED BY <1>1, TestAssumption DEF Test!PoolTypeOK, MainPlace, JobsCounted, Running

\* What the invariant says of the connections while the pool is there.
LEMMA ConnFacts ==
  ASSUME TestInv, ~deleted
  PROVE  /\ Len(m_free_list) \in Nat /\ DOMAIN m_free_list = 1..Len(m_free_list)
         /\ \A i \in 1..Len(m_free_list) : /\ m_free_list[i] \in 1..m_cur_conn_cnt
                                           /\ m_free_list[i] \in Test!Conns
         /\ \A i, j \in 1..Len(m_free_list) : m_free_list[i] = m_free_list[j] => i = j
         /\ \A w \in Workers : pConn[w] # 0 =>
              /\ pConn[w] \in 1..m_cur_conn_cnt /\ pConn[w] \in Test!Conns
              /\ \A i \in 1..Len(m_free_list) : m_free_list[i] # pConn[w]
              /\ \A v \in Workers : pConn[v] = pConn[w] => v = w
         /\ \A c \in 1..m_cur_conn_cnt : \/ \E i \in 1..Len(m_free_list) : m_free_list[i] = c
                                         \/ \E w \in Workers : pConn[w] = c
         /\ m_cur_conn_cnt \in Nat /\ m_cur_conn_cnt <= Test!MaxConns /\ Test!MaxConns \in Nat
<1>1. /\ m_free_list \in Seq(Test!Conns) /\ Len(m_free_list) \in Nat
      /\ DOMAIN m_free_list = 1..Len(m_free_list)
  BY DEF TestInv, ConnsNumbered
<1>2. /\ Test!IsInjective(m_free_list) /\ Test!Idle \intersect Test!Held = {}
      /\ \A v, w \in Workers : v # w /\ pConn[v] # 0 => pConn[v] # pConn[w]
      /\ Test!Idle \union Test!Held = 1..m_cur_conn_cnt
  BY DEF TestInv, Test!ConnsAccounted
<1>3. Test!MaxConns \in Nat
  BY TestAssumption DEF TestInv, Test!MaxConns
<1>4. m_cur_conn_cnt \in 0..Test!MaxConns
  BY DEF TestInv, Test!TypeOK, Test!CacheTypeOK
<1>5. \A i \in 1..Len(m_free_list) : m_free_list[i] \in Test!Idle
  BY <1>1 DEF Test!Idle
<1>6. \A w \in Workers : pConn[w] # 0 => pConn[w] \in Test!Held
  BY DEF Test!Held
<1>7. \A i, j \in 1..Len(m_free_list) : m_free_list[i] = m_free_list[j] => i = j
  BY <1>1, <1>2 DEF Test!IsInjective
<1>8. \A c \in 1..m_cur_conn_cnt : c \in Test!Conns
  BY <1>3, <1>4 DEF Test!Conns
<1>9. \A c \in 1..m_cur_conn_cnt : c \in Test!Idle \/ c \in Test!Held
  BY <1>2
<1>10. /\ \A c \in Test!Idle : \E i \in 1..Len(m_free_list) : m_free_list[i] = c
       /\ \A c \in Test!Held : \E w \in Workers : pConn[w] = c
  BY <1>1 DEF Test!Idle, Test!Held
<1>11. \A c \in 1..m_cur_conn_cnt : \/ \E i \in 1..Len(m_free_list) : m_free_list[i] = c
                                    \/ \E w \in Workers : pConn[w] = c
  BY <1>9, <1>10
<1>12. \A w \in Workers : pConn[w] # 0 =>
              /\ pConn[w] \in 1..m_cur_conn_cnt /\ pConn[w] \in Test!Conns
              /\ \A i \in 1..Len(m_free_list) : m_free_list[i] # pConn[w]
              /\ \A v \in Workers : pConn[v] = pConn[w] => v = w
  BY <1>2, <1>5, <1>6, <1>8
<1>13. \A i \in 1..Len(m_free_list) : m_free_list[i] \in 1..m_cur_conn_cnt
  BY <1>2, <1>5
<1> QED BY <1>1, <1>3, <1>4, <1>7, <1>8, <1>11, <1>12, <1>13

\* What is left to show of a step of worker w in the connection pool.
LEMMA CacheStep ==
  ASSUME TestInv, NEW w \in Workers, worker[w] = "job", UNCHANGED <<Test!poolVars, deleted>>,
         ~deleted => (Test!CacheTypeOK' /\ ConnsNumbered' /\ Test!ConnsAccounted'),
         \A v \in Workers : v # w => client'[v] = client[v] /\ pConn'[v] = pConn[v],
         pConn'[w] # 0 <=> client'[w] \in {"holding", "used"}
  PROVE  TestInv'
<1>1. ~deleted
  BY DEF TestInv, MainPlace
<1>2. Test!PoolTypeOK' /\ MainPlace' /\ JobsCounted'
  BY PoolFrame DEF TestInv, Test!TypeOK
<1>3. worker' = worker /\ deleted' = deleted
  BY DEF Test!poolVars
<1>4. ClientPlace'
  BY <1>3 DEF TestInv, ClientPlace
<1>5. deleted' \in BOOLEAN
  BY <1>3 DEF TestInv, Test!TypeOK
<1> QED BY <1>1, <1>2, <1>4, <1>5 DEF TestInv, Test!TypeOK

\* Each connection of the free list and of the workers told by its place, after a step.
LEMMA PlacesNext ==
  ASSUME ~deleted', m_free_list' \in Seq(Test!Conns), m_cur_conn_cnt' \in Nat,
         \A i \in 1..Len(m_free_list') : m_free_list'[i] \in 1..m_cur_conn_cnt',
         \A i, j \in 1..Len(m_free_list') : m_free_list'[i] = m_free_list'[j] => i = j,
         \A v \in Workers : pConn'[v] # 0 =>
           /\ pConn'[v] \in 1..m_cur_conn_cnt'
           /\ \A i \in 1..Len(m_free_list') : m_free_list'[i] # pConn'[v]
           /\ \A u \in Workers : pConn'[u] = pConn'[v] => u = v,
         \A c \in 1..m_cur_conn_cnt' :
           \/ \E i \in 1..Len(m_free_list') : m_free_list'[i] = c
           \/ \E v \in Workers : pConn'[v] = c
  PROVE  Test!ConnsAccounted'
<1>1. DOMAIN m_free_list' = 1..Len(m_free_list')
  BY LenProperties
<1>2. Test!IsInjective(m_free_list')
  BY <1>1 DEF Test!IsInjective
<1>3. \A v, u \in Workers : v # u /\ pConn'[v] # 0 => pConn'[v] # pConn'[u]
  OBVIOUS
<1>4. /\ Test!Idle' = {m_free_list'[i] : i \in 1..Len(m_free_list')}
      /\ Test!Held' = {pConn'[v] : v \in Workers} \ {0}
  BY <1>1 DEF Test!Idle, Test!Held
<1>5. Test!Idle' \intersect Test!Held' = {}
  <2> SUFFICES ASSUME NEW c \in Test!Idle', c \in Test!Held' PROVE FALSE
    OBVIOUS
  <2>1. PICK i \in 1..Len(m_free_list') : m_free_list'[i] = c
    BY <1>4
  <2>2. PICK v \in Workers : pConn'[v] = c /\ c # 0
    BY <1>4
  <2> QED BY <2>1, <2>2
<1>6. Test!Idle' \union Test!Held' = 1..m_cur_conn_cnt'
  <2>1. ASSUME NEW c \in Test!Idle' \union Test!Held' PROVE c \in 1..m_cur_conn_cnt'
    BY <1>4
  <2>2. ASSUME NEW c \in 1..m_cur_conn_cnt' PROVE c \in Test!Idle' \union Test!Held'
    <3>1. c # 0
      OBVIOUS
    <3> QED BY <1>4, <3>1
  <2> QED BY <2>1, <2>2
<1> QED BY <1>2, <1>3, <1>5, <1>6 DEF Test!ConnsAccounted

\* Where the connections are is not changed.
LEMMA SamePlaces ==
  ASSUME TestInv, ~deleted, UNCHANGED <<m_free_list, m_cur_conn_cnt, pConn, deleted>>
  PROVE  Test!ConnsAccounted'
<1>1. /\ m_free_list' = m_free_list /\ m_cur_conn_cnt' = m_cur_conn_cnt /\ pConn' = pConn
      /\ ~deleted'
  OBVIOUS
<1>2. Test!Idle' = Test!Idle /\ Test!Held' = Test!Held
  BY <1>1 DEF Test!Idle, Test!Held
<1>3. /\ Test!IsInjective(m_free_list) /\ Test!Idle \intersect Test!Held = {}
      /\ \A v, w \in Workers : v # w /\ pConn[v] # 0 => pConn[v] # pConn[w]
      /\ Test!Idle \union Test!Held = 1..m_cur_conn_cnt
  BY DEF TestInv, Test!ConnsAccounted
<1>4. Test!IsInjective(m_free_list') /\ Test!Idle' \intersect Test!Held' = {}
  BY <1>1, <1>2, <1>3
<1>5. /\ \A v, w \in Workers : v # w /\ pConn'[v] # 0 => pConn'[v] # pConn'[w]
      /\ Test!Idle' \union Test!Held' = 1..m_cur_conn_cnt'
  BY <1>1, <1>2, <1>3
<1> QED BY <1>1, <1>4, <1>5 DEF Test!ConnsAccounted

\* A worker in the pool of connections has a job, and the pool is there.
LEMMA AtWork ==
  ASSUME TestInv, NEW w \in Workers, worker[w] = "job"
  PROVE  /\ ~deleted /\ main # "freed"
         /\ m_free_list \in Seq(Test!Conns) /\ m_free_notify \subseteq Workers
         /\ m_pContext \in [Test!Conns -> {"none", "ready", "half"}]
         /\ client \in [Workers -> {"out", "wait", "holding", "used"}]
         /\ pConn \in [Workers -> 0..Test!MaxConns] /\ fault \in BOOLEAN
         /\ pConn[w] # 0 <=> client[w] \in {"holding", "used"}
  BY DEF TestInv, MainPlace, ConnsNumbered, Test!TypeOK, Test!CacheTypeOK, ClientPlace

\* Waiting for a connection.
LEMMA WaitStep ==
  ASSUME TestInv, NEW w \in Workers, worker[w] = "job", UNCHANGED <<Test!poolVars, deleted>>,
         Test!Wait(w)
  PROVE  TestInv'
<1>1. /\ UNCHANGED <<m_free_list, m_cur_conn_cnt, m_pContext, pConn, fault, deleted>>
      /\ client' = [client EXCEPT ![w] = "wait"] /\ m_free_notify' \subseteq Workers
      /\ client[w] \in {"out", "wait"}
  BY AtWork DEF Test!Wait, Test!InGet
<1>2. /\ client' \in [Workers -> {"out", "wait", "holding", "used"}] /\ client'[w] = "wait"
      /\ \A v \in Workers : v # w => client'[v] = client[v]
  BY <1>1, AtWork
<1>3. Test!CacheTypeOK'
  BY <1>1, <1>2 DEF TestInv, Test!TypeOK, Test!CacheTypeOK
<1>4. ConnsNumbered' /\ Test!ConnsAccounted'
  <2>1. ConnsNumbered'
    BY <1>1 DEF TestInv, ConnsNumbered
  <2> QED BY <1>1, <2>1, SamePlaces, AtWork
<1>5. pConn'[w] # 0 <=> client'[w] \in {"holding", "used"}
  BY <1>1, <1>2, AtWork
<1> QED BY <1>1, <1>2, <1>3, <1>4, <1>5, CacheStep

\* A new connection, or none.
LEMMA OpenStep ==
  ASSUME TestInv, NEW w \in Workers, worker[w] = "job", UNCHANGED <<Test!poolVars, deleted>>,
         Test!Open(w)
  PROVE  TestInv'
<1> USE AtWork
<1>1. CASE fault' = TRUE /\ UNCHANGED <<m_free_list, m_cur_conn_cnt, m_pContext, client, pConn>>
  <2>1. UNCHANGED m_free_notify /\ deleted' = deleted
    BY DEF Test!Open
  <2>2. Test!CacheTypeOK'
    BY <1>1, <2>1 DEF TestInv, Test!TypeOK, Test!CacheTypeOK
  <2>3. ConnsNumbered' /\ Test!ConnsAccounted'
    <3>1. ConnsNumbered'
      BY <1>1, <2>1 DEF TestInv, ConnsNumbered
    <3> QED BY <1>1, <2>1, <3>1, SamePlaces
  <2> QED BY <1>1, <2>2, <2>3, CacheStep
<1>2. CASE /\ Test!HandOut(w, <<m_cur_conn_cnt + 1>>) /\ m_cur_conn_cnt' = m_cur_conn_cnt + 1
           /\ m_pContext' = [m_pContext EXCEPT ![m_cur_conn_cnt + 1] = "ready"]
           /\ UNCHANGED fault
  <2>1. PICK new : new = m_cur_conn_cnt + 1
    OBVIOUS
  <2>2. /\ m_free_list = <<>> /\ m_cur_conn_cnt < m_max_conn_cnt /\ client[w] \in {"out", "wait"}
        /\ m_free_notify' = m_free_notify /\ deleted' = deleted
    BY DEF Test!Open, Test!InGet
  <2>3. Head(<<new>>) = new /\ Tail(<<new>>) = <<>>
    OBVIOUS
  <2>4. /\ client' = [client EXCEPT ![w] = "holding"] /\ pConn' = [pConn EXCEPT ![w] = new]
        /\ m_free_list' = <<>> /\ m_cur_conn_cnt' = new
        /\ m_pContext' = [m_pContext EXCEPT ![new] = "ready"] /\ fault' = fault
    BY <1>2, <2>1, <2>3 DEF Test!HandOut
  <2>5. /\ m_cur_conn_cnt \in Nat /\ new \in Nat \ {0} /\ new <= Test!MaxConns
        /\ Test!MaxConns \in Nat /\ new \in Test!Conns
    <3>1. m_cur_conn_cnt \in Nat /\ Test!MaxConns \in Nat
      BY ConnFacts
    <3>2. m_max_conn_cnt <= Test!MaxConns /\ m_max_conn_cnt \in Nat
      BY TestAssumption DEF TestInv, Test!MaxConns
    <3> QED BY <2>1, <2>2, <3>1, <3>2 DEF Test!Conns
  <2>6. /\ client'[w] = "holding" /\ pConn'[w] = new
        /\ \A v \in Workers : v # w => client'[v] = client[v] /\ pConn'[v] = pConn[v]
        /\ pConn[w] = 0
    BY <2>2, <2>4
  <2>7. Test!CacheTypeOK'
    <3>1. /\ client' \in [Workers -> {"out", "wait", "holding", "used"}]
          /\ pConn' \in [Workers -> 0..Test!MaxConns]
          /\ m_pContext' \in [Test!Conns -> {"none", "ready", "half"}]
      BY <2>4, <2>5
    <3>2. m_cur_conn_cnt' \in 0..Test!MaxConns
      BY <2>4, <2>5
    <3>3. \A i \in DOMAIN m_free_list' : m_free_list'[i] \in Test!Conns
      BY <2>4
    <3>4. m_free_notify' \subseteq Workers /\ fault' \in BOOLEAN
      BY <2>2, <2>4
    <3> QED BY <3>1, <3>2, <3>3, <3>4 DEF Test!CacheTypeOK
  <2>8. ConnsNumbered'
    <3>1. \A c \in Test!Conns : c > m_cur_conn_cnt => m_pContext[c] = "none"
      BY DEF TestInv, ConnsNumbered
    <3>2. \A c \in Test!Conns : c > new => m_pContext'[c] = "none"
      BY <2>1, <2>4, <2>5, <3>1 DEF Test!Conns
    <3> QED BY <2>4, <3>2 DEF ConnsNumbered
  <2>9. Test!ConnsAccounted'
    <3>1. Len(m_free_list') = 0 /\ m_free_list' \in Seq(Test!Conns)
      BY <2>4
    <3>2. \A v \in Workers : v # w /\ pConn[v] # 0 =>
            /\ pConn[v] \in 1..m_cur_conn_cnt
            /\ \A u \in Workers : pConn[u] = pConn[v] => u = v
      BY ConnFacts
    <3>3. \A v \in Workers : pConn'[v] # 0 =>
            /\ pConn'[v] \in 1..new
            /\ \A u \in Workers : pConn'[u] = pConn'[v] => u = v
      BY <2>1, <2>5, <2>6, <3>2
    <3>4. \A c \in 1..m_cur_conn_cnt : \E v \in Workers : pConn[v] = c
      <4>1. Len(m_free_list) = 0
        BY <2>2
      <4> QED BY <4>1, ConnFacts
    <3>5. ASSUME NEW c \in 1..new PROVE \E v \in Workers : pConn'[v] = c
      <4>1. CASE c = new
        BY <2>6, <4>1
      <4>2. CASE c # new
        <5>1. PICK v \in Workers : pConn[v] = c
          BY <2>1, <2>5, <3>4, <4>2
        <5> QED BY <2>6, <5>1
      <4> QED BY <4>1, <4>2
    <3> QED BY <2>2, <2>4, <2>5, <3>1, <3>3, <3>5, PlacesNext
  <2>10. pConn'[w] # 0 <=> client'[w] \in {"holding", "used"}
    BY <2>5, <2>6
  <2> QED BY <2>6, <2>7, <2>8, <2>9, <2>10, CacheStep
<1> QED BY <1>1, <1>2 DEF Test!Open

\* The front of the free list is handed out.
LEMMA ReuseStep ==
  ASSUME TestInv, NEW w \in Workers, worker[w] = "job", UNCHANGED <<Test!poolVars, deleted>>,
         Test!Reuse(w)
  PROVE  TestInv'
<1> USE AtWork
<1>1. PICK list : list = m_free_list
  OBVIOUS
<1>2. PICK first : first = Head(list)
  OBVIOUS
<1>3. PICK rest : rest = Tail(list)
  OBVIOUS
<1>4. /\ list # <<>> /\ client[w] \in {"out", "wait"}
      /\ client' = [client EXCEPT ![w] = "holding"] /\ pConn' = [pConn EXCEPT ![w] = first]
      /\ m_free_list' = rest /\ deleted' = deleted
      /\ UNCHANGED <<m_cur_conn_cnt, m_pContext, m_free_notify, fault>>
  BY <1>1, <1>2, <1>3 DEF Test!Reuse, Test!InGet, Test!HandOut
<1>5. /\ list \in Seq(Test!Conns) /\ rest \in Seq(Test!Conns) /\ Len(list) \in Nat \ {0}
      /\ Len(rest) = Len(list) - 1 /\ first = list[1]
      /\ \A i \in 1..Len(rest) : rest[i] = list[i + 1]
  <2>1. list \in Seq(Test!Conns)
    BY <1>1
  <2>2. Len(list) \in Nat \ {0}
    BY <1>4, <2>1, EmptySeq
  <2>3. /\ rest \in Seq(Test!Conns) /\ Len(rest) = Len(list) - 1
        /\ \A i \in 1..Len(rest) : rest[i] = list[i + 1]
    BY ONLY <1>3, <1>4, <2>1, HeadTailProperties
  <2>4. first = list[1]
    BY <1>2, <2>1, <2>2
  <2> QED BY <2>1, <2>2, <2>3, <2>4
<1>6. /\ \A i \in 1..Len(list) : list[i] \in 1..m_cur_conn_cnt /\ list[i] \in Test!Conns
      /\ \A i, j \in 1..Len(list) : list[i] = list[j] => i = j
      /\ \A v \in Workers : pConn[v] # 0 =>
           /\ pConn[v] \in 1..m_cur_conn_cnt
           /\ \A i \in 1..Len(list) : list[i] # pConn[v]
           /\ \A u \in Workers : pConn[u] = pConn[v] => u = v
      /\ \A c \in 1..m_cur_conn_cnt : \/ \E i \in 1..Len(list) : list[i] = c
                                      \/ \E v \in Workers : pConn[v] = c
      /\ m_cur_conn_cnt \in Nat /\ m_cur_conn_cnt <= Test!MaxConns /\ Test!MaxConns \in Nat
  BY <1>1, ConnFacts
<1>7. /\ first \in 1..m_cur_conn_cnt /\ first \in 1..Test!MaxConns
      /\ \A i \in 1..Len(rest) : rest[i] \in 1..m_cur_conn_cnt /\ rest[i] # first
      /\ \A i, j \in 1..Len(rest) : rest[i] = rest[j] => i = j
      /\ \A v \in Workers : pConn[v] # first
  <2>1. 1 \in 1..Len(list) /\ \A i \in 1..Len(rest) : i + 1 \in 1..Len(list) /\ i + 1 # 1
    BY <1>5
  <2>2. first \in 1..m_cur_conn_cnt /\ first \in 1..Test!MaxConns
    BY <1>5, <1>6, <2>1
  <2>4. ASSUME NEW i \in 1..Len(rest), NEW j \in 1..Len(rest), rest[i] = rest[j]
        PROVE  i = j
    <3>1. i + 1 \in 1..Len(list) /\ j + 1 \in 1..Len(list)
      BY <2>1
    <3>2. list[i + 1] = list[j + 1]
      BY <1>5, <2>4
    <3>3. i + 1 = j + 1
      BY <1>6, <3>1, <3>2
    <3> QED BY <1>5, <3>3
  <2>5. \A i \in 1..Len(rest) : rest[i] \in 1..m_cur_conn_cnt /\ rest[i] # first
    BY <1>5, <1>6, <2>1
  <2>6. \A v \in Workers : pConn[v] # first
    <3>1. first # 0
      BY <2>2
    <3> QED BY <1>5, <1>6, <2>1, <3>1
  <2> QED BY <2>2, <2>4, <2>5, <2>6
<1>8. /\ client'[w] = "holding" /\ pConn'[w] = first /\ pConn[w] = 0
      /\ \A v \in Workers : v # w => client'[v] = client[v] /\ pConn'[v] = pConn[v]
  BY <1>4
<1>9. Test!CacheTypeOK'
  <2>1. /\ client' \in [Workers -> {"out", "wait", "holding", "used"}]
        /\ pConn' \in [Workers -> 0..Test!MaxConns]
    BY <1>4, <1>6, <1>7
  <2>2. \A i \in DOMAIN m_free_list' : m_free_list'[i] \in Test!Conns
    BY <1>4, <1>5
  <2> QED BY <1>4, <2>1, <2>2 DEF TestInv, Test!TypeOK, Test!CacheTypeOK
<1>10. ConnsNumbered'
  BY <1>4, <1>5 DEF TestInv, ConnsNumbered
<1>11. Test!ConnsAccounted'
  <2>1. ASSUME NEW v \in Workers, pConn'[v] # 0
        PROVE  /\ pConn'[v] \in 1..m_cur_conn_cnt
               /\ \A i \in 1..Len(rest) : rest[i] # pConn'[v]
               /\ \A u \in Workers : pConn'[u] = pConn'[v] => u = v
    <3>1. CASE v = w
      BY <1>7, <1>8, <3>1
    <3>2. CASE v # w
      <4>1. \A i \in 1..Len(rest) : i + 1 \in 1..Len(list)
        BY <1>5
      <4> QED BY <1>5, <1>6, <1>7, <1>8, <2>1, <3>2, <4>1
    <3> QED BY <3>1, <3>2
  <2>2. ASSUME NEW c \in 1..m_cur_conn_cnt
        PROVE  \/ \E i \in 1..Len(rest) : rest[i] = c
               \/ \E v \in Workers : pConn'[v] = c
    <3>1. CASE \E v \in Workers : pConn[v] = c
      <4>1. PICK v \in Workers : pConn[v] = c
        BY <3>1
      <4>2. c # 0
        OBVIOUS
      <4> QED BY <1>8, <4>1, <4>2
    <3>2. CASE \E i \in 1..Len(list) : list[i] = c
      <4>1. PICK i \in 1..Len(list) : list[i] = c
        BY <3>2
      <4>2. CASE i = 1
        BY <1>5, <1>8, <4>1, <4>2
      <4>3. CASE i # 1
        <5>1. i - 1 \in 1..Len(rest) /\ (i - 1) + 1 = i
          BY <1>5, <4>3
        <5>2. rest[i - 1] = c
          BY <1>5, <4>1, <5>1
        <5> QED BY <5>1, <5>2
      <4> QED BY <4>2, <4>3
    <3> QED BY <1>6, <3>1, <3>2
  <2> QED BY <1>4, <1>5, <1>6, <1>7, <2>1, <2>2, PlacesNext
<1>12. pConn'[w] # 0 <=> client'[w] \in {"holding", "used"}
  <2>1. first # 0
    BY <1>7
  <2> QED BY <1>8, <2>1
<1> QED BY <1>8, <1>9, <1>10, <1>11, <1>12, CacheStep

\* A command, on the connection the worker holds.
LEMMA CommandStep ==
  ASSUME TestInv, NEW w \in Workers, worker[w] = "job", UNCHANGED <<Test!poolVars, deleted>>,
         Test!Command(w)
  PROVE  TestInv'
<1> USE AtWork
<1>1. PICK conn : conn = pConn[w]
  OBVIOUS
<1>2. PICK ctx \in Test!AfterCommand(m_pContext[conn]) :
        m_pContext' = [m_pContext EXCEPT ![conn] = ctx]
  BY <1>1 DEF Test!Command
<1>3. /\ client[w] = "holding" /\ client' = [client EXCEPT ![w] = "used"] /\ deleted' = deleted
      /\ UNCHANGED <<m_free_list, m_cur_conn_cnt, m_free_notify, pConn, fault>>
  BY DEF Test!Command
<1>4. conn # 0 /\ conn \in 1..m_cur_conn_cnt /\ conn \in Test!Conns
  BY <1>1, <1>3, ConnFacts
<1>5. ctx \in {"none", "ready", "half"}
  BY <1>2, <1>4 DEF Test!AfterCommand
<1>6. /\ client' \in [Workers -> {"out", "wait", "holding", "used"}] /\ client'[w] = "used"
      /\ \A v \in Workers : v # w => client'[v] = client[v]
      /\ m_pContext' \in [Test!Conns -> {"none", "ready", "half"}]
      /\ \A c \in Test!Conns : c # conn => m_pContext'[c] = m_pContext[c]
  BY <1>2, <1>3, <1>5
<1>7. Test!CacheTypeOK'
  BY <1>3, <1>6 DEF TestInv, Test!TypeOK, Test!CacheTypeOK
<1>8. ConnsNumbered'
  <2>1. \A c \in Test!Conns : c > m_cur_conn_cnt => c # conn
    BY <1>4, ConnFacts DEF Test!Conns
  <2> QED BY <1>3, <1>6, <2>1 DEF TestInv, ConnsNumbered
<1>9. Test!ConnsAccounted'
  BY <1>3, SamePlaces
<1>10. pConn'[w] # 0 <=> client'[w] \in {"holding", "used"}
  BY <1>1, <1>3, <1>4, <1>6
<1> QED BY <1>3, <1>6, <1>7, <1>8, <1>9, <1>10, CacheStep

\* The connection goes back to the end of the list, and the job is over.
LEMMA ReleaseStep ==
  ASSUME TestInv, NEW w \in Workers, worker[w] = "job", UNCHANGED deleted,
         Test!RelCacheConn(w), Test!JobDone(w)
  PROVE  TestInv'
<1> USE AtWork
<1>1. PICK list : list = m_free_list
  OBVIOUS
<1>2. PICK conn : conn = pConn[w]
  OBVIOUS
<1>3. /\ client[w] = "used" /\ client' = [client EXCEPT ![w] = "out"]
      /\ pConn' = [pConn EXCEPT ![w] = 0] /\ deleted' = deleted
      /\ m_free_notify' \subseteq Workers
      /\ UNCHANGED <<m_cur_conn_cnt, m_pContext, fault>>
  BY DEF Test!RelCacheConn
<1>4. /\ list \in Seq(Test!Conns) /\ Len(list) \in Nat
      /\ \A i \in 1..Len(list) : list[i] \in 1..m_cur_conn_cnt
      /\ \A i, j \in 1..Len(list) : list[i] = list[j] => i = j
      /\ \A v \in Workers : pConn[v] # 0 =>
           /\ pConn[v] \in 1..m_cur_conn_cnt /\ pConn[v] \in Test!Conns
           /\ \A i \in 1..Len(list) : list[i] # pConn[v]
           /\ \A u \in Workers : pConn[u] = pConn[v] => u = v
      /\ \A c \in 1..m_cur_conn_cnt : \/ \E i \in 1..Len(list) : list[i] = c
                                      \/ \E v \in Workers : pConn[v] = c
      /\ m_cur_conn_cnt \in Nat
  BY <1>1, ConnFacts
<1>5. conn # 0 /\ conn \in 1..m_cur_conn_cnt /\ conn \in Test!Conns
  BY <1>2, <1>3, <1>4
<1>6. PICK longer : longer = Append(list, conn)
  OBVIOUS
<1>7. m_free_list' = longer
  <2>1. \A i \in 1..Len(list) : list[i] # conn
    BY <1>2, <1>4, <1>5
  <2>2. ~Test!Contains(list, conn)
    BY ONLY <2>1 DEF Test!Contains
  <2> QED BY <1>1, <1>2, <1>6, <2>2 DEF Test!RelCacheConn
<1>8. /\ longer \in Seq(Test!Conns) /\ Len(longer) = Len(list) + 1
      /\ longer[Len(list) + 1] = conn
      /\ \A i \in 1..Len(list) : longer[i] = list[i]
  BY ONLY <1>4, <1>5, <1>6
<1>9. /\ client'[w] = "out" /\ pConn'[w] = 0
      /\ \A v \in Workers : v # w => client'[v] = client[v] /\ pConn'[v] = pConn[v]
  BY <1>3
<1>10. Test!CacheTypeOK'
  <2>1. /\ client' \in [Workers -> {"out", "wait", "holding", "used"}]
        /\ pConn' \in [Workers -> 0..Test!MaxConns]
    <3>1. 0 \in 0..Test!MaxConns
      BY ConnFacts
    <3> QED BY <1>3, <3>1
  <2>2. \A i \in DOMAIN m_free_list' : m_free_list'[i] \in Test!Conns
    BY <1>7, <1>8
  <2> QED BY <1>3, <2>1, <2>2 DEF TestInv, Test!TypeOK, Test!CacheTypeOK
<1>11. ConnsNumbered'
  BY <1>3, <1>7, <1>8 DEF TestInv, ConnsNumbered
<1>12. Test!ConnsAccounted'
  <2>1. \A i \in 1..Len(longer) : i \in 1..Len(list) \/ i = Len(list) + 1
    BY <1>4, <1>8
  <2>2. \A i \in 1..Len(longer) : longer[i] \in 1..m_cur_conn_cnt
    BY <1>4, <1>5, <1>8, <2>1
  <2>3. \A i \in 1..Len(list) : list[i] # conn
    BY <1>2, <1>4, <1>5
  <2>4. \A i, j \in 1..Len(longer) : longer[i] = longer[j] => i = j
    BY <1>4, <1>8, <2>1, <2>3
  <2>5. ASSUME NEW v \in Workers, pConn'[v] # 0
        PROVE  /\ pConn'[v] \in 1..m_cur_conn_cnt
               /\ \A i \in 1..Len(longer) : longer[i] # pConn'[v]
               /\ \A u \in Workers : pConn'[u] = pConn'[v] => u = v
    <3>1. v # w /\ pConn'[v] = pConn[v] /\ pConn[v] # conn
      BY <1>2, <1>4, <1>5, <1>9, <2>5
    <3>2. /\ pConn[v] # 0 /\ pConn[v] \in 1..m_cur_conn_cnt
          /\ \A i \in 1..Len(list) : list[i] # pConn[v]
          /\ \A u \in Workers : pConn[u] = pConn[v] => u = v
      BY <1>4, <2>5, <3>1
    <3>3. \A i \in 1..Len(longer) : longer[i] # pConn[v]
      BY <1>8, <2>1, <3>1, <3>2
    <3>4. \A u \in Workers : pConn'[u] = pConn[v] => u = v
      BY <1>9, <3>2
    <3> QED BY <3>1, <3>2, <3>3, <3>4
  <2>6. ASSUME NEW c \in 1..m_cur_conn_cnt
        PROVE  \/ \E i \in 1..Len(longer) : longer[i] = c
               \/ \E v \in Workers : pConn'[v] = c
    <3>1. CASE \E i \in 1..Len(list) : list[i] = c
      <4>1. PICK i \in 1..Len(list) : list[i] = c
        BY <3>1
      <4>2. i \in 1..Len(longer) /\ longer[i] = c
        BY <1>4, <1>8, <4>1
      <4> QED BY <4>2
    <3>2. CASE c = conn
      <4>1. Len(list) + 1 \in 1..Len(longer)
        BY <1>4, <1>8
      <4> QED BY <1>8, <3>2, <4>1
    <3>3. CASE c # conn /\ \E v \in Workers : pConn[v] = c
      BY <1>2, <1>9, <3>3
    <3> QED BY <1>4, <3>1, <3>2, <3>3
  <2>7. ~deleted'
    BY <1>3
  <2> QED BY <1>3, <1>4, <1>7, <1>8, <2>2, <2>4, <2>5, <2>6, <2>7, PlacesNext
<1>13. /\ worker' = [worker EXCEPT ![w] = "lock"] /\ ran' = ran + 1
       /\ UNCHANGED <<queue_cur_num, queue_close, pool_close, queue_empty, queue_not_empty,
                      queue_not_full, main, toAdd, accepted>>
  BY DEF Test!JobDone
<1>14. Test!PoolTypeOK /\ JobsCounted /\ MainPlace /\ ClientPlace
  BY DEF TestInv, Test!TypeOK
<1>15. worker'[w] = "lock" /\ \A v \in Workers : v # w => worker'[v] = worker[v]
  BY <1>13, <1>14 DEF Test!PoolTypeOK
<1>16. /\ IsFiniteSet(Running') /\ Cardinality(Running') = Cardinality(Running) - 1
       /\ Cardinality(Running) \in Nat /\ Cardinality(Running) > 0
  <2>1. PICK to : to = "lock"
    OBVIOUS
  <2>2. to # "job" /\ worker' = [worker EXCEPT ![w] = to] /\ IsFiniteSet(Running)
    BY <1>13, <1>14, <2>1 DEF JobsCounted
  <2> QED BY <1>14, <2>2, RunningStep
<1>17. JobsCounted'
  BY <1>13, <1>14, <1>16 DEF JobsCounted, Test!PoolTypeOK
<1>18. Test!PoolTypeOK'
  <2>1. ran' \in 0..accepted'
    BY <1>13, <1>14, <1>16 DEF JobsCounted, Test!PoolTypeOK
  <2> QED BY <1>13, <1>14, <2>1 DEF Test!PoolTypeOK
<1>19. MainPlace'
  BY <1>3, <1>13, <1>14 DEF MainPlace
<1>20. ClientPlace'
  BY <1>9, <1>14, <1>15 DEF ClientPlace
<1>21. deleted' \in BOOLEAN
  BY <1>3, <1>14, TestAssumption DEF TestInv, Test!TypeOK
<1> QED BY <1>10, <1>11, <1>12, <1>17, <1>18, <1>19, <1>20, <1>21 DEF TestInv, Test!TypeOK

\* The destructor of the connection pool.  All workers are gone, so no connection is
\* held and the free list has them all.
LEMMA DeleteInv ==
  ASSUME TestInv, Test!DeleteCache
  PROVE  TestInv'
<1>1. /\ main = "freed" /\ ~deleted /\ deleted' = TRUE /\ UNCHANGED Test!poolVars
      /\ m_free_list' = <<>> /\ m_cur_conn_cnt' = 0
      /\ m_pContext' = [c \in Test!Conns |-> IF Test!Contains(m_free_list, c) THEN "none"
                                              ELSE m_pContext[c]]
      /\ UNCHANGED <<m_free_notify, client, pConn, fault>>
  BY DEF Test!DeleteCache, Test!Delete
<1>2. UNCHANGED <<queue_cur_num, queue_close, pool_close, queue_empty, queue_not_empty,
                  queue_not_full, worker, main, toAdd, accepted, ran>>
  BY <1>1 DEF Test!poolVars
<1>3. \A w \in Workers : pConn[w] = 0
  BY <1>1 DEF TestInv, MainPlace, ClientPlace
<1>4. ASSUME NEW c \in Test!Conns PROVE m_pContext'[c] = "none"
  <2>1. m_pContext'[c] = IF Test!Contains(m_free_list, c) THEN "none" ELSE m_pContext[c]
    BY <1>1
  <2>2. CASE c > m_cur_conn_cnt
    BY <1>1, <2>1, <2>2 DEF TestInv, ConnsNumbered
  <2>3. CASE ~(c > m_cur_conn_cnt)
    <3>1. c \in 1..m_cur_conn_cnt /\ c # 0
      BY <1>1, <2>3, ConnFacts DEF Test!Conns
    <3>2. PICK i \in 1..Len(m_free_list) : m_free_list[i] = c
      BY <1>1, <1>3, <3>1, ConnFacts
    <3>3. Test!Contains(m_free_list, c)
      BY <3>2 DEF Test!Contains
    <3> QED BY <2>1, <3>3
  <2> QED BY <2>2, <2>3
<1>5. Test!CacheTypeOK'
  <2>1. m_pContext' \in [Test!Conns -> {"none", "ready", "half"}]
    <3>1. DOMAIN m_pContext' = Test!Conns
      BY <1>1
    <3>2. m_pContext' = [c \in Test!Conns |-> "none"]
      BY <1>1, <1>4
    <3> QED BY <3>2
  <2>2. m_cur_conn_cnt' \in 0..Test!MaxConns
    BY <1>1, ConnFacts
  <2>3. \A i \in DOMAIN m_free_list' : m_free_list'[i] \in Test!Conns
    BY <1>1
  <2> QED BY <1>1, <2>1, <2>2, <2>3 DEF TestInv, Test!TypeOK, Test!CacheTypeOK
<1>6. ConnsNumbered'
  BY <1>1 DEF ConnsNumbered
<1>7. Test!ConnsAccounted'
  <2>1. Test!IsInjective(m_free_list') /\ Test!Idle' = {}
    BY <1>1 DEF Test!IsInjective, Test!Idle
  <2>2. Test!Held' = {}
    BY <1>1, <1>3 DEF Test!Held
  <2>3. DOMAIN m_pContext' = Test!Conns
    BY <1>1
  <2>4. \A c \in DOMAIN m_pContext' : m_pContext'[c] = "none"
    BY <1>4, <2>3
  <2>5. \A v, w \in Workers : v # w /\ pConn'[v] # 0 => pConn'[v] # pConn'[w]
    BY <1>1, <1>3
  <2> QED BY <1>1, <2>1, <2>2, <2>4, <2>5 DEF Test!ConnsAccounted
<1>8. ClientPlace'
  BY <1>1, <1>2 DEF TestInv, ClientPlace
<1>9. Test!PoolTypeOK' /\ JobsCounted' /\ deleted' \in BOOLEAN
  BY <1>1, <1>2, TestAssumption DEF TestInv, Test!TypeOK, Test!PoolTypeOK, JobsCounted,
         Running
<1>10. MainPlace'
  BY <1>1, <1>2 DEF TestInv, MainPlace
<1> QED BY <1>5, <1>6, <1>7, <1>8, <1>9, <1>10 DEF TestInv, Test!TypeOK

-----------------------------------------------------------------------------
(* Every step, and the theorems.                                             *)

\* A job's step in the connection pool.
LEMMA JobStepInv ==
  ASSUME TestInv, NEW w \in Workers, Test!JobStep(w)
  PROVE  TestInv'
<1>1. worker[w] = "job" /\ UNCHANGED deleted
  BY DEF Test!JobStep
<1>2. CASE (Test!GetCacheConn(w) \/ Test!Command(w)) /\ UNCHANGED Test!poolVars
  BY <1>1, <1>2, WaitStep, OpenStep, ReuseStep, CommandStep DEF Test!GetCacheConn
<1>3. CASE Test!RelCacheConn(w) /\ Test!JobDone(w)
  BY <1>1, <1>3, ReleaseStep
<1> QED BY <1>2, <1>3 DEF Test!JobStep

LEMMA TestStep == TestInv /\ Test!Next => TestInv'
<1> SUFFICES ASSUME TestInv, Test!Next PROVE TestInv'
  OBVIOUS
<1>1. CASE Test!MainStep
  BY <1>1, PoolMainInv, DeleteInv DEF Test!MainStep
<1>2. CASE Test!Spurious
  BY <1>2, SpuriousInv
<1>3. CASE \E w \in Workers : Test!WorkerStep(w)
  BY <1>3, PoolWorkerInv, JobStepInv DEF Test!WorkerStep
<1> QED BY <1>1, <1>2, <1>3 DEF Test!Next

LEMMA TestFrame == TestInv /\ UNCHANGED testVars => TestInv'
<1> SUFFICES ASSUME TestInv, UNCHANGED testVars PROVE TestInv'
  OBVIOUS
<1>1. UNCHANGED <<Test!poolVars, Test!cacheVars, deleted>>
  BY DEF testVars, Test!poolVars, Test!cacheVars
<1>2. Test!PoolTypeOK' /\ MainPlace' /\ JobsCounted'
  BY <1>1, PoolFrame DEF TestInv, Test!TypeOK
<1>3. Test!CacheTypeOK' /\ ConnsNumbered' /\ Test!ConnsAccounted'
  BY <1>1, CacheFrame DEF TestInv, Test!TypeOK
<1>4. ClientPlace' /\ deleted' \in BOOLEAN
  BY <1>1 DEF TestInv, Test!TypeOK, ClientPlace, Test!poolVars, Test!cacheVars
<1> QED BY <1>2, <1>3, <1>4 DEF TestInv, Test!TypeOK

\* When the thread pool has been freed, the invariant leaves no job and no client.
LEMMA TestSafe == TestInv => Test!JobsRunBeforeFree
<1>1. ASSUME TestInv, main = "freed"
      PROVE  /\ ran = accepted /\ queue_cur_num = 0
             /\ \A w \in Workers : worker[w] = "exit" /\ client[w] = "out"
  <2>1. \A w \in Workers : worker[w] = "exit"
    BY <1>1 DEF TestInv, MainPlace
  <2>2. Running = {} /\ queue_cur_num = 0
    BY <1>1, <2>1 DEF Running, TestInv, MainPlace
  <2>3. Cardinality(Running) = 0
    BY <2>2, FS_EmptySet
  <2>4. ran = accepted
    BY <1>1, <2>2, <2>3 DEF TestInv, JobsCounted, Test!TypeOK, Test!PoolTypeOK
  <2>5. \A w \in Workers : client[w] = "out"
    BY <1>1, <2>1 DEF TestInv, ClientPlace, Test!TypeOK, Test!CacheTypeOK
  <2> QED BY <2>1, <2>2, <2>4, <2>5
<1> QED BY <1>1 DEF Test!JobsRunBeforeFree

-----------------------------------------------------------------------------
CONSTANTS
  \* DBConn
  Ops, MaxOps, MaxLost

\* A number of calls or of lost connections is not negative.
ASSUME DBAssumption == MaxOps \in Nat /\ MaxLost \in Nat

VARIABLES
  link, inTrans, session, open, pending, table, stmt, op, care, at, result, view, calls,
  unit, promised, revoked

dbVars == <<link, inTrans, session, open, pending, table, stmt, op, care, at, result,
            view, calls, unit, promised, revoked>>

DB == INSTANCE DBConn WITH MaxCalls <- MaxOps

-----------------------------------------------------------------------------
(* One connection of the MySQL pool (DBPool.cpp).                               *)

DBTypes ==
  /\ link \in {"up", "lost"} /\ session \in 1..MaxLost + 1 /\ stmt \in 0..session
  /\ at \in {"out", "ping", "query", "done"} /\ op \in Ops \union {"none"}
  /\ calls \in 0..MaxOps /\ (at # "out" => calls > 0)
  /\ pending \in SUBSET (1..calls) /\ table \in SUBSET (1..calls)
  /\ view \in SUBSET (1..calls)
  /\ promised \in SUBSET (1..calls) /\ revoked \in SUBSET (1..calls)
  /\ unit \in [open : BOOLEAN, updates : SUBSET (1..calls),
               broken : SUBSET {"lost", "ddl", "inherited"}]

DBFlags == /\ inTrans \in BOOLEAN /\ open \in BOOLEAN /\ care \in BOOLEAN
           /\ result \in BOOLEAN

\* The user has begun a transaction, and nothing has interfered with it.
Believes == unit.open /\ unit.broken = {}

\* It is open, and its updates wait in it.
UnitPending == open /\ unit.updates \subseteq pending /\ unit.updates \intersect table = {}

\* The call has made an update that its user will know of.
Updated == result /\ op \in {"update", "execute"} /\ (op = "update" => care)

\* What is promised or revoked, and what a lost connection has left.
Server ==
  /\ pending # {} => open
  /\ promised \subseteq table /\ revoked \intersect (table \union pending) = {}
  /\ link = "lost" => ~open /\ session <= MaxLost

\* Until its statement is answered, a call has changed nothing.
Asking ==
  /\ at \in {"ping", "query"} =>
       calls \notin pending \union table \union revoked \union unit.updates
  /\ at # "done" => /\ Believes => UnitPending
                    /\ open => unit.open \/ "inherited" \in unit.broken

\* What the answer to each statement is about, between the answer and the return.
Answer ==
  at = "done" =>
    /\ Believes /\ op \notin {"create", "drop"} =>
         CASE op = "commit" /\ result -> unit.updates \subseteq table
           [] op = "rollback" /\ result -> unit.updates \intersect (table \union pending) = {}
           [] op = "start" /\ result -> TRUE
           [] OTHER -> UnitPending
    /\ Believes /\ Updated => calls \in pending \ table
    /\ ~unit.open /\ unit.broken = {} /\ Updated => calls \in table
    /\ op \in {"commit", "rollback"} /\ result => ~open
    /\ op = "start" /\ result /\ link = "up" => open /\ pending = {}
    /\ open => unit.open \/ "inherited" \in unit.broken \/ (op = "start" /\ result)
    /\ op = "query" /\ result => /\ promised \subseteq view
                                 /\ Believes => unit.updates \subseteq view

DBInv == DBTypes /\ DBFlags /\ Server /\ Asking /\ Answer

LEMMA DBInitInv == DB!Init => DBInv
<1> SUFFICES ASSUME DB!Init PROVE DBInv
  OBVIOUS
<1>1. DBTypes
  BY DBAssumption DEF DB!Init, DB!NoUnit, DBTypes
<1>2. DBFlags /\ Server /\ Asking /\ Answer
  BY DEF DB!Init, DB!NoUnit, DBFlags, Server, Asking, Answer, Believes, UnitPending, Updated
<1> QED BY <1>1, <1>2 DEF DBInv

LEMMA DBStep == DBInv /\ DB!Next => DBInv'
<1> SUFFICES ASSUME DBInv, DB!Next PROVE DBInv'
  OBVIOUS
<1>0. DBTypes /\ DBFlags /\ Server /\ Asking /\ Answer
  BY DEF DBInv
<1> USE <1>0, DBAssumption
<1>1. CASE \E c \in Ops, care_affected_rows \in BOOLEAN : DB!Call(c, care_affected_rows)
  <2>1. DBTypes'
    BY <1>1 DEF DBTypes, DBFlags, DB!Call, DB!server, DB!user, DB!history
  <2>2. DBFlags'
    BY <1>1 DEF DBFlags, DB!Call, DB!server, DB!user, DB!history
  <2>3. Server'
    BY <1>1 DEF DBTypes, DBFlags, Server, Asking, Answer, Believes, UnitPending, Updated,
           DB!Call, DB!server, DB!user, DB!history
  <2>4. Asking'
    BY <1>1 DEF DBTypes, DBFlags, Server, Asking, Answer, Believes, UnitPending, Updated,
           DB!Call, DB!server, DB!user, DB!history
  <2>5. Answer'
    BY <1>1 DEF DBTypes, DBFlags, Server, Asking, Answer, Believes, UnitPending, Updated,
           DB!Call, DB!server, DB!user, DB!history
  <2> QED BY <2>1, <2>2, <2>3, <2>4, <2>5 DEF DBInv
<1>2. CASE DB!Lose
  <2>1. DBTypes'
    BY <1>2 DEF DBTypes, DBFlags, DB!Lose, DB!Broken, DB!server, DB!user, DB!history
  <2>2. DBFlags'
    BY <1>2 DEF DBFlags, DB!Lose, DB!Broken, DB!server, DB!user, DB!history
  <2>3. Server'
    BY <1>2 DEF DBTypes, DBFlags, Server, Asking, Answer, Believes, UnitPending, Updated,
           DB!Lose, DB!Broken, DB!server, DB!user, DB!history
  <2>4. Asking'
    BY <1>2 DEF DBTypes, DBFlags, Server, Asking, Answer, Believes, UnitPending, Updated,
           DB!Lose, DB!Broken, DB!server, DB!user, DB!history
  <2>5. Answer'
    BY <1>2 DEF DBTypes, DBFlags, Server, Asking, Answer, Believes, UnitPending, Updated,
           DB!Lose, DB!Broken, DB!server, DB!user, DB!history
  <2> QED BY <2>1, <2>2, <2>3, <2>4, <2>5 DEF DBInv
<1>3. CASE DB!PingAnswered
  <2>1. DBTypes'
    BY <1>3 DEF DBTypes, DBFlags, DB!PingAnswered, DB!server, DB!user, DB!history
  <2>2. DBFlags'
    BY <1>3 DEF DBFlags, DB!PingAnswered, DB!server, DB!user, DB!history
  <2>3. Server'
    BY <1>3 DEF DBTypes, DBFlags, Server, Asking, Answer, Believes, UnitPending, Updated,
           DB!PingAnswered, DB!server, DB!user, DB!history
  <2>4. Asking'
    BY <1>3 DEF DBTypes, DBFlags, Server, Asking, Answer, Believes, UnitPending, Updated,
           DB!PingAnswered, DB!server, DB!user, DB!history
  <2>5. Answer'
    BY <1>3 DEF DBTypes, DBFlags, Server, Asking, Answer, Believes, UnitPending, Updated,
           DB!PingAnswered, DB!server, DB!user, DB!history
  <2> QED BY <2>1, <2>2, <2>3, <2>4, <2>5 DEF DBInv
<1>4. CASE DB!Reopen
  <2>1. DBTypes'
    <3>1. /\ link' \in {"up", "lost"} /\ session' \in 1..MaxLost + 1 /\ stmt' \in 0..session'
          /\ at' \in {"out", "ping", "query", "done"} /\ op' \in Ops \union {"none"}
          /\ calls' \in 0..MaxOps /\ (at' # "out" => calls' > 0)
      BY <1>4 DEF DBTypes, DBFlags, DB!Reopen, DB!server, DB!user, DB!history, Server
    <3>2. /\ pending' \in SUBSET (1..calls') /\ table' \in SUBSET (1..calls')
          /\ view' \in SUBSET (1..calls')
      BY <1>4 DEF DBTypes, DBFlags, DB!Reopen, DB!server, DB!user, DB!history, Server
    <3>3. promised' \in SUBSET (1..calls') /\ revoked' \in SUBSET (1..calls')
      BY <1>4 DEF DBTypes, DBFlags, DB!Reopen, DB!server, DB!user, DB!history, Server
    <3>4. unit' \in [open : BOOLEAN, updates : SUBSET (1..calls'),
                     broken : SUBSET {"lost", "ddl", "inherited"}]
      BY <1>4 DEF DBTypes, DBFlags, DB!Reopen, DB!server, DB!user, DB!history, Server
    <3> QED BY <3>1, <3>2, <3>3, <3>4 DEF DBTypes
  <2>2. DBFlags'
    BY <1>4 DEF DBFlags, DB!Reopen, DB!server, DB!user, DB!history
  <2>3. Server'
    BY <1>4 DEF DBTypes, DBFlags, Server, Asking, Answer, Believes, UnitPending, Updated,
           DB!Reopen, DB!server, DB!user, DB!history
  <2>4. Asking'
    BY <1>4 DEF DBTypes, DBFlags, Server, Asking, Answer, Believes, UnitPending, Updated,
           DB!Reopen, DB!server, DB!user, DB!history
  <2>5. Answer'
    BY <1>4 DEF DBTypes, DBFlags, Server, Asking, Answer, Believes, UnitPending, Updated,
           DB!Reopen, DB!server, DB!user, DB!history
  <2> QED BY <2>1, <2>2, <2>3, <2>4, <2>5 DEF DBInv
<1>5. CASE DB!NotReopened
  <2>1. DBTypes'
    BY <1>5 DEF DBTypes, DBFlags, DB!NotReopened, DB!server, DB!user, DB!history
  <2>2. DBFlags'
    BY <1>5 DEF DBFlags, DB!NotReopened, DB!server, DB!user, DB!history
  <2>3. Server'
    BY <1>5 DEF DBTypes, DBFlags, Server, Asking, Answer, Believes, UnitPending, Updated,
           DB!NotReopened, DB!server, DB!user, DB!history
  <2>4. Asking'
    BY <1>5 DEF DBTypes, DBFlags, Server, Asking, Answer, Believes, UnitPending, Updated,
           DB!NotReopened, DB!server, DB!user, DB!history
  <2>5. Answer'
    BY <1>5 DEF DBTypes, DBFlags, Server, Asking, Answer, Believes, UnitPending, Updated,
           DB!NotReopened, DB!server, DB!user, DB!history
  <2> QED BY <2>1, <2>2, <2>3, <2>4, <2>5 DEF DBInv
<1>6. CASE \E affected \in BOOLEAN : DB!Answered(affected)
  <2>1. DBTypes'
    <3>1. /\ link' \in {"up", "lost"} /\ session' \in 1..MaxLost + 1 /\ stmt' \in 0..session'
          /\ at' \in {"out", "ping", "query", "done"} /\ op' \in Ops \union {"none"}
          /\ calls' \in 0..MaxOps /\ (at' # "out" => calls' > 0)
      BY <1>6 DEF DBTypes, DBFlags, DB!Answered, DB!Statement, DB!Update, DB!CommitFirst,
             DB!Writes, DB!Prepared, DB!server, DB!user, DB!history
    <3>2. /\ pending' \in SUBSET (1..calls') /\ table' \in SUBSET (1..calls')
          /\ view' \in SUBSET (1..calls')
      BY <1>6 DEF DBTypes, DBFlags, DB!Answered, DB!Statement, DB!Update, DB!CommitFirst,
             DB!Writes, DB!Prepared, DB!server, DB!user, DB!history
    <3>3. promised' \in SUBSET (1..calls') /\ revoked' \in SUBSET (1..calls')
      BY <1>6 DEF DBTypes, DBFlags, DB!Answered, DB!Statement, DB!Update, DB!CommitFirst,
             DB!Writes, DB!Prepared, DB!server, DB!user, DB!history
    <3>4. unit' \in [open : BOOLEAN, updates : SUBSET (1..calls'),
                     broken : SUBSET {"lost", "ddl", "inherited"}]
      BY <1>6 DEF DBTypes, DBFlags, DB!Answered, DB!Statement, DB!Update, DB!CommitFirst,
             DB!Writes, DB!Prepared, DB!server, DB!user, DB!history
    <3> QED BY <3>1, <3>2, <3>3, <3>4 DEF DBTypes
  <2>2. DBFlags'
    BY <1>6 DEF DBFlags, DB!Answered, DB!Statement, DB!Update, DB!CommitFirst, DB!Writes,
           DB!Prepared, DB!server, DB!user, DB!history
  <2>3. Server'
    BY <1>6 DEF DBTypes, DBFlags, Server, Asking, Answer, Believes, UnitPending, Updated,
           DB!Answered, DB!Statement, DB!Update, DB!CommitFirst, DB!Writes, DB!Prepared,
           DB!server, DB!user, DB!history
  <2>4. Asking'
    BY <1>6 DEF DBTypes, DBFlags, Server, Asking, Answer, Believes, UnitPending, Updated,
           DB!Answered, DB!Statement, DB!Update, DB!CommitFirst, DB!Writes, DB!Prepared,
           DB!server, DB!user, DB!history
  <2>5. Answer'
    <3> PICK affected \in BOOLEAN : DB!Answered(affected)
      BY <1>6
    <3>0. /\ at = "query" /\ at' = "done" /\ DB!Statement(affected)
          /\ result' = (op \in DB!Writes => affected \/ (op = "update" /\ ~care))
          /\ view' = IF op = "query" THEN table \union pending ELSE view
          /\ link = "up" /\ UNCHANGED <<link, op, care, calls, unit, promised, revoked>>
      BY DEF DB!Answered, DB!user, DB!history
    <3>1. CASE op \in DB!Writes
      BY <3>0, <3>1 DEF DBTypes, DBFlags, Server, Asking, Believes, UnitPending, Updated,
             DB!Statement, DB!Update, DB!CommitFirst, DB!Writes, DB!Prepared, DB!server,
             DB!user, DB!history, Answer
    <3>2. CASE op = "start"
      BY <3>0, <3>2 DEF DBTypes, DBFlags, Server, Asking, Believes, UnitPending, Updated,
             DB!Statement, DB!Update, DB!CommitFirst, DB!Writes, DB!Prepared, DB!server,
             DB!user, DB!history, Answer
    <3>3. CASE op \in {"commit", "create", "drop"}
      BY <3>0, <3>3 DEF DBTypes, DBFlags, Server, Asking, Believes, UnitPending, Updated,
             DB!Statement, DB!Update, DB!CommitFirst, DB!Writes, DB!Prepared, DB!server,
             DB!user, DB!history, Answer
    <3>4. CASE op = "rollback"
      BY <3>0, <3>4 DEF DBTypes, DBFlags, Server, Asking, Believes, UnitPending, Updated,
             DB!Statement, DB!Update, DB!CommitFirst, DB!Writes, DB!Prepared, DB!server,
             DB!user, DB!history, Answer
    <3>5. CASE op \notin DB!Writes \union {"start", "commit", "create", "drop", "rollback"}
      BY <3>0, <3>5 DEF DBTypes, DBFlags, Server, Asking, Believes, UnitPending, Updated,
             DB!Statement, DB!Update, DB!CommitFirst, DB!Writes, DB!Prepared, DB!server,
             DB!user, DB!history, Answer
    <3> QED BY <3>1, <3>2, <3>3, <3>4, <3>5
  <2> QED BY <2>1, <2>2, <2>3, <2>4, <2>5 DEF DBInv
<1>7. CASE DB!Rejected
  <2>1. DBTypes'
    BY <1>7 DEF DBTypes, DBFlags, DB!Rejected, DB!server, DB!user, DB!history
  <2>2. DBFlags'
    BY <1>7 DEF DBFlags, DB!Rejected, DB!server, DB!user, DB!history
  <2>3. Server'
    BY <1>7 DEF DBTypes, DBFlags, Server, Asking, Answer, Believes, UnitPending, Updated,
           DB!Rejected, DB!server, DB!user, DB!history
  <2>4. Asking'
    BY <1>7 DEF DBTypes, DBFlags, Server, Asking, Answer, Believes, UnitPending, Updated,
           DB!Rejected, DB!server, DB!user, DB!history
  <2>5. Answer'
    BY <1>7 DEF DBTypes, DBFlags, Server, Asking, Answer, Believes, UnitPending, Updated,
           DB!Rejected, DB!server, DB!user, DB!history
  <2> QED BY <2>1, <2>2, <2>3, <2>4, <2>5 DEF DBInv
<1>8. CASE DB!AnswerLost
  <2>1. DBTypes'
    <3>1. /\ link' \in {"up", "lost"} /\ session' \in 1..MaxLost + 1 /\ stmt' \in 0..session'
          /\ at' \in {"out", "ping", "query", "done"} /\ op' \in Ops \union {"none"}
          /\ calls' \in 0..MaxOps /\ (at' # "out" => calls' > 0)
      BY <1>8 DEF DBTypes, DBFlags, DB!AnswerLost, DB!Broken, DB!Writes, DB!Prepared,
             DB!server, DB!user, DB!history
    <3>2. /\ pending' \in SUBSET (1..calls') /\ table' \in SUBSET (1..calls')
          /\ view' \in SUBSET (1..calls')
      BY <1>8 DEF DBTypes, DBFlags, DB!AnswerLost, DB!Broken, DB!Writes, DB!Prepared,
             DB!server, DB!user, DB!history
    <3>3. promised' \in SUBSET (1..calls') /\ revoked' \in SUBSET (1..calls')
      BY <1>8 DEF DBTypes, DBFlags, DB!AnswerLost, DB!Broken, DB!Writes, DB!Prepared,
             DB!server, DB!user, DB!history
    <3>4. unit' \in [open : BOOLEAN, updates : SUBSET (1..calls'),
                     broken : SUBSET {"lost", "ddl", "inherited"}]
      BY <1>8 DEF DBTypes, DBFlags, DB!AnswerLost, DB!Broken, DB!Writes, DB!Prepared,
             DB!server, DB!user, DB!history
    <3> QED BY <3>1, <3>2, <3>3, <3>4 DEF DBTypes
  <2>2. DBFlags'
    BY <1>8 DEF DBFlags, DB!AnswerLost, DB!Broken, DB!Writes, DB!Prepared, DB!server,
           DB!user, DB!history
  <2>3. Server'
    BY <1>8 DEF DBTypes, DBFlags, Server, Asking, Answer, Believes, UnitPending, Updated,
           DB!AnswerLost, DB!Broken, DB!Writes, DB!Prepared, DB!server, DB!user, DB!history
  <2>4. Asking'
    BY <1>8 DEF DBTypes, DBFlags, Server, Asking, Answer, Believes, UnitPending, Updated,
           DB!AnswerLost, DB!Broken, DB!Writes, DB!Prepared, DB!server, DB!user, DB!history
  <2>5. Answer'
    BY <1>8 DEF DBTypes, DBFlags, Server, Asking, Answer, Believes, UnitPending, Updated,
           DB!AnswerLost, DB!Broken, DB!Writes, DB!Prepared, DB!server, DB!user, DB!history
  <2> QED BY <2>1, <2>2, <2>3, <2>4, <2>5 DEF DBInv
<1>9. CASE DB!Return
  <2>1. DBTypes'
    <3>1. /\ link' \in {"up", "lost"} /\ session' \in 1..MaxLost + 1 /\ stmt' \in 0..session'
          /\ at' \in {"out", "ping", "query", "done"} /\ op' \in Ops \union {"none"}
          /\ calls' \in 0..MaxOps /\ (at' # "out" => calls' > 0)
      BY <1>9 DEF DBTypes, DBFlags, DB!Return, DB!NoUnit, DB!Broken, DB!Writes, DB!server,
             DB!user, DB!history
    <3>2. /\ pending' \in SUBSET (1..calls') /\ table' \in SUBSET (1..calls')
          /\ view' \in SUBSET (1..calls')
      BY <1>9 DEF DBTypes, DBFlags, DB!Return, DB!NoUnit, DB!Broken, DB!Writes, DB!server,
             DB!user, DB!history
    <3>3. promised' \in SUBSET (1..calls') /\ revoked' \in SUBSET (1..calls')
      BY <1>9 DEF DBTypes, DBFlags, DB!Return, DB!NoUnit, DB!Broken, DB!Writes, DB!server,
             DB!user, DB!history
    <3>4. unit' \in [open : BOOLEAN, updates : SUBSET (1..calls'),
                     broken : SUBSET {"lost", "ddl", "inherited"}]
      BY <1>9 DEF DBTypes, DBFlags, DB!Return, DB!NoUnit, DB!Broken, DB!Writes, DB!server,
             DB!user, DB!history
    <3> QED BY <3>1, <3>2, <3>3, <3>4 DEF DBTypes
  <2>2. DBFlags'
    BY <1>9 DEF DBFlags, DB!Return, DB!NoUnit, DB!Broken, DB!Writes, DB!server, DB!user,
           DB!history
  <2>3. Server'
    BY <1>9 DEF DBTypes, DBFlags, Server, Asking, Answer, Believes, UnitPending, Updated,
           DB!Return, DB!NoUnit, DB!Broken, DB!Writes, DB!server, DB!user, DB!history
  <2>4. Asking'
    BY <1>9 DEF DBTypes, DBFlags, Server, Asking, Answer, Believes, UnitPending, Updated,
           DB!Return, DB!NoUnit, DB!Broken, DB!Writes, DB!server, DB!user, DB!history
  <2>5. Answer'
    BY <1>9 DEF DBTypes, DBFlags, Server, Asking, Answer, Believes, UnitPending, Updated,
           DB!Return, DB!NoUnit, DB!Broken, DB!Writes, DB!server, DB!user, DB!history
  <2> QED BY <2>1, <2>2, <2>3, <2>4, <2>5 DEF DBInv
<1>10. CASE DB!ChangeUser
  <2>1. DBTypes'
    <3>1. /\ link' \in {"up", "lost"} /\ session' \in 1..MaxLost + 1 /\ stmt' \in 0..session'
          /\ at' \in {"out", "ping", "query", "done"} /\ op' \in Ops \union {"none"}
          /\ calls' \in 0..MaxOps /\ (at' # "out" => calls' > 0)
      BY <1>10 DEF DBTypes, DBFlags, DB!ChangeUser, DB!NoUnit, DB!server, DB!user,
             DB!history
    <3>2. /\ pending' \in SUBSET (1..calls') /\ table' \in SUBSET (1..calls')
          /\ view' \in SUBSET (1..calls')
      BY <1>10 DEF DBTypes, DBFlags, DB!ChangeUser, DB!NoUnit, DB!server, DB!user,
             DB!history
    <3>3. promised' \in SUBSET (1..calls') /\ revoked' \in SUBSET (1..calls')
      BY <1>10 DEF DBTypes, DBFlags, DB!ChangeUser, DB!NoUnit, DB!server, DB!user,
             DB!history
    <3>4. unit' \in [open : BOOLEAN, updates : SUBSET (1..calls'),
                     broken : SUBSET {"lost", "ddl", "inherited"}]
      BY <1>10 DEF DBTypes, DBFlags, DB!ChangeUser, DB!NoUnit, DB!server, DB!user,
             DB!history
    <3> QED BY <3>1, <3>2, <3>3, <3>4 DEF DBTypes
  <2>2. DBFlags'
    BY <1>10 DEF DBFlags, DB!ChangeUser, DB!NoUnit, DB!server, DB!user, DB!history
  <2>3. Server'
    BY <1>10 DEF DBTypes, DBFlags, Server, Asking, Answer, Believes, UnitPending, Updated,
           DB!ChangeUser, DB!NoUnit, DB!server, DB!user, DB!history
  <2>4. Asking'
    BY <1>10 DEF DBTypes, DBFlags, Server, Asking, Answer, Believes, UnitPending, Updated,
           DB!ChangeUser, DB!NoUnit, DB!server, DB!user, DB!history
  <2>5. Answer'
    BY <1>10 DEF DBTypes, DBFlags, Server, Asking, Answer, Believes, UnitPending, Updated,
           DB!ChangeUser, DB!NoUnit, DB!server, DB!user, DB!history
  <2> QED BY <2>1, <2>2, <2>3, <2>4, <2>5 DEF DBInv
<1> QED BY <1>1, <1>2, <1>3, <1>4, <1>5, <1>6, <1>7, <1>8, <1>9, <1>10 DEF DB!Next

LEMMA DBFrame == DBInv /\ UNCHANGED dbVars => DBInv'
  BY DEF dbVars, DBInv, DBTypes, DBFlags, Server, Asking, Answer, Believes, UnitPending,
         Updated

LEMMA DBSafe == DBInv => DB!TypeOK /\ DB!TransactionsKept
<1> SUFFICES ASSUME DBInv PROVE DB!TypeOK /\ DB!TransactionsKept
  OBVIOUS
<1>0. DBTypes /\ DBFlags /\ Server /\ Asking /\ Answer
  BY DEF DBInv
<1>1. DB!TypeOK
  BY <1>0 DEF DBTypes, DBFlags, Server, DB!TypeOK
<1>2. DB!TransactionsKept
  BY <1>0 DEF DBTypes, DBFlags, Server, Asking, Answer, Believes, UnitPending,
         DB!TransactionsKept
<1> QED BY <1>1, <1>2

-----------------------------------------------------------------------------
CONSTANTS
  \* DBStatements
  Tasks, Inserts

\* The main threads of test_curd and test_dbpool are no tasks of the pool.
ASSUME StatementsAssumption == "curd" \notin Tasks /\ "pool" \notin Tasks

VARIABLES
  exists, version, rows, clientAt, prepared, stored, IMUser_nId, insertions, phase, ret,
  shown, mine

statementVars == <<exists, version, rows, clientAt, prepared, stored, IMUser_nId,
                   insertions, phase, ret, shown, mine>>

Statements == INSTANCE DBStatements WITH
  at <- clientAt, stmt <- prepared, result <- stored, number <- insertions, round <- phase,
  seen <- shown

-----------------------------------------------------------------------------
(* Prepared statements and result sets of the MySQL pool (DBPool.cpp).           *)

Columns == 1..Statements!Params

\* What a column holds, and what a row is.
Cells == Statements!Clients \X Nat \X Columns \union {Statements!Garbage}
Row == [values : [Columns -> Cells], updated : BOOLEAN]

\* m_param_bind: none, or for each parameter an address or nothing.
Pointers == {<<"at", column>> : column \in Columns} \union {Statements!Unset}
StatementRecord == [open : BOOLEAN, bind : {<<>>} \union [Columns -> Pointers],
               set : 0..Statements!Params, id : Nat]

TableTypes == exists \in BOOLEAN /\ version \in Nat /\ rows \in Seq(Row)
ClientTypes == /\ prepared \in [Statements!Clients -> StatementRecord]
               /\ insertions \in [Statements!Clients -> Nat]
               /\ ret \in [Statements!Clients -> BOOLEAN]
CurdTypes == /\ stored \in [open : BOOLEAN, rows : Seq(Row), row : Nat]
             /\ IMUser_nId \in Nat /\ phase \in 1..3

\* Where each client can be.
Inserting == {"insert", "set", "id", "close"}
Querying == {"query", "next", "read", "free", "update", "leave"}
ClientPlaces ==
  /\ clientAt \in [Statements!Clients -> {"wait", "drop", "create", "run"} \union Inserting
       \union Querying]
  /\ clientAt[Statements!Curd] \in {"drop", "create"} \union Inserting \union Querying
  /\ clientAt[Statements!Pool] \in {"drop", "create", "run", "leave"}
  /\ \A t \in Tasks : clientAt[t] \in {"wait", "leave"} \union Inserting
  /\ clientAt[Statements!Curd] \in {"drop", "create"} => phase \in 1..2
  /\ clientAt[Statements!Curd] \in Inserting => phase = 2

\* How often the table can have been created.
Creations == (IF clientAt[Statements!Curd] \in {"drop", "create"} THEN phase - 1 ELSE 2)
             + (IF clientAt[Statements!Pool] \in {"drop", "create"} THEN 0 ELSE 1)
Created == version <= Creations /\ (rows # <<>> => exists)

\* The parameters that are set have the addresses of their variables.
Bound ==
  \A who \in Statements!Clients : clientAt[who] = "set" =>
    /\ insertions[who] > 0
    /\ prepared[who].bind \in [Columns -> Pointers]
    /\ \A column \in 1..prepared[who].set : prepared[who].bind[column] = <<"at", column>>

\* The table is that of test_curd's last insertion.
Own == mine # <<>> /\ version = mine[1] /\ exists
OwnId == IF clientAt[Statements!Curd] = "id" THEN prepared[Statements!Curd].id ELSE IMUser_nId
OwnRow ==
  /\ mine # <<>> => mine \in Nat \X Nat \X Nat /\ mine[1] <= version
  /\ Own => /\ mine[2] \in DOMAIN rows /\ OwnId = mine[2]
            /\ rows[mine[2]].values[1] = <<Statements!Curd, mine[3], 1>>

\* What test_curd has read, or stored to read, is that row.
Stored ==
  /\ stored.open <=> clientAt[Statements!Curd] \in {"next", "read", "free"}
  /\ Len(stored.rows) <= 1
  /\ clientAt[Statements!Curd] = "next" => stored.row = 0
  /\ clientAt[Statements!Curd] = "read" => stored.row = 1 /\ Len(stored.rows) = 1
  /\ clientAt[Statements!Curd] \notin Querying => shown = <<>>
  /\ Own /\ stored.open => \A k \in DOMAIN stored.rows : stored.rows[k].values
       = rows[mine[2]].values
  /\ Own /\ shown # <<>> => shown[1].values = rows[mine[2]].values

\* Only the row of test_curd's last id is updated, after all insertions of test_curd.
UpdatedOwn == \A id \in DOMAIN rows : rows[id].updated =>
                id = IMUser_nId /\ clientAt[Statements!Curd] \in Querying

\* A client has a statement open from its preparation to the end of insertUser.
Freed == \A who \in Statements!Clients :
           prepared[who].open <=> clientAt[who] \in {"set", "id", "close"}

\* The values are those of one of the insertions that the clients have begun.
MeantBy(values, who, n) ==
  \A column \in Columns : \/ values[column] = <<who, n, column>>
                          \/ who \in Tasks /\ column = Statements!Phone
Meant(values, begun) == \E who \in Statements!Clients : \E n \in 1..begun[who] :
                          MeantBy(values, who, n)
RowsMeant == \A id \in DOMAIN rows : Meant(rows[id].values, insertions)

StatementsInv == /\ TableTypes /\ ClientTypes /\ CurdTypes /\ ClientPlaces /\ Created
                 /\ Bound /\ OwnRow /\ Stored /\ UpdatedOwn /\ Freed /\ RowsMeant

LEMMA ClientNames ==
  /\ Statements!Curd \in Statements!Clients /\ Statements!Pool \in Statements!Clients
  /\ Statements!Curd # Statements!Pool
  /\ Statements!Curd \notin Tasks /\ Statements!Pool \notin Tasks
  /\ \A t \in Tasks : t \in Statements!Clients
  /\ \A who \in Statements!Clients :
       who = Statements!Curd \/ who = Statements!Pool \/ who \in Tasks
  BY StatementsAssumption DEF Statements!Clients, Statements!Curd, Statements!Pool

LEMMA RecordFields ==
  ASSUME NEW r \in StatementRecord
  PROVE  /\ r.open \in BOOLEAN /\ r.set \in 0..3 /\ r.id \in Nat
         /\ r.bind = <<>> \/ r.bind \in [Columns -> Pointers]
  BY DEF StatementRecord, Statements!Params

LEMMA NoStatementRecord ==
  Statements!NoStatement \in StatementRecord /\ Statements!NoStatement.open = FALSE
  BY DEF StatementRecord, Statements!NoStatement, Statements!Params

LEMMA MeantMonotone ==
  ASSUME NEW values, NEW before \in [Statements!Clients -> Nat],
         NEW after \in [Statements!Clients -> Nat],
         \A who \in Statements!Clients : before[who] <= after[who], Meant(values, before)
  PROVE  Meant(values, after)
<1> PICK who \in Statements!Clients : \E n \in 1..before[who] : MeantBy(values, who, n)
  BY DEF Meant
<1> PICK n \in 1..before[who] : MeantBy(values, who, n)
  OBVIOUS
<1>1. n \in 1..after[who]
  OBVIOUS
<1> QED BY <1>1 DEF Meant

LEMMA RecordUpdated ==
  ASSUME NEW r \in StatementRecord, NEW bind \in [Columns -> Pointers]
  PROVE  /\ [r EXCEPT !.open = TRUE, !.bind = bind] \in StatementRecord
         /\ \A index \in 0..3 : [r EXCEPT !.bind = bind, !.set = index] \in StatementRecord
         /\ \A n \in Nat : [r EXCEPT !.id = n] \in StatementRecord
<1> PICK B : B = {<<>>} \union [Columns -> Pointers]
  OBVIOUS
<1>1. StatementRecord = [open : BOOLEAN, bind : B, set : 0..3, id : Nat] /\ bind \in B
  BY DEF StatementRecord, Statements!Params
<1>2. r \in [open : BOOLEAN, bind : B, set : 0..3, id : Nat]
  BY <1>1
<1>3. /\ [r EXCEPT !.open = TRUE, !.bind = bind]
           \in [open : BOOLEAN, bind : B, set : 0..3, id : Nat]
      /\ \A index \in 0..3 : [r EXCEPT !.bind = bind, !.set = index]
                               \in [open : BOOLEAN, bind : B, set : 0..3, id : Nat]
      /\ \A n \in Nat : [r EXCEPT !.id = n] \in [open : BOOLEAN, bind : B, set : 0..3, id : Nat]
  BY ONLY <1>2, bind \in B
<1> QED BY ONLY <1>1, <1>3

LEMMA NewRecord ==
  LET r == [Statements!NoStatement EXCEPT !.open = TRUE,
              !.bind = [p \in 1..Statements!Params |-> Statements!Unset]]
  IN r \in StatementRecord /\ r.open = TRUE /\ r.set = 0 /\ r.bind \in [Columns -> Pointers]
<1> PICK bind : bind = [p \in 1..Statements!Params |-> Statements!Unset]
  OBVIOUS
<1>1. bind \in [Columns -> Pointers]
  BY DEF Columns, Pointers
<1>2. [Statements!NoStatement EXCEPT !.open = TRUE, !.bind = bind] \in StatementRecord
  BY <1>1, NoStatementRecord, RecordUpdated
<1>3. /\ [Statements!NoStatement EXCEPT !.open = TRUE, !.bind = bind].open = TRUE
      /\ [Statements!NoStatement EXCEPT !.open = TRUE, !.bind = bind].set = 0
      /\ [Statements!NoStatement EXCEPT !.open = TRUE, !.bind = bind].bind = bind
  BY DEF Statements!NoStatement
<1> QED BY <1>1, <1>2, <1>3

LEMMA NoRows == <<>> \in Seq(Row) /\ Len(<<>>) = 0
  BY EmptySeq

LEMMA PointerSet ==
  ASSUME NEW column
  PROVE  <<"at", column>> # Statements!Unset /\ <<"at", column>>[2] = column
<1>1. Len(<<"at", column>>) = 2 /\ Len(<<>>) = 0
  OBVIOUS
<1> QED BY <1>1 DEF Statements!Unset

\* A sequence of one item.
LEMMA OneItem ==
  ASSUME NEW S, NEW x \in S
  PROVE  <<x>> \in Seq(S) /\ Len(<<x>>) = 1 /\ <<x>>[1] = x /\ DOMAIN <<x>> = {1}
  OBVIOUS

LEMMA UpdateEffect ==
  ASSUME StatementsInv, NEW works \in BOOLEAN, Statements!Update(works)
  PROVE  /\ rows' \in Seq(Row) /\ DOMAIN rows' = DOMAIN rows
         /\ \A id \in DOMAIN rows : rows'[id].values = rows[id].values
         /\ \A id \in DOMAIN rows : rows'[id].updated => rows[id].updated \/ id = IMUser_nId
         /\ rows' # <<>> => rows # <<>>
<1>0. TableTypes
  BY DEF StatementsInv
<1>1. CASE works /\ IMUser_nId \in DOMAIN rows
  <2> PICK row : row = [rows[IMUser_nId] EXCEPT !.updated = TRUE]
    OBVIOUS
  <2>1. rows[IMUser_nId] \in Row
    BY <1>0, <1>1 DEF TableTypes
  <2>2. row \in Row /\ row.values = rows[IMUser_nId].values
    BY <2>1 DEF Row
  <2>3. rows' = [rows EXCEPT ![IMUser_nId] = row]
    BY <1>1 DEF Statements!Update
  <2>4. /\ rows \in Seq(Row) /\ DOMAIN rows = 1..Len(rows) /\ IMUser_nId \in 1..Len(rows)
        /\ Len(rows) \in Nat
    BY <1>0, <1>1, LenProperties DEF TableTypes
  <2>5. /\ rows' \in Seq(Row) /\ Len(rows') = Len(rows)
        /\ \A id \in 1..Len(rows) : rows'[id] = IF id = IMUser_nId THEN row ELSE rows[id]
    BY ONLY <2>2, <2>3, <2>4, ExceptSeq
  <2>6. DOMAIN rows' = DOMAIN rows
    BY <2>4, <2>5, LenProperties
  <2>7. rows # <<>>
    BY <2>4, NoRows
  <2> QED BY <2>2, <2>4, <2>5, <2>6, <2>7
<1>2. CASE ~(works /\ IMUser_nId \in DOMAIN rows)
  BY <1>0, <1>2 DEF Statements!Update, TableTypes
<1> QED BY <1>1, <1>2

LEMMA ExecuteEffect ==
  ASSUME StatementsInv, NEW c \in Statements!Clients, NEW works \in BOOLEAN, NEW phone \in Cells,
         Statements!Execute(c, phone, works), works
  PROVE  \E values \in [Columns -> Cells] :
           /\ rows' = Append(rows, [values |-> values, updated |-> FALSE])
           /\ MeantBy(values, c, insertions[c]) /\ insertions[c] \in 1..insertions[c]
           /\ values[1] = <<c, insertions[c], 1>>
<1>0. TableTypes /\ ClientTypes /\ Bound
  BY DEF StatementsInv
<1>1. /\ clientAt[c] = "set" /\ prepared[c].set = 3 /\ phone \in Statements!Held(c, 3)
      /\ prepared[c] \in StatementRecord
  BY <1>0 DEF Statements!Execute, Statements!Goes, Statements!Params, Statements!Phone,
         ClientTypes
<1>2. \A column \in Columns : prepared[c].bind[column] = <<"at", column>>
  BY <1>0, <1>1 DEF Bound, Columns, Statements!Params
<1>3. insertions[c] \in Nat /\ insertions[c] \in 1..insertions[c]
  BY <1>0, <1>1 DEF Bound, ClientTypes
<1> PICK n \in Nat : n = insertions[c]
  BY <1>3
<1> DEFINE Value(b) == IF b = Statements!Unset THEN Statements!Unset
                       ELSE IF b[2] = Statements!Phone THEN phone
                            ELSE Statements!Variable(c, b[2])
           values == [p \in Columns |-> Value(prepared[c].bind[p])]
<1>4. rows' = Append(rows, [values |-> values, updated |-> FALSE])
  BY DEF Statements!Execute, Columns
<1>5. \A column \in Columns : values[column] = IF column = 3 THEN phone ELSE <<c, n, column>>
  <2> SUFFICES ASSUME NEW column \in Columns
               PROVE  values[column] = IF column = 3 THEN phone ELSE <<c, n, column>>
    OBVIOUS
  <2>1. values[column] = Value(<<"at", column>>)
    BY <1>2
  <2>2. <<"at", column>> # Statements!Unset /\ <<"at", column>>[2] = column
    BY PointerSet
  <2>3. Value(<<"at", column>>) = IF column = 3 THEN phone ELSE <<c, n, column>>
    BY <2>2 DEF Statements!Phone, Statements!Variable
  <2> QED BY <2>1, <2>3
<1>6. \A column \in Columns : <<c, n, column>> \in Cells
  BY DEF Cells
<1>7. 1 \in Columns /\ 1 # 3
  BY DEF Columns, Statements!Params
<1> HIDE DEF values
<1>8. values \in [Columns -> Cells]
  BY <1>5, <1>6 DEF values
<1>9. values[1] = <<c, n, 1>>
  BY <1>5, <1>7
<1>10. MeantBy(values, c, n)
  <2>1. phone = <<c, n, 3>> \/ c \in Tasks
    BY <1>1 DEF Statements!Held, Statements!Variable
  <2> QED BY <1>5, <2>1 DEF MeantBy, Statements!Phone
<1> QED BY <1>3, <1>4, <1>8, <1>9, <1>10

\* The effect of an insertion that works.
LEMMA ExecuteRows ==
  ASSUME StatementsInv, NEW c \in Statements!Clients, NEW works \in BOOLEAN, NEW phone \in Cells,
         Statements!Execute(c, phone, works), works
  PROVE  /\ rows' \in Seq(Row) /\ Len(rows) + 1 \in Nat
         /\ DOMAIN rows' = DOMAIN rows \union {Len(rows) + 1} /\ Len(rows) + 1 \notin DOMAIN rows
         /\ \A id \in DOMAIN rows : rows'[id] = rows[id]
         /\ rows'[Len(rows) + 1].values[1] = <<c, insertions[c], 1>>
         /\ ~rows'[Len(rows) + 1].updated
         /\ Meant(rows'[Len(rows) + 1].values, insertions)
<1>0. TableTypes
  BY DEF StatementsInv
<1> PICK values \in [Columns -> Cells] :
           /\ rows' = Append(rows, [values |-> values, updated |-> FALSE])
           /\ MeantBy(values, c, insertions[c]) /\ insertions[c] \in 1..insertions[c]
           /\ values[1] = <<c, insertions[c], 1>>
  BY ExecuteEffect
<1> PICK row : row = [values |-> values, updated |-> FALSE]
  OBVIOUS
<1>1. row \in Row /\ row.values = values /\ ~row.updated
  BY DEF Row
<1>2. rows \in Seq(Row) /\ rows' = Append(rows, row)
  BY <1>0 DEF TableTypes
<1>3. /\ rows' \in Seq(Row) /\ Len(rows') = Len(rows) + 1
      /\ \A id \in 1..Len(rows) : rows'[id] = rows[id]
      /\ rows'[Len(rows) + 1] = row
  BY ONLY <1>1, <1>2, AppendProperties
<1>4. /\ DOMAIN rows = 1..Len(rows) /\ Len(rows) \in Nat
      /\ DOMAIN rows' = 1..Len(rows')
  BY <1>2, <1>3, LenProperties
<1>5. /\ DOMAIN rows' = DOMAIN rows \union {Len(rows) + 1} /\ Len(rows) + 1 \notin DOMAIN rows
      /\ Len(rows) + 1 \in Nat
  BY <1>3, <1>4
<1>6. Meant(values, insertions)
  BY DEF Meant
<1> QED BY <1>1, <1>3, <1>4, <1>5, <1>6

LEMMA StatementsInitInv == Statements!Init => StatementsInv
<1> SUFFICES ASSUME Statements!Init PROVE StatementsInv
  OBVIOUS
<1> USE ClientNames, NoStatementRecord
<1>1. TableTypes
  <2>1. exists \in BOOLEAN
    BY DEF Statements!Init
  <2>2. version \in Nat /\ rows \in Seq(Row)
    BY NoRows DEF Statements!Init
  <2> QED BY <2>1, <2>2 DEF TableTypes
<1>2. ClientTypes
  BY DEF Statements!Init, Statements!NoResult, ClientTypes
<1>3. CurdTypes
  BY DEF Statements!Init, Statements!NoResult, CurdTypes, TableTypes
<1>4. ClientPlaces
  BY DEF Statements!Init, Statements!NoResult, ClientPlaces, Inserting, Querying
<1>5. Created
  BY DEF Statements!Init, Statements!NoResult, Created, Creations, TableTypes, CurdTypes,
         ClientPlaces, Inserting, Querying
<1>6. Bound
  BY DEF Statements!Init, Statements!NoResult, Bound, ClientTypes, ClientPlaces, Inserting,
         Querying
<1>7. OwnRow
  BY DEF Statements!Init, Statements!NoResult, OwnRow, Own, OwnId, TableTypes, Created,
         ClientPlaces, Inserting, Querying
<1>8. Stored
  <2>1. clientAt[Statements!Curd] = "drop"
    BY DEF Statements!Init
  <2>2. stored.open = FALSE /\ stored.rows = <<>> /\ shown = <<>>
    BY DEF Statements!Init, Statements!NoResult
  <2>3. Len(stored.rows) <= 1
    BY <2>2, NoRows
  <2> QED BY <2>1, <2>2, <2>3 DEF Stored, Querying
<1>9. UpdatedOwn
  BY DEF Statements!Init, Statements!NoResult, UpdatedOwn, TableTypes, ClientPlaces,
         Inserting, Querying
<1>10. Freed
  <2> SUFFICES ASSUME NEW who \in Statements!Clients
               PROVE  prepared[who].open <=> clientAt[who] \in {"set", "id", "close"}
    BY DEF Freed
  <2>1. prepared[who].open = FALSE
    BY DEF Statements!Init
  <2>2. clientAt[who] \notin {"set", "id", "close"}
    BY DEF Statements!Init
  <2> QED BY <2>1, <2>2
<1>11. RowsMeant
  BY DEF Statements!Init, Statements!NoResult, RowsMeant, TableTypes
<1> QED BY <1>1, <1>2, <1>3, <1>4, <1>5, <1>6, <1>7, <1>8, <1>9, <1>10, <1>11
           DEF StatementsInv

LEMMA StatementsDrop ==
  ASSUME StatementsInv, NEW c \in Statements!Clients, NEW works \in BOOLEAN,
         Statements!Drop(c, works)
  PROVE  StatementsInv'
<1>0. /\ TableTypes /\ ClientTypes /\ CurdTypes /\ ClientPlaces /\ Created
      /\ Bound /\ OwnRow /\ Stored /\ UpdatedOwn /\ Freed /\ RowsMeant
  BY DEF StatementsInv
<1> USE <1>0, ClientNames, NoStatementRecord
<1>1. TableTypes'
  <2>1. exists' \in BOOLEAN
    BY DEF Statements!Drop, Statements!Goes, Statements!Returns, Statements!table,
           TableTypes
  <2>2. version' \in Nat /\ rows' \in Seq(Row)
    BY NoRows DEF Statements!Drop, Statements!Goes, Statements!Returns, Statements!table,
           TableTypes
  <2> QED BY <2>1, <2>2 DEF TableTypes
<1>2. ClientTypes'
  BY DEF Statements!Drop, Statements!Goes, Statements!Returns, Statements!table, ClientTypes
<1>3. CurdTypes'
  BY DEF Statements!Drop, Statements!Goes, Statements!Returns, Statements!table, CurdTypes,
         TableTypes
<1>4. ClientPlaces'
  BY DEF Statements!Drop, Statements!Goes, Statements!Returns, Statements!table,
         ClientPlaces, Inserting, Querying
<1>5. Created'
  BY DEF Statements!Drop, Statements!Goes, Statements!Returns, Statements!table, Created,
         Creations, TableTypes, CurdTypes, ClientPlaces, Inserting, Querying
<1>6. Bound'
  BY DEF Statements!Drop, Statements!Goes, Statements!Returns, Statements!table, Bound,
         ClientTypes, ClientPlaces, Inserting, Querying
<1>7. OwnRow'
  BY DEF Statements!Drop, Statements!Goes, Statements!Returns, Statements!table, OwnRow,
         Own, OwnId, TableTypes, Created, ClientPlaces, Inserting, Querying
<1>8. Stored'
  BY DEF Statements!Drop, Statements!Goes, Statements!Returns, Statements!table, Stored,
         Own, OwnRow, TableTypes, CurdTypes, Created, ClientPlaces, Inserting, Querying
<1>9. UpdatedOwn'
  BY DEF Statements!Drop, Statements!Goes, Statements!Returns, Statements!table, UpdatedOwn,
         TableTypes, ClientPlaces, Inserting, Querying
<1>10. Freed'
  BY DEF Statements!Drop, Statements!Goes, Statements!Returns, Statements!table, Freed,
         ClientTypes, ClientPlaces, Inserting, Querying
<1>11. RowsMeant'
  BY DEF Statements!Drop, Statements!Goes, Statements!Returns, Statements!table, RowsMeant,
         TableTypes
<1> QED BY <1>1, <1>2, <1>3, <1>4, <1>5, <1>6, <1>7, <1>8, <1>9, <1>10, <1>11
           DEF StatementsInv

LEMMA StatementsCreate ==
  ASSUME StatementsInv, NEW c \in Statements!Clients, NEW works \in BOOLEAN,
         Statements!Create(c, works)
  PROVE  StatementsInv'
<1>0. /\ TableTypes /\ ClientTypes /\ CurdTypes /\ ClientPlaces /\ Created
      /\ Bound /\ OwnRow /\ Stored /\ UpdatedOwn /\ Freed /\ RowsMeant
  BY DEF StatementsInv
<1> USE <1>0, ClientNames, NoStatementRecord
<1>1. TableTypes'
  <2>1. exists' \in BOOLEAN
    BY DEF Statements!Create, Statements!Goes, Statements!Returns, Statements!table,
           TableTypes
  <2>2. version' \in Nat /\ rows' \in Seq(Row)
    BY NoRows DEF Statements!Create, Statements!Goes, Statements!Returns, Statements!table,
           TableTypes
  <2> QED BY <2>1, <2>2 DEF TableTypes
<1>2. ClientTypes'
  BY DEF Statements!Create, Statements!Goes, Statements!Returns, Statements!table,
         ClientTypes
<1>3. CurdTypes'
  BY DEF Statements!Create, Statements!Goes, Statements!Returns, Statements!table,
         CurdTypes, TableTypes
<1>4. ClientPlaces'
  BY DEF Statements!Create, Statements!Goes, Statements!Returns, Statements!table,
         ClientPlaces, Inserting, Querying
<1>5. Created'
  BY DEF Statements!Create, Statements!Goes, Statements!Returns, Statements!table, Created,
         Creations, TableTypes, CurdTypes, ClientPlaces, Inserting, Querying
<1>6. Bound'
  BY DEF Statements!Create, Statements!Goes, Statements!Returns, Statements!table, Bound,
         ClientTypes, ClientPlaces, Inserting, Querying
<1>7. OwnRow'
  BY DEF Statements!Create, Statements!Goes, Statements!Returns, Statements!table, OwnRow,
         Own, OwnId, TableTypes, Created, ClientPlaces, Inserting, Querying
<1>8. Stored'
  BY DEF Statements!Create, Statements!Goes, Statements!Returns, Statements!table, Stored,
         Own, OwnRow, TableTypes, CurdTypes, Created, ClientPlaces, Inserting, Querying
<1>9. UpdatedOwn'
  BY DEF Statements!Create, Statements!Goes, Statements!Returns, Statements!table,
         UpdatedOwn, TableTypes, ClientPlaces, Inserting, Querying
<1>10. Freed'
  BY DEF Statements!Create, Statements!Goes, Statements!Returns, Statements!table, Freed,
         ClientTypes, ClientPlaces, Inserting, Querying
<1>11. RowsMeant'
  BY DEF Statements!Create, Statements!Goes, Statements!Returns, Statements!table,
         RowsMeant, TableTypes
<1> QED BY <1>1, <1>2, <1>3, <1>4, <1>5, <1>6, <1>7, <1>8, <1>9, <1>10, <1>11
           DEF StatementsInv

LEMMA StatementsPrepare ==
  ASSUME StatementsInv, NEW c \in Statements!Clients, NEW works \in BOOLEAN,
         Statements!Prepare(c, works)
  PROVE  StatementsInv'
<1>0. /\ TableTypes /\ ClientTypes /\ CurdTypes /\ ClientPlaces /\ Created
      /\ Bound /\ OwnRow /\ Stored /\ UpdatedOwn /\ Freed /\ RowsMeant
  BY DEF StatementsInv
<1> USE <1>0, ClientNames, NoStatementRecord
<1>1. TableTypes'
  BY DEF Statements!Prepare, Statements!Goes, Statements!Returns, Statements!table,
         TableTypes
<1>2. ClientTypes'
  <2>1. prepared' \in [Statements!Clients -> StatementRecord]
    BY NewRecord DEF Statements!Prepare, ClientTypes
  <2>2. insertions' \in [Statements!Clients -> Nat]
    BY DEF Statements!Prepare, ClientTypes
  <2>3. ret' \in [Statements!Clients -> BOOLEAN]
    BY DEF Statements!Prepare, Statements!Returns, ClientTypes
  <2> QED BY <2>1, <2>2, <2>3 DEF ClientTypes
<1>3. CurdTypes'
  BY DEF Statements!Prepare, Statements!Goes, Statements!Returns, Statements!table,
         CurdTypes, TableTypes
<1>4. ClientPlaces'
  BY DEF Statements!Prepare, Statements!Goes, Statements!Returns, Statements!table,
         ClientPlaces, Inserting, Querying
<1>5. Created'
  BY DEF Statements!Prepare, Statements!Goes, Statements!Returns, Statements!table, Created,
         Creations, TableTypes, CurdTypes, ClientPlaces, Inserting, Querying
<1>6. Bound'
  <2> SUFFICES ASSUME NEW who \in Statements!Clients, clientAt'[who] = "set"
               PROVE  /\ insertions'[who] > 0
                      /\ prepared'[who].bind \in [Columns -> Pointers]
                      /\ \A column \in 1..prepared'[who].set :
                           prepared'[who].bind[column] = <<"at", column>>
    BY DEF Bound
  <2>1. CASE who = c
    <3>1. insertions'[c] = insertions[c] + 1 /\ insertions[c] \in Nat
      BY DEF Statements!Prepare, ClientTypes
    <3>2. prepared'[c].bind \in [Columns -> Pointers] /\ prepared'[c].set = 0
      BY NewRecord DEF Statements!Prepare, ClientTypes
    <3> QED BY <2>1, <3>1, <3>2
  <2>2. CASE who # c
    <3>1. /\ insertions'[who] = insertions[who] /\ prepared'[who] = prepared[who]
          /\ clientAt[who] = "set"
      BY <2>2 DEF Statements!Prepare, Statements!Goes, ClientTypes, ClientPlaces
    <3> QED BY <3>1 DEF Bound
  <2> QED BY <2>1, <2>2
<1>7. OwnRow'
  BY DEF Statements!Prepare, Statements!Goes, Statements!Returns, Statements!table, OwnRow,
         Own, OwnId, TableTypes, Created, ClientPlaces, Inserting, Querying
<1>8. Stored'
  BY DEF Statements!Prepare, Statements!Goes, Statements!Returns, Statements!table, Stored,
         Own, OwnRow, TableTypes, CurdTypes, Created, ClientPlaces, Inserting, Querying
<1>9. UpdatedOwn'
  BY DEF Statements!Prepare, Statements!Goes, Statements!Returns, Statements!table,
         UpdatedOwn, TableTypes, ClientPlaces, Inserting, Querying
<1>10. Freed'
  <2> SUFFICES ASSUME NEW who \in Statements!Clients
               PROVE  prepared'[who].open <=> clientAt'[who] \in {"set", "id", "close"}
    BY DEF Freed
  <2>1. CASE who = c
    <3>1. prepared'[c].open = TRUE
      BY NewRecord DEF Statements!Prepare, ClientTypes
    <3>2. clientAt'[c] \in {"set", "id", "close"}
      BY DEF Statements!Prepare, Statements!Goes, ClientPlaces
    <3> QED BY <2>1, <3>1, <3>2
  <2>2. CASE who # c
    <3>1. prepared'[who] = prepared[who] /\ clientAt'[who] = clientAt[who]
      BY <2>2 DEF Statements!Prepare, Statements!Goes, ClientTypes, ClientPlaces
    <3> QED BY <3>1 DEF Freed
  <2> QED BY <2>1, <2>2
<1>11. RowsMeant'
  <2>1. /\ insertions' = [insertions EXCEPT ![c] = @ + 1] /\ rows' = rows
        /\ insertions \in [Statements!Clients -> Nat]
    BY DEF Statements!Prepare, Statements!table, ClientTypes
  <2>2. /\ insertions' \in [Statements!Clients -> Nat]
        /\ \A who \in Statements!Clients : insertions[who] <= insertions'[who]
    BY <2>1
  <2> SUFFICES ASSUME NEW id \in DOMAIN rows PROVE Meant(rows[id].values, insertions')
    BY <2>1 DEF RowsMeant
  <2> QED BY <2>1, <2>2, MeantMonotone DEF RowsMeant
<1> QED BY <1>1, <1>2, <1>3, <1>4, <1>5, <1>6, <1>7, <1>8, <1>9, <1>10, <1>11
           DEF StatementsInv

LEMMA StatementsExecute ==
  ASSUME StatementsInv, NEW c \in Statements!Clients, NEW works \in BOOLEAN,
         NEW phone \in Cells, Statements!Execute(c, phone, works)
  PROVE  StatementsInv'
<1>0. /\ TableTypes /\ ClientTypes /\ CurdTypes /\ ClientPlaces /\ Created
      /\ Bound /\ OwnRow /\ Stored /\ UpdatedOwn /\ Freed /\ RowsMeant
  BY DEF StatementsInv
<1> USE <1>0, ClientNames, NoStatementRecord
<1>1. TableTypes'
  <2>1. exists' = exists /\ version' = version
    BY DEF Statements!Execute
  <2>2. ~works => rows' = rows
    BY DEF Statements!Execute
  <2> QED BY <2>1, <2>2, ExecuteRows DEF TableTypes
<1>2. ClientTypes'
  <2>1. prepared' \in [Statements!Clients -> StatementRecord]
    <3>1. ASSUME works PROVE prepared' = [prepared EXCEPT ![c] = [@ EXCEPT !.id = Len(rows) + 1]]
      BY <3>1 DEF Statements!Execute
    <3>2. ASSUME works PROVE [prepared[c] EXCEPT !.id = Len(rows) + 1] \in StatementRecord
      <4>1. Len(rows) + 1 \in Nat
        BY <3>2, ExecuteRows
      <4>2. prepared[c] \in StatementRecord /\ Statements!NoStatement.open = FALSE
        BY DEF ClientTypes
      <4> PICK bind : bind \in [Columns -> Pointers]
        BY NewRecord
      <4> QED BY <4>1, <4>2, RecordUpdated
    <3>3. ~works => prepared' = prepared
      BY DEF Statements!Execute
    <3> QED BY <3>1, <3>2, <3>3 DEF ClientTypes
  <2>2. insertions' \in [Statements!Clients -> Nat]
    BY DEF Statements!Execute, ClientTypes
  <2>3. ret' \in [Statements!Clients -> BOOLEAN]
    BY DEF Statements!Execute, Statements!Returns, ClientTypes
  <2> QED BY <2>1, <2>2, <2>3 DEF ClientTypes
<1>3. CurdTypes'
  BY DEF Statements!Execute, Statements!Goes, Statements!Returns, Statements!table,
         Statements!Held, Statements!Variable, CurdTypes, TableTypes
<1>4. ClientPlaces'
  BY DEF Statements!Execute, Statements!Goes, Statements!Returns, Statements!table,
         Statements!Held, Statements!Variable, ClientPlaces, Inserting, Querying
<1>5. Created'
  BY DEF Statements!Execute, Statements!Goes, Statements!Returns, Statements!table,
         Statements!Held, Statements!Variable, Created, Creations, TableTypes, CurdTypes,
         ClientPlaces, Inserting, Querying
<1>6. Bound'
  BY DEF Statements!Execute, Statements!Goes, Statements!Returns, Statements!table,
         Statements!Held, Statements!Variable, Bound, ClientTypes, ClientPlaces, Inserting,
         Querying
<1>7. OwnRow'
  <2>1. /\ UNCHANGED <<exists, version, stored, IMUser_nId, insertions, shown>>
        /\ clientAt[c] = "set"
        /\ clientAt' = [clientAt EXCEPT ![c] = IF works THEN "id" ELSE "close"]
    BY DEF Statements!Execute, Statements!Goes
  <2>2. ~works => UNCHANGED <<rows, prepared, mine>>
    BY DEF Statements!Execute
  <2>3. works => /\ prepared' = [prepared EXCEPT ![c].id = Len(rows) + 1]
                 /\ mine' = IF c = Statements!Curd
                      THEN <<version, Len(rows) + 1, insertions[c]>> ELSE mine
    BY DEF Statements!Execute
  <2>4. CASE works /\ c = Statements!Curd
    <3>1. clientAt'[c] = "id" /\ prepared'[c].id = Len(rows) + 1
      BY <2>1, <2>3, <2>4 DEF ClientPlaces, ClientTypes, StatementRecord
    <3>2. mine' = <<version, Len(rows) + 1, insertions[c]>> /\ version' = version
      BY <2>1, <2>3, <2>4
    <3>3. mine'[1] = version /\ mine'[2] = Len(rows) + 1 /\ mine'[3] = insertions[c]
      BY <3>2
    <3>4. mine' \in Nat \X Nat \X Nat /\ mine'[1] <= version'
      <4>1. version \in Nat /\ Len(rows) + 1 \in Nat /\ insertions[c] \in Nat
        BY <2>4, ExecuteRows DEF TableTypes, ClientTypes
      <4> QED BY <3>2, <3>3, <4>1
    <3>5. /\ mine'[2] \in DOMAIN rows' /\ OwnId' = mine'[2]
          /\ rows'[mine'[2]].values[1] = <<Statements!Curd, mine'[3], 1>>
      BY <2>4, <3>1, <3>3, ExecuteRows DEF OwnId
    <3> QED BY <3>4, <3>5 DEF OwnRow
  <2>5. CASE works /\ c # Statements!Curd
    <3>1. /\ clientAt'[Statements!Curd] = clientAt[Statements!Curd]
          /\ prepared'[Statements!Curd] = prepared[Statements!Curd] /\ mine' = mine
      BY <2>1, <2>3, <2>5 DEF ClientPlaces, ClientTypes
    <3>2. Own' = Own /\ OwnId' = OwnId
      BY <2>1, <3>1 DEF Own, OwnId
    <3>3. \A id \in DOMAIN rows : id \in DOMAIN rows' /\ rows'[id] = rows[id]
      BY <2>5, ExecuteRows
    <3> QED BY <2>1, <3>1, <3>2, <3>3 DEF OwnRow
  <2>6. CASE ~works
    <3>1. UNCHANGED <<rows, prepared, mine>>
      BY <2>2, <2>6
    <3>2. clientAt'[Statements!Curd] = "id" <=> clientAt[Statements!Curd] = "id"
      BY <2>1, <2>6 DEF ClientPlaces
    <3>3. Own' = Own /\ OwnId' = OwnId
      BY <2>1, <3>1, <3>2 DEF Own, OwnId
    <3> QED BY <2>1, <3>1, <3>3 DEF OwnRow
  <2> QED BY <2>4, <2>5, <2>6
<1>8. Stored'
  <2>1. /\ UNCHANGED <<exists, version, stored, IMUser_nId, insertions, shown>>
        /\ clientAt[c] = "set"
        /\ clientAt' = [clientAt EXCEPT ![c] = IF works THEN "id" ELSE "close"]
    BY DEF Statements!Execute, Statements!Goes
  <2>2. ~works => UNCHANGED <<rows, prepared, mine>>
    BY DEF Statements!Execute
  <2>3. works => /\ prepared' = [prepared EXCEPT ![c].id = Len(rows) + 1]
                 /\ mine' = IF c = Statements!Curd
                      THEN <<version, Len(rows) + 1, insertions[c]>> ELSE mine
    BY DEF Statements!Execute
  <2>4. CASE c = Statements!Curd
    <3>1. clientAt'[c] \in {"id", "close"}
      BY <2>1 DEF ClientPlaces
    <3>2. ~stored.open /\ Len(stored.rows) <= 1 /\ shown = <<>>
      BY <2>1, <2>4 DEF Stored, Querying
    <3> QED BY <2>1, <2>4, <3>1, <3>2 DEF Stored, Querying
  <2>5. CASE c # Statements!Curd
    <3>1. clientAt'[Statements!Curd] = clientAt[Statements!Curd] /\ mine' = mine
      BY <2>1, <2>2, <2>3, <2>5 DEF ClientPlaces
    <3>2. Own' = Own /\ (Own => mine[2] \in DOMAIN rows)
      BY <2>1, <3>1 DEF Own, OwnRow
    <3>3. \A id \in DOMAIN rows : rows'[id] = rows[id]
      BY <2>2, ExecuteRows
    <3>4. Own => rows'[mine'[2]].values = rows[mine[2]].values
      BY <3>1, <3>2, <3>3
    <3> QED BY <2>1, <3>1, <3>2, <3>4 DEF Stored
  <2> QED BY <2>4, <2>5
<1>9. UpdatedOwn'
  <2>1. /\ UNCHANGED <<exists, version, stored, IMUser_nId, insertions, shown>>
        /\ clientAt[c] = "set"
        /\ clientAt' = [clientAt EXCEPT ![c] = IF works THEN "id" ELSE "close"]
    BY DEF Statements!Execute, Statements!Goes
  <2>2. ~works => UNCHANGED <<rows, prepared, mine>>
    BY DEF Statements!Execute
  <2>3. works => /\ prepared' = [prepared EXCEPT ![c].id = Len(rows) + 1]
                 /\ mine' = IF c = Statements!Curd
                      THEN <<version, Len(rows) + 1, insertions[c]>> ELSE mine
    BY DEF Statements!Execute
  <2>4. clientAt[Statements!Curd] \in Querying => clientAt'[Statements!Curd] \in Querying
    BY <2>1 DEF ClientPlaces, Querying
  <2>5. CASE works
    <3>1. /\ DOMAIN rows' = DOMAIN rows \union {Len(rows) + 1}
          /\ \A id \in DOMAIN rows : rows'[id] = rows[id]
      BY <2>5, ExecuteRows
    <3>2. ~rows'[Len(rows) + 1].updated
      BY <2>5, ExecuteRows
    <3> QED BY <2>1, <2>4, <3>1, <3>2 DEF UpdatedOwn
  <2>6. CASE ~works
    BY <2>1, <2>2, <2>4, <2>6 DEF UpdatedOwn
  <2> QED BY <2>5, <2>6
<1>10. Freed'
  <2>1. /\ UNCHANGED <<exists, version, stored, IMUser_nId, insertions, shown>>
        /\ clientAt[c] = "set"
        /\ clientAt' = [clientAt EXCEPT ![c] = IF works THEN "id" ELSE "close"]
    BY DEF Statements!Execute, Statements!Goes
  <2>2. ~works => UNCHANGED <<rows, prepared, mine>>
    BY DEF Statements!Execute
  <2>3. works => /\ prepared' = [prepared EXCEPT ![c].id = Len(rows) + 1]
                 /\ mine' = IF c = Statements!Curd
                      THEN <<version, Len(rows) + 1, insertions[c]>> ELSE mine
    BY DEF Statements!Execute
  <2> SUFFICES ASSUME NEW who \in Statements!Clients
               PROVE  prepared'[who].open <=> clientAt'[who] \in {"set", "id", "close"}
    BY DEF Freed
  <2>4. prepared'[who].open <=> prepared[who].open
    BY <2>2, <2>3 DEF ClientTypes, StatementRecord
  <2>5. clientAt'[who] \in {"set", "id", "close"} <=> clientAt[who] \in {"set", "id", "close"}
    BY <2>1 DEF ClientPlaces
  <2> QED BY <2>4, <2>5 DEF Freed
<1>11. RowsMeant'
  <2>1. /\ UNCHANGED <<exists, version, stored, IMUser_nId, insertions, shown>>
        /\ clientAt[c] = "set"
        /\ clientAt' = [clientAt EXCEPT ![c] = IF works THEN "id" ELSE "close"]
    BY DEF Statements!Execute, Statements!Goes
  <2>2. ~works => UNCHANGED <<rows, prepared, mine>>
    BY DEF Statements!Execute
  <2>3. works => /\ prepared' = [prepared EXCEPT ![c].id = Len(rows) + 1]
                 /\ mine' = IF c = Statements!Curd
                      THEN <<version, Len(rows) + 1, insertions[c]>> ELSE mine
    BY DEF Statements!Execute
  <2>4. CASE works
    BY <2>1, <2>4, ExecuteRows DEF RowsMeant
  <2>5. CASE ~works
    BY <2>1, <2>2, <2>5 DEF RowsMeant
  <2> QED BY <2>4, <2>5
<1> QED BY <1>1, <1>2, <1>3, <1>4, <1>5, <1>6, <1>7, <1>8, <1>9, <1>10, <1>11
           DEF StatementsInv

LEMMA StatementsSetParam ==
  ASSUME StatementsInv, NEW c \in Statements!Clients, Statements!SetParam(c)
  PROVE  StatementsInv'
<1>0. /\ TableTypes /\ ClientTypes /\ CurdTypes /\ ClientPlaces /\ Created
      /\ Bound /\ OwnRow /\ Stored /\ UpdatedOwn /\ Freed /\ RowsMeant
  BY DEF StatementsInv
<1> USE <1>0, ClientNames, NoStatementRecord
<1>1. TableTypes'
  BY DEF Statements!SetParam, Statements!Goes, Statements!Returns, Statements!table,
         TableTypes
<1>2. ClientTypes'
  <2> PICK index \in Nat : index = prepared[c].set + 1
    BY RecordFields DEF ClientTypes
  <2>9. clientAt[c] = "set" /\ prepared[c].set < 3 /\ prepared[c] \in StatementRecord
    BY DEF Statements!SetParam, Statements!Goes, Statements!Params, ClientTypes
  <2>8. prepared[c].set \in Nat
    BY <2>9, RecordFields
  <2>0. index \in Columns /\ prepared[c].bind \in [Columns -> Pointers]
    BY <2>8, <2>9 DEF Bound, Columns, Statements!Params
  <2> PICK bind : bind = [prepared[c].bind EXCEPT ![index] = <<"at", index>>]
    OBVIOUS
  <2>1. bind \in [Columns -> Pointers]
    BY <2>0 DEF Pointers
  <2>2. prepared' = [prepared EXCEPT ![c] = [@ EXCEPT !.bind = bind, !.set = index]]
    BY DEF Statements!SetParam
  <2>3. [prepared[c] EXCEPT !.bind = bind, !.set = index] \in StatementRecord
    <3>1. index \in 0..3
      BY <2>0 DEF Columns, Statements!Params
    <3> QED BY ONLY <2>1, <2>9, <3>1, RecordUpdated
  <2>4. prepared' \in [Statements!Clients -> StatementRecord]
    BY <2>2, <2>3 DEF ClientTypes
  <2> QED BY <2>4 DEF Statements!SetParam, ClientTypes
<1>3. CurdTypes'
  BY DEF Statements!SetParam, Statements!Goes, Statements!Returns, Statements!table,
         CurdTypes, TableTypes
<1>4. ClientPlaces'
  BY DEF Statements!SetParam, Statements!Goes, Statements!Returns, Statements!table,
         ClientPlaces, Inserting, Querying
<1>5. Created'
  BY DEF Statements!SetParam, Statements!Goes, Statements!Returns, Statements!table,
         Created, Creations, TableTypes, CurdTypes, ClientPlaces, Inserting, Querying
<1>6. Bound'
  <2> PICK index \in Nat : index = prepared[c].set + 1
    BY RecordFields DEF ClientTypes
  <2>9. clientAt[c] = "set" /\ prepared[c].set < 3 /\ prepared[c] \in StatementRecord
    BY DEF Statements!SetParam, Statements!Goes, Statements!Params, ClientTypes
  <2>8. prepared[c].set \in Nat
    BY <2>9, RecordFields
  <2>0. index \in Columns /\ prepared[c].bind \in [Columns -> Pointers]
    BY <2>8, <2>9 DEF Bound, Columns, Statements!Params
  <2> PICK bind : bind = [prepared[c].bind EXCEPT ![index] = <<"at", index>>]
    OBVIOUS
  <2>1. bind \in [Columns -> Pointers]
    BY <2>0 DEF Pointers
  <2>2. prepared' = [prepared EXCEPT ![c] = [@ EXCEPT !.bind = bind, !.set = index]]
    BY DEF Statements!SetParam
  <2>3. [prepared[c] EXCEPT !.bind = bind, !.set = index] \in StatementRecord
    <3>1. index \in 0..3
      BY <2>0 DEF Columns, Statements!Params
    <3> QED BY ONLY <2>1, <2>9, <3>1, RecordUpdated
  <2>4. /\ prepared'[c].bind = bind /\ prepared'[c].set = index
        /\ \A column \in 1..prepared[c].set : prepared[c].bind[column] = <<"at", column>>
        /\ insertions[c] > 0
    BY <2>2 DEF ClientTypes, StatementRecord, Bound, Statements!SetParam, Statements!Goes
  <2>5. \A column \in 1..index : bind[column] = <<"at", column>>
    <3> SUFFICES ASSUME NEW column \in 1..index PROVE bind[column] = <<"at", column>>
      OBVIOUS
    <3>1. CASE column = index
      BY <2>0, <3>1
    <3>2. CASE column # index
      <4>1. column \in 1..prepared[c].set /\ column \in Columns
        BY <2>0, <2>8, <3>2 DEF Columns, Statements!Params
      <4> QED BY <2>0, <2>4, <3>2, <4>1
    <3> QED BY <3>1, <3>2
  <2> SUFFICES ASSUME NEW who \in Statements!Clients, clientAt'[who] = "set"
               PROVE  /\ insertions'[who] > 0
                      /\ prepared'[who].bind \in [Columns -> Pointers]
                      /\ \A column \in 1..prepared'[who].set :
                           prepared'[who].bind[column] = <<"at", column>>
    BY DEF Bound
  <2>6. CASE who = c
    BY <2>1, <2>4, <2>5, <2>6 DEF Statements!SetParam
  <2>7. CASE who # c
    <3>1. /\ insertions'[who] = insertions[who] /\ prepared'[who] = prepared[who]
          /\ clientAt[who] = "set"
      BY <2>7 DEF Statements!SetParam, Statements!Goes, ClientTypes, ClientPlaces
    <3> QED BY <3>1 DEF Bound
  <2> QED BY <2>6, <2>7
<1>7. OwnRow'
  <2>1. /\ UNCHANGED <<exists, version, rows, IMUser_nId, mine>> /\ clientAt[c] = "set"
        /\ clientAt' = [clientAt EXCEPT ![c] = "set"]
    BY DEF Statements!SetParam, Statements!Goes, Statements!table
  <2>2. clientAt' = clientAt
    BY <2>1 DEF ClientPlaces
  <2>3. clientAt[Statements!Curd] = "id" => prepared'[Statements!Curd] = prepared[Statements!Curd]
    BY <2>1 DEF Statements!SetParam, ClientTypes
  <2>4. OwnId' = OwnId /\ Own' = Own
    BY <2>1, <2>2, <2>3 DEF Own, OwnId
  <2> QED BY <2>1, <2>4 DEF OwnRow
<1>8. Stored'
  BY DEF Statements!SetParam, Statements!Goes, Statements!Returns, Statements!table, Stored,
         Own, OwnRow, TableTypes, CurdTypes, Created, ClientPlaces, Inserting, Querying
<1>9. UpdatedOwn'
  BY DEF Statements!SetParam, Statements!Goes, Statements!Returns, Statements!table,
         UpdatedOwn, TableTypes, ClientPlaces, Inserting, Querying
<1>10. Freed'
  BY DEF Statements!SetParam, Statements!Goes, Statements!Returns, Statements!table, Freed,
         ClientTypes, ClientPlaces, Inserting, Querying
<1>11. RowsMeant'
  BY DEF Statements!SetParam, Statements!Goes, Statements!Returns, Statements!table,
         RowsMeant, TableTypes
<1> QED BY <1>1, <1>2, <1>3, <1>4, <1>5, <1>6, <1>7, <1>8, <1>9, <1>10, <1>11
           DEF StatementsInv

LEMMA StatementsGetInsertId ==
  ASSUME StatementsInv, NEW c \in Statements!Clients, Statements!GetInsertId(c)
  PROVE  StatementsInv'
<1>0. /\ TableTypes /\ ClientTypes /\ CurdTypes /\ ClientPlaces /\ Created
      /\ Bound /\ OwnRow /\ Stored /\ UpdatedOwn /\ Freed /\ RowsMeant
  BY DEF StatementsInv
<1> USE <1>0, ClientNames, NoStatementRecord
<1>1. TableTypes'
  BY DEF Statements!GetInsertId, Statements!Goes, Statements!Returns, Statements!table,
         TableTypes
<1>2. ClientTypes'
  BY DEF Statements!GetInsertId, Statements!Goes, Statements!Returns, Statements!table,
         ClientTypes
<1>3. CurdTypes'
  <2>1. prepared[c].id \in Nat
    BY RecordFields DEF ClientTypes
  <2> QED BY <2>1 DEF Statements!GetInsertId, CurdTypes
<1>4. ClientPlaces'
  BY DEF Statements!GetInsertId, Statements!Goes, Statements!Returns, Statements!table,
         ClientPlaces, Inserting, Querying
<1>5. Created'
  BY DEF Statements!GetInsertId, Statements!Goes, Statements!Returns, Statements!table,
         Created, Creations, TableTypes, CurdTypes, ClientPlaces, Inserting, Querying
<1>6. Bound'
  BY DEF Statements!GetInsertId, Statements!Goes, Statements!Returns, Statements!table,
         Bound, ClientTypes, ClientPlaces, Inserting, Querying
<1>7. OwnRow'
  BY DEF Statements!GetInsertId, Statements!Goes, Statements!Returns, Statements!table,
         OwnRow, Own, OwnId, TableTypes, Created, ClientPlaces, Inserting, Querying
<1>8. Stored'
  BY DEF Statements!GetInsertId, Statements!Goes, Statements!Returns, Statements!table,
         Stored, Own, OwnRow, TableTypes, CurdTypes, Created, ClientPlaces, Inserting,
         Querying
<1>9. UpdatedOwn'
  BY DEF Statements!GetInsertId, Statements!Goes, Statements!Returns, Statements!table,
         UpdatedOwn, TableTypes, ClientPlaces, Inserting, Querying
<1>10. Freed'
  BY DEF Statements!GetInsertId, Statements!Goes, Statements!Returns, Statements!table,
         Freed, ClientTypes, ClientPlaces, Inserting, Querying
<1>11. RowsMeant'
  BY DEF Statements!GetInsertId, Statements!Goes, Statements!Returns, Statements!table,
         RowsMeant, TableTypes
<1> QED BY <1>1, <1>2, <1>3, <1>4, <1>5, <1>6, <1>7, <1>8, <1>9, <1>10, <1>11
           DEF StatementsInv

LEMMA StatementsClose ==
  ASSUME StatementsInv, NEW c \in Statements!Clients, Statements!Close(c)
  PROVE  StatementsInv'
<1>0. /\ TableTypes /\ ClientTypes /\ CurdTypes /\ ClientPlaces /\ Created
      /\ Bound /\ OwnRow /\ Stored /\ UpdatedOwn /\ Freed /\ RowsMeant
  BY DEF StatementsInv
<1> USE <1>0, ClientNames, NoStatementRecord
<1>1. TableTypes'
  BY DEF Statements!Close, Statements!Goes, Statements!Returns, Statements!table, TableTypes
<1>2. ClientTypes'
  BY DEF Statements!Close, Statements!Goes, Statements!Returns, Statements!table,
         ClientTypes
<1>3. CurdTypes'
  BY DEF Statements!Close, Statements!Goes, Statements!Returns, Statements!table, CurdTypes,
         TableTypes
<1>4. ClientPlaces'
  BY DEF Statements!Close, Statements!Goes, Statements!Returns, Statements!table,
         ClientPlaces, Inserting, Querying
<1>5. Created'
  BY DEF Statements!Close, Statements!Goes, Statements!Returns, Statements!table, Created,
         Creations, TableTypes, CurdTypes, ClientPlaces, Inserting, Querying
<1>6. Bound'
  BY DEF Statements!Close, Statements!Goes, Statements!Returns, Statements!table, Bound,
         ClientTypes, ClientPlaces, Inserting, Querying
<1>7. OwnRow'
  BY DEF Statements!Close, Statements!Goes, Statements!Returns, Statements!table, OwnRow,
         Own, OwnId, TableTypes, Created, ClientPlaces, Inserting, Querying
<1>8. Stored'
  BY DEF Statements!Close, Statements!Goes, Statements!Returns, Statements!table, Stored,
         Own, OwnRow, TableTypes, CurdTypes, Created, ClientPlaces, Inserting, Querying
<1>9. UpdatedOwn'
  BY DEF Statements!Close, Statements!Goes, Statements!Returns, Statements!table,
         UpdatedOwn, TableTypes, ClientPlaces, Inserting, Querying
<1>10. Freed'
  <2> SUFFICES ASSUME NEW who \in Statements!Clients
               PROVE  prepared'[who].open <=> clientAt'[who] \in {"set", "id", "close"}
    BY DEF Freed
  <2>1. CASE who = c
    <3>1. prepared'[c].open = FALSE
      BY NoStatementRecord DEF Statements!Close, ClientTypes
    <3>2. clientAt'[c] \notin {"set", "id", "close"}
      BY DEF Statements!Close, Statements!Goes, ClientPlaces
    <3> QED BY <2>1, <3>1, <3>2
  <2>2. CASE who # c
    <3>1. prepared'[who] = prepared[who] /\ clientAt'[who] = clientAt[who]
      BY <2>2 DEF Statements!Close, Statements!Goes, ClientTypes, ClientPlaces
    <3> QED BY <3>1 DEF Freed
  <2> QED BY <2>1, <2>2
<1>11. RowsMeant'
  BY DEF Statements!Close, Statements!Goes, Statements!Returns, Statements!table, RowsMeant,
         TableTypes
<1> QED BY <1>1, <1>2, <1>3, <1>4, <1>5, <1>6, <1>7, <1>8, <1>9, <1>10, <1>11
           DEF StatementsInv

LEMMA StatementsRunTask ==
  ASSUME StatementsInv, NEW c \in Tasks, Statements!RunTask(c)
  PROVE  StatementsInv'
<1>0. /\ TableTypes /\ ClientTypes /\ CurdTypes /\ ClientPlaces /\ Created
      /\ Bound /\ OwnRow /\ Stored /\ UpdatedOwn /\ Freed /\ RowsMeant
  BY DEF StatementsInv
<1> USE <1>0, ClientNames, NoStatementRecord
<1>1. TableTypes'
  BY DEF Statements!RunTask, Statements!Goes, Statements!Returns, Statements!table,
         TableTypes
<1>2. ClientTypes'
  BY DEF Statements!RunTask, Statements!Goes, Statements!Returns, Statements!table,
         ClientTypes
<1>3. CurdTypes'
  BY DEF Statements!RunTask, Statements!Goes, Statements!Returns, Statements!table,
         CurdTypes, TableTypes
<1>4. ClientPlaces'
  BY DEF Statements!RunTask, Statements!Goes, Statements!Returns, Statements!table,
         ClientPlaces, Inserting, Querying
<1>5. Created'
  BY DEF Statements!RunTask, Statements!Goes, Statements!Returns, Statements!table, Created,
         Creations, TableTypes, CurdTypes, ClientPlaces, Inserting, Querying
<1>6. Bound'
  BY DEF Statements!RunTask, Statements!Goes, Statements!Returns, Statements!table, Bound,
         ClientTypes, ClientPlaces, Inserting, Querying
<1>7. OwnRow'
  BY DEF Statements!RunTask, Statements!Goes, Statements!Returns, Statements!table, OwnRow,
         Own, OwnId, TableTypes, Created, ClientPlaces, Inserting, Querying
<1>8. Stored'
  BY DEF Statements!RunTask, Statements!Goes, Statements!Returns, Statements!table, Stored,
         Own, OwnRow, TableTypes, CurdTypes, Created, ClientPlaces, Inserting, Querying
<1>9. UpdatedOwn'
  BY DEF Statements!RunTask, Statements!Goes, Statements!Returns, Statements!table,
         UpdatedOwn, TableTypes, ClientPlaces, Inserting, Querying
<1>10. Freed'
  BY DEF Statements!RunTask, Statements!Goes, Statements!Returns, Statements!table, Freed,
         ClientTypes, ClientPlaces, Inserting, Querying
<1>11. RowsMeant'
  BY DEF Statements!RunTask, Statements!Goes, Statements!Returns, Statements!table,
         RowsMeant, TableTypes
<1> QED BY <1>1, <1>2, <1>3, <1>4, <1>5, <1>6, <1>7, <1>8, <1>9, <1>10, <1>11
           DEF StatementsInv

LEMMA StatementsQuery ==
  ASSUME StatementsInv, NEW works \in BOOLEAN, Statements!Query(works)
  PROVE  StatementsInv'
<1>0. /\ TableTypes /\ ClientTypes /\ CurdTypes /\ ClientPlaces /\ Created
      /\ Bound /\ OwnRow /\ Stored /\ UpdatedOwn /\ Freed /\ RowsMeant
  BY DEF StatementsInv
<1> USE <1>0, ClientNames, NoStatementRecord
<1>1. TableTypes'
  BY DEF Statements!Query, Statements!Goes, Statements!Returns, Statements!table,
         Statements!Found, TableTypes
<1>2. ClientTypes'
  BY DEF Statements!Query, Statements!Goes, Statements!Returns, Statements!table,
         Statements!Found, ClientTypes
<1>3. CurdTypes'
  BY DEF Statements!Query, Statements!Goes, Statements!Returns, Statements!table,
         Statements!Found, CurdTypes, TableTypes
<1>4. ClientPlaces'
  BY DEF Statements!Query, Statements!Goes, Statements!Returns, Statements!table,
         Statements!Found, ClientPlaces, Inserting, Querying
<1>5. Created'
  BY DEF Statements!Query, Statements!Goes, Statements!Returns, Statements!table,
         Statements!Found, Created, Creations, TableTypes, CurdTypes, ClientPlaces,
         Inserting, Querying
<1>6. Bound'
  BY DEF Statements!Query, Statements!Goes, Statements!Returns, Statements!table,
         Statements!Found, Bound, ClientTypes, ClientPlaces, Inserting, Querying
<1>7. OwnRow'
  BY DEF Statements!Query, Statements!Goes, Statements!Returns, Statements!table,
         Statements!Found, OwnRow, Own, OwnId, TableTypes, Created, ClientPlaces, Inserting,
         Querying
<1>8. Stored'
  <2>1. /\ clientAt[Statements!Curd] = "query" /\ UNCHANGED <<exists, version, rows, mine>>
        /\ clientAt' = [clientAt EXCEPT ![Statements!Curd] =
                          IF works THEN "next" ELSE IF phase = 2 THEN "update" ELSE "leave"]
        /\ stored' = IF works THEN [open |-> TRUE, rows |-> Statements!Found, row |-> 0] ELSE stored
        /\ shown' = <<>>
    BY DEF Statements!Query, Statements!Goes, Statements!table
  <2>2. Own' = Own /\ (Own => mine[2] \in DOMAIN rows /\ IMUser_nId = mine[2])
    BY <2>1 DEF Own, OwnRow, OwnId
  <2>3. CASE works
    <3>1. clientAt'[Statements!Curd] = "next"
      BY <2>1, <2>3 DEF ClientPlaces
    <3>2. Len(Statements!Found) <= 1
      <4>1. CASE IMUser_nId \in DOMAIN rows
        <5>1. rows[IMUser_nId] \in Row
          BY <4>1 DEF TableTypes
        <5> QED BY <4>1, <5>1, OneItem DEF Statements!Found
      <4>2. CASE IMUser_nId \notin DOMAIN rows
        BY <4>2, NoRows DEF Statements!Found
      <4> QED BY <4>1, <4>2
    <3>3. ASSUME Own, NEW k \in DOMAIN Statements!Found
          PROVE  Statements!Found[k].values = rows[mine[2]].values
      <4>1. rows[mine[2]] \in Row /\ Statements!Found = <<rows[mine[2]]>>
        BY <2>2, <3>3 DEF TableTypes, Statements!Found
      <4>2. k = 1
        BY <4>1, OneItem
      <4> QED BY <4>1, <4>2, OneItem
    <3>4. stored'.open /\ stored'.rows = Statements!Found /\ stored'.row = 0
      BY <2>1, <2>3
    <3>5. /\ stored'.open <=> clientAt'[Statements!Curd] \in {"next", "read", "free"}
          /\ Len(stored'.rows) <= 1
          /\ clientAt'[Statements!Curd] = "next" => stored'.row = 0
          /\ clientAt'[Statements!Curd] # "read" /\ clientAt'[Statements!Curd] \in Querying
      BY <3>1, <3>2, <3>4 DEF Querying
    <3>6. Own' => \A k \in DOMAIN stored'.rows : stored'.rows[k].values = rows'[mine'[2]].values
      BY <2>1, <2>2, <3>3, <3>4
    <3> QED BY <2>1, <3>5, <3>6 DEF Stored
  <2>4. CASE ~works
    <3>1. clientAt'[Statements!Curd] \in {"update", "leave"} /\ stored' = stored
      BY <2>1, <2>4 DEF ClientPlaces
    <3>2. ~stored.open /\ Len(stored.rows) <= 1
      BY <2>1 DEF Stored
    <3> QED BY <2>1, <3>1, <3>2 DEF Stored, Querying
  <2> QED BY <2>3, <2>4
<1>9. UpdatedOwn'
  BY DEF Statements!Query, Statements!Goes, Statements!Returns, Statements!table,
         Statements!Found, UpdatedOwn, TableTypes, ClientPlaces, Inserting, Querying
<1>10. Freed'
  BY DEF Statements!Query, Statements!Goes, Statements!Returns, Statements!table,
         Statements!Found, Freed, ClientTypes, ClientPlaces, Inserting, Querying
<1>11. RowsMeant'
  BY DEF Statements!Query, Statements!Goes, Statements!Returns, Statements!table,
         Statements!Found, RowsMeant, TableTypes
<1> QED BY <1>1, <1>2, <1>3, <1>4, <1>5, <1>6, <1>7, <1>8, <1>9, <1>10, <1>11
           DEF StatementsInv

LEMMA StatementsUpdate ==
  ASSUME StatementsInv, NEW works \in BOOLEAN, Statements!Update(works)
  PROVE  StatementsInv'
<1>0. /\ TableTypes /\ ClientTypes /\ CurdTypes /\ ClientPlaces /\ Created
      /\ Bound /\ OwnRow /\ Stored /\ UpdatedOwn /\ Freed /\ RowsMeant
  BY DEF StatementsInv
<1> USE <1>0, ClientNames, NoStatementRecord
<1>1. TableTypes'
  <2>1. exists' = exists /\ version' = version
    BY DEF Statements!Update
  <2> QED BY <2>1, UpdateEffect DEF TableTypes
<1>2. ClientTypes'
  BY DEF Statements!Update, Statements!Goes, Statements!Returns, Statements!table,
         ClientTypes
<1>3. CurdTypes'
  BY DEF Statements!Update, Statements!Goes, Statements!Returns, Statements!table,
         CurdTypes, TableTypes
<1>4. ClientPlaces'
  BY DEF Statements!Update, Statements!Goes, Statements!Returns, Statements!table,
         ClientPlaces, Inserting, Querying
<1>5. Created'
  <2>1. /\ UNCHANGED <<exists, version, prepared, stored, IMUser_nId, insertions, shown, mine>>
        /\ clientAt[Statements!Curd] = "update"
        /\ clientAt' = [clientAt EXCEPT ![Statements!Curd] = "query"]
    BY DEF Statements!Update, Statements!Goes, Statements!table
  <2>2. clientAt'[Statements!Curd] = "query"
    BY <2>1 DEF ClientPlaces
  <2>3. DOMAIN rows' = DOMAIN rows /\ \A id \in DOMAIN rows : rows'[id].values = rows[id].values
    BY UpdateEffect
  <2>4. Creations' = Creations
    BY <2>1, <2>2 DEF Creations, ClientPlaces
  <2> QED BY <2>1, <2>4, UpdateEffect DEF Created
<1>6. Bound'
  BY DEF Statements!Update, Statements!Goes, Statements!Returns, Statements!table, Bound,
         ClientTypes, ClientPlaces, Inserting, Querying
<1>7. OwnRow'
  <2>1. /\ UNCHANGED <<exists, version, prepared, stored, IMUser_nId, insertions, shown, mine>>
        /\ clientAt[Statements!Curd] = "update"
        /\ clientAt' = [clientAt EXCEPT ![Statements!Curd] = "query"]
    BY DEF Statements!Update, Statements!Goes, Statements!table
  <2>2. clientAt'[Statements!Curd] = "query"
    BY <2>1 DEF ClientPlaces
  <2>3. DOMAIN rows' = DOMAIN rows /\ \A id \in DOMAIN rows : rows'[id].values = rows[id].values
    BY UpdateEffect
  <2>4. Own' = Own /\ OwnId' = OwnId
    BY <2>1, <2>2 DEF Own, OwnId
  <2> QED BY <2>1, <2>3, <2>4 DEF OwnRow
<1>8. Stored'
  <2>1. /\ UNCHANGED <<exists, version, prepared, stored, IMUser_nId, insertions, shown, mine>>
        /\ clientAt[Statements!Curd] = "update"
        /\ clientAt' = [clientAt EXCEPT ![Statements!Curd] = "query"]
    BY DEF Statements!Update, Statements!Goes, Statements!table
  <2>2. clientAt'[Statements!Curd] = "query"
    BY <2>1 DEF ClientPlaces
  <2>3. DOMAIN rows' = DOMAIN rows /\ \A id \in DOMAIN rows : rows'[id].values = rows[id].values
    BY UpdateEffect
  <2>4. Own' = Own /\ (Own => mine[2] \in DOMAIN rows)
    BY <2>1 DEF Own, OwnRow
  <2> QED BY <2>1, <2>2, <2>3, <2>4 DEF Stored, Querying
<1>9. UpdatedOwn'
  <2>1. /\ UNCHANGED <<exists, version, prepared, stored, IMUser_nId, insertions, shown, mine>>
        /\ clientAt[Statements!Curd] = "update"
        /\ clientAt' = [clientAt EXCEPT ![Statements!Curd] = "query"]
    BY DEF Statements!Update, Statements!Goes, Statements!table
  <2>2. clientAt'[Statements!Curd] = "query"
    BY <2>1 DEF ClientPlaces
  <2>3. DOMAIN rows' = DOMAIN rows /\ \A id \in DOMAIN rows : rows'[id].values = rows[id].values
    BY UpdateEffect
  <2>4. \A id \in DOMAIN rows : rows'[id].updated => rows[id].updated \/ id = IMUser_nId
    BY UpdateEffect
  <2> QED BY <2>1, <2>2, <2>3, <2>4 DEF UpdatedOwn, Querying
<1>10. Freed'
  BY DEF Statements!Update, Statements!Goes, Statements!Returns, Statements!table, Freed,
         ClientTypes, ClientPlaces, Inserting, Querying
<1>11. RowsMeant'
  <2>1. /\ UNCHANGED <<exists, version, prepared, stored, IMUser_nId, insertions, shown, mine>>
        /\ clientAt[Statements!Curd] = "update"
        /\ clientAt' = [clientAt EXCEPT ![Statements!Curd] = "query"]
    BY DEF Statements!Update, Statements!Goes, Statements!table
  <2>2. clientAt'[Statements!Curd] = "query"
    BY <2>1 DEF ClientPlaces
  <2>3. DOMAIN rows' = DOMAIN rows /\ \A id \in DOMAIN rows : rows'[id].values = rows[id].values
    BY UpdateEffect
  <2> QED BY <2>1, <2>3 DEF RowsMeant
<1> QED BY <1>1, <1>2, <1>3, <1>4, <1>5, <1>6, <1>7, <1>8, <1>9, <1>10, <1>11
           DEF StatementsInv

LEMMA StatementsNextRow ==
  ASSUME StatementsInv, Statements!NextRow
  PROVE  StatementsInv'
<1>0. /\ TableTypes /\ ClientTypes /\ CurdTypes /\ ClientPlaces /\ Created
      /\ Bound /\ OwnRow /\ Stored /\ UpdatedOwn /\ Freed /\ RowsMeant
  BY DEF StatementsInv
<1> USE <1>0, ClientNames, NoStatementRecord
<1>1. TableTypes'
  BY DEF Statements!NextRow, Statements!Goes, Statements!Returns, Statements!table,
         TableTypes
<1>2. ClientTypes'
  BY DEF Statements!NextRow, Statements!Goes, Statements!Returns, Statements!table,
         ClientTypes
<1>3. CurdTypes'
  BY DEF Statements!NextRow, Statements!Goes, Statements!Returns, Statements!table,
         CurdTypes, TableTypes
<1>4. ClientPlaces'
  BY DEF Statements!NextRow, Statements!Goes, Statements!Returns, Statements!table,
         ClientPlaces, Inserting, Querying
<1>5. Created'
  BY DEF Statements!NextRow, Statements!Goes, Statements!Returns, Statements!table, Created,
         Creations, TableTypes, CurdTypes, ClientPlaces, Inserting, Querying
<1>6. Bound'
  BY DEF Statements!NextRow, Statements!Goes, Statements!Returns, Statements!table, Bound,
         ClientTypes, ClientPlaces, Inserting, Querying
<1>7. OwnRow'
  BY DEF Statements!NextRow, Statements!Goes, Statements!Returns, Statements!table, OwnRow,
         Own, OwnId, TableTypes, Created, ClientPlaces, Inserting, Querying
<1>8. Stored'
  <2>1. /\ clientAt[Statements!Curd] = "next" /\ UNCHANGED <<exists, version, rows, shown, mine>>
        /\ clientAt' = [clientAt EXCEPT ![Statements!Curd] =
                          IF stored.row < Len(stored.rows) THEN "read" ELSE "free"]
        /\ stored' = [stored EXCEPT !.row = @ + 1]
    BY DEF Statements!NextRow, Statements!Goes, Statements!table
  <2>2. /\ stored'.rows = stored.rows /\ stored'.row = stored.row + 1
        /\ Len(stored.rows) \in Nat
    BY <2>1 DEF CurdTypes
  <2>6. stored'.open <=> stored.open
    BY <2>1 DEF CurdTypes
  <2>9. stored.open
    BY <2>1 DEF Stored
  <2>7. stored.row = 0 /\ Len(stored.rows) <= 1
    BY <2>1 DEF Stored
  <2>3. /\ Own => \A k \in DOMAIN stored.rows : stored.rows[k].values = rows[mine[2]].values
        /\ Own /\ shown # <<>> => shown[1].values = rows[mine[2]].values
    BY <2>1, <2>9 DEF Stored
  <2>8. clientAt'[Statements!Curd] = IF stored.row < Len(stored.rows) THEN "read" ELSE "free"
    BY <2>1 DEF ClientPlaces
  <2>4. /\ clientAt'[Statements!Curd] \in {"read", "free"}
        /\ clientAt'[Statements!Curd] = "read" => Len(stored.rows) = 1
    <3> PICK len \in Nat : len = Len(stored.rows)
      BY <2>2
    <3>1. clientAt'[Statements!Curd] = IF 0 < len THEN "read" ELSE "free"
      BY <2>7, <2>8
    <3>4. len = 0 \/ len = 1
      <4>1. len <= 1
        BY <2>7
      <4> QED BY ONLY <4>1, len \in Nat
    <3>2. CASE len = 1
      BY <3>1, <3>2
    <3>3. CASE len = 0
      <4>1. clientAt'[Statements!Curd] = "free"
        BY <3>1, <3>3
      <4> QED BY <4>1
    <3> QED BY <3>2, <3>3, <3>4
  <2>5. Own' = Own
    BY <2>1 DEF Own
  <2> QED BY <2>1, <2>2, <2>3, <2>4, <2>5, <2>6, <2>7, <2>9 DEF Stored, Querying
<1>9. UpdatedOwn'
  BY DEF Statements!NextRow, Statements!Goes, Statements!Returns, Statements!table,
         UpdatedOwn, TableTypes, ClientPlaces, Inserting, Querying
<1>10. Freed'
  BY DEF Statements!NextRow, Statements!Goes, Statements!Returns, Statements!table, Freed,
         ClientTypes, ClientPlaces, Inserting, Querying
<1>11. RowsMeant'
  BY DEF Statements!NextRow, Statements!Goes, Statements!Returns, Statements!table,
         RowsMeant, TableTypes
<1> QED BY <1>1, <1>2, <1>3, <1>4, <1>5, <1>6, <1>7, <1>8, <1>9, <1>10, <1>11
           DEF StatementsInv

LEMMA StatementsRead ==
  ASSUME StatementsInv, Statements!Read
  PROVE  StatementsInv'
<1>0. /\ TableTypes /\ ClientTypes /\ CurdTypes /\ ClientPlaces /\ Created
      /\ Bound /\ OwnRow /\ Stored /\ UpdatedOwn /\ Freed /\ RowsMeant
  BY DEF StatementsInv
<1> USE <1>0, ClientNames, NoStatementRecord
<1>1. TableTypes'
  BY DEF Statements!Read, Statements!Goes, Statements!Returns, Statements!table, TableTypes
<1>2. ClientTypes'
  BY DEF Statements!Read, Statements!Goes, Statements!Returns, Statements!table, ClientTypes
<1>3. CurdTypes'
  BY DEF Statements!Read, Statements!Goes, Statements!Returns, Statements!table, CurdTypes,
         TableTypes
<1>4. ClientPlaces'
  BY DEF Statements!Read, Statements!Goes, Statements!Returns, Statements!table,
         ClientPlaces, Inserting, Querying
<1>5. Created'
  BY DEF Statements!Read, Statements!Goes, Statements!Returns, Statements!table, Created,
         Creations, TableTypes, CurdTypes, ClientPlaces, Inserting, Querying
<1>6. Bound'
  BY DEF Statements!Read, Statements!Goes, Statements!Returns, Statements!table, Bound,
         ClientTypes, ClientPlaces, Inserting, Querying
<1>7. OwnRow'
  BY DEF Statements!Read, Statements!Goes, Statements!Returns, Statements!table, OwnRow,
         Own, OwnId, TableTypes, Created, ClientPlaces, Inserting, Querying
<1>8. Stored'
  BY DEF Statements!Read, Statements!Goes, Statements!Returns, Statements!table, Stored,
         Own, OwnRow, TableTypes, CurdTypes, Created, ClientPlaces, Inserting, Querying
<1>9. UpdatedOwn'
  BY DEF Statements!Read, Statements!Goes, Statements!Returns, Statements!table, UpdatedOwn,
         TableTypes, ClientPlaces, Inserting, Querying
<1>10. Freed'
  BY DEF Statements!Read, Statements!Goes, Statements!Returns, Statements!table, Freed,
         ClientTypes, ClientPlaces, Inserting, Querying
<1>11. RowsMeant'
  BY DEF Statements!Read, Statements!Goes, Statements!Returns, Statements!table, RowsMeant,
         TableTypes
<1> QED BY <1>1, <1>2, <1>3, <1>4, <1>5, <1>6, <1>7, <1>8, <1>9, <1>10, <1>11
           DEF StatementsInv

LEMMA StatementsFreeResult ==
  ASSUME StatementsInv, Statements!FreeResult
  PROVE  StatementsInv'
<1>0. /\ TableTypes /\ ClientTypes /\ CurdTypes /\ ClientPlaces /\ Created
      /\ Bound /\ OwnRow /\ Stored /\ UpdatedOwn /\ Freed /\ RowsMeant
  BY DEF StatementsInv
<1> USE <1>0, ClientNames, NoStatementRecord
<1>1. TableTypes'
  BY DEF Statements!FreeResult, Statements!Goes, Statements!Returns, Statements!table,
         Statements!NoResult, TableTypes
<1>2. ClientTypes'
  BY DEF Statements!FreeResult, Statements!Goes, Statements!Returns, Statements!table,
         Statements!NoResult, ClientTypes
<1>3. CurdTypes'
  BY DEF Statements!FreeResult, Statements!Goes, Statements!Returns, Statements!table,
         Statements!NoResult, CurdTypes, TableTypes
<1>4. ClientPlaces'
  BY DEF Statements!FreeResult, Statements!Goes, Statements!Returns, Statements!table,
         Statements!NoResult, ClientPlaces, Inserting, Querying
<1>5. Created'
  BY DEF Statements!FreeResult, Statements!Goes, Statements!Returns, Statements!table,
         Statements!NoResult, Created, Creations, TableTypes, CurdTypes, ClientPlaces,
         Inserting, Querying
<1>6. Bound'
  BY DEF Statements!FreeResult, Statements!Goes, Statements!Returns, Statements!table,
         Statements!NoResult, Bound, ClientTypes, ClientPlaces, Inserting, Querying
<1>7. OwnRow'
  BY DEF Statements!FreeResult, Statements!Goes, Statements!Returns, Statements!table,
         Statements!NoResult, OwnRow, Own, OwnId, TableTypes, Created, ClientPlaces,
         Inserting, Querying
<1>8. Stored'
  <2>1. /\ clientAt[Statements!Curd] = "free" /\ UNCHANGED <<exists, version, rows, shown, mine>>
        /\ clientAt' = [clientAt EXCEPT ![Statements!Curd] = IF phase = 2 THEN "update"
             ELSE "leave"]
        /\ stored'.open = FALSE /\ stored'.rows = <<>>
    BY DEF Statements!FreeResult, Statements!Goes, Statements!table, Statements!NoResult
  <2>2. Len(stored'.rows) <= 1
    BY <2>1, NoRows
  <2>3. clientAt'[Statements!Curd] \in {"update", "leave"}
    BY <2>1 DEF ClientPlaces
  <2>4. Own' = Own /\ (Own /\ shown # <<>> => shown[1].values = rows[mine[2]].values)
    BY <2>1 DEF Own, Stored
  <2> QED BY <2>1, <2>2, <2>3, <2>4 DEF Stored, Querying
<1>9. UpdatedOwn'
  BY DEF Statements!FreeResult, Statements!Goes, Statements!Returns, Statements!table,
         Statements!NoResult, UpdatedOwn, TableTypes, ClientPlaces, Inserting, Querying
<1>10. Freed'
  BY DEF Statements!FreeResult, Statements!Goes, Statements!Returns, Statements!table,
         Statements!NoResult, Freed, ClientTypes, ClientPlaces, Inserting, Querying
<1>11. RowsMeant'
  BY DEF Statements!FreeResult, Statements!Goes, Statements!Returns, Statements!table,
         Statements!NoResult, RowsMeant, TableTypes
<1> QED BY <1>1, <1>2, <1>3, <1>4, <1>5, <1>6, <1>7, <1>8, <1>9, <1>10, <1>11
           DEF StatementsInv

LEMMA StatementsStep == StatementsInv /\ Statements!Next => StatementsInv'
<1> SUFFICES ASSUME StatementsInv, Statements!Next PROVE StatementsInv'
  OBVIOUS
<1>1. ASSUME NEW c \in Statements!Clients, NEW phone \in Statements!Held(c, Statements!Phone)
      PROVE  phone \in Cells
  <2>1. insertions[c] \in Nat /\ Statements!Phone \in Columns
    BY DEF StatementsInv, ClientTypes, Columns, Statements!Params, Statements!Phone
  <2>2. phone = <<c, insertions[c], Statements!Phone>> \/ phone = Statements!Garbage
    BY DEF Statements!Held, Statements!Variable
  <2> QED BY <2>1, <2>2 DEF Cells
<1>2. CASE \E c \in Statements!Clients, works \in BOOLEAN :
             \/ Statements!Drop(c, works) \/ Statements!Create(c, works)
             \/ Statements!Prepare(c, works)
             \/ \E phone \in Statements!Held(c, Statements!Phone) :
                  Statements!Execute(c, phone, works)
  BY <1>1, <1>2, StatementsDrop, StatementsCreate, StatementsPrepare, StatementsExecute
<1>3. CASE \E c \in Statements!Clients : \/ Statements!SetParam(c) \/ Statements!GetInsertId(c)
                                         \/ Statements!Close(c)
  BY <1>3, StatementsSetParam, StatementsGetInsertId, StatementsClose
<1>4. CASE \E works \in BOOLEAN : Statements!Query(works) \/ Statements!Update(works)
  BY <1>4, StatementsQuery, StatementsUpdate
<1>5. CASE \E t \in Tasks : Statements!RunTask(t)
  BY <1>5, StatementsRunTask
<1>6. CASE Statements!NextRow \/ Statements!Read \/ Statements!FreeResult
  BY <1>6, StatementsNextRow, StatementsRead, StatementsFreeResult
<1> QED BY <1>2, <1>3, <1>4, <1>5, <1>6 DEF Statements!Next

LEMMA StatementsFrame == StatementsInv /\ UNCHANGED statementVars => StatementsInv'
<1> SUFFICES ASSUME StatementsInv, UNCHANGED statementVars PROVE StatementsInv'
  OBVIOUS
<1>1. UNCHANGED <<exists, version, rows, clientAt, prepared, stored, IMUser_nId, insertions,
                  phase, ret, shown, mine>>
  BY DEF statementVars
<1>2. Own' = Own /\ OwnId' = OwnId /\ Creations' = Creations
  BY <1>1 DEF Own, OwnId, Creations
<1>3. TableTypes' /\ ClientTypes' /\ CurdTypes' /\ ClientPlaces' /\ Created'
  BY <1>1, <1>2 DEF StatementsInv, TableTypes, ClientTypes, CurdTypes, ClientPlaces, Created
<1>4. Bound' /\ OwnRow' /\ Freed' /\ RowsMeant' /\ UpdatedOwn'
  BY <1>1, <1>2 DEF StatementsInv, Bound, OwnRow, Freed, RowsMeant, UpdatedOwn
<1>5. Stored'
  BY <1>1, <1>2 DEF StatementsInv, Stored
<1> QED BY <1>3, <1>4, <1>5 DEF StatementsInv

LEMMA StatementsSafe ==
  StatementsInv => /\ Statements!TypeOK /\ Statements!RowsAsMeant
                   /\ Statements!QueriesOwnRow /\ Statements!ResultsFreed
<1> SUFFICES ASSUME StatementsInv
             PROVE  /\ Statements!TypeOK /\ Statements!RowsAsMeant
                    /\ Statements!QueriesOwnRow /\ Statements!ResultsFreed
  OBVIOUS
<1>0. /\ TableTypes /\ ClientTypes /\ CurdTypes /\ ClientPlaces /\ Created
      /\ Bound /\ OwnRow /\ Stored /\ UpdatedOwn /\ Freed /\ RowsMeant
  BY DEF StatementsInv
<1>1. Statements!TypeOK
  <2>1. exists \in BOOLEAN /\ ret \in [Statements!Clients -> BOOLEAN]
    BY <1>0 DEF TableTypes, ClientTypes
  <2>2. version \in 0..3
    BY <1>0 DEF Created, Creations, TableTypes, CurdTypes
  <2>3. clientAt \in [Statements!Clients -> {"wait", "drop", "create", "run", "insert", "set",
                      "id", "close", "query", "next", "read", "free", "update", "leave"}]
    BY <1>0 DEF ClientPlaces, Inserting, Querying
  <2>4. /\ rows # <<>> => exists
        /\ IMUser_nId \in Nat /\ phase \in 1..3 /\ Len(stored.rows) <= 1
    BY <1>0 DEF Created, CurdTypes, Stored
  <2> QED BY <2>1, <2>2, <2>3, <2>4 DEF Statements!TypeOK
<1>2. Statements!RowsAsMeant
  <2> SUFFICES ASSUME NEW id \in DOMAIN rows
               PROVE  \E c \in Statements!Clients : \E n \in 1..insertions[c] :
                        \A p \in 1..Statements!Params :
                          \/ rows[id].values[p] = <<c, n, p>>
                          \/ c \in Tasks /\ p = Statements!Phone
    BY DEF Statements!RowsAsMeant
  <2>1. Meant(rows[id].values, insertions)
    BY <1>0 DEF RowsMeant
  <2> QED BY <2>1 DEF Meant, MeantBy, Columns
<1>3. Statements!QueriesOwnRow
  <2>1. ASSUME mine # <<>>, version = mine[1], exists, clientAt[Statements!Curd] # "id"
        PROVE  /\ IMUser_nId = mine[2]
               /\ rows[IMUser_nId].values[1] = <<Statements!Curd, mine[3], 1>>
               /\ shown # <<>> => shown[1].values = rows[IMUser_nId].values
    BY <1>0, <2>1 DEF OwnRow, Own, OwnId, Stored
  <2>2. \A id \in DOMAIN rows : rows[id].updated => id = IMUser_nId
    BY <1>0 DEF UpdatedOwn
  <2>3. clientAt[Statements!Curd] = "read" => stored.row \in DOMAIN stored.rows
    <3>1. stored.rows \in Seq(Row)
      BY <1>0 DEF CurdTypes
    <3>2. DOMAIN stored.rows = 1..Len(stored.rows)
      BY <3>1, LenProperties
    <3>3. clientAt[Statements!Curd] = "read" => stored.row = 1 /\ Len(stored.rows) = 1
      BY <1>0 DEF Stored
    <3>4. 1 \in 1..1
      OBVIOUS
    <3> QED BY ONLY <3>2, <3>3, <3>4
  <2> QED BY <2>1, <2>2, <2>3 DEF Statements!QueriesOwnRow
<1>4. Statements!ResultsFreed
  <2>1. \A c \in Statements!Clients : prepared[c].open \in BOOLEAN
    BY <1>0, RecordFields DEF ClientTypes
  <2>2. stored.open \in BOOLEAN
    BY <1>0 DEF CurdTypes
  <2>3. \A c \in Statements!Clients :
          prepared[c].open = (clientAt[c] \in {"set", "id", "close"})
    BY <1>0, <2>1 DEF Freed
  <2>4. stored.open = (clientAt[Statements!Curd] \in {"next", "read", "free"})
    BY <1>0, <2>2 DEF Stored
  <2> QED BY <2>3, <2>4 DEF Statements!ResultsFreed
<1> QED BY <1>1, <1>2, <1>3, <1>4

-----------------------------------------------------------------------------
(* The types of the variables, with their bounds.                             *)

\* What BenchInv leaves open: which tests there are, and that a number that a producer has
\* read, and that of an item, is not beyond the last.
BenchBounds ==
  /\ round \in 1..Bench!LastRound /\ outcome \in {"running", "crashed", "finished"}
  /\ \A w \in DOMAIN producer : producer[w].count <= Bench!AllItems
  /\ \A j \in DOMAIN queue : queue[j] <= Bench!AllItems

LEMMA NatProduct == \A a, b \in Nat : a * b \in Nat
OBVIOUS

LEMMA BenchCounts ==
  ASSUME BenchInv
  PROVE  /\ Bench!AllItems \in Nat /\ arguments \in Arguments
         /\ s_count_push \in 0..Bench!AllItems /\ s_count_pop \in 0..Bench!AllItems
<1>0. BenchTypes /\ AddsCounted
  BY DEF BenchInv
<1>1. /\ arguments \in Arguments /\ arguments[1] \in Nat /\ arguments[3] \in Nat
      /\ Bench!AllItems = arguments[1] * arguments[3] /\ Bench!AllItems \in Nat
  BY <1>0, ArgumentTypes DEF BenchTypes
<1> PICK a \in Nat : a = arguments[1]
  BY <1>1
<1> PICK b \in Nat : b = arguments[3]
  BY <1>1
<1>2. IsFiniteSet(1..a) /\ Cardinality(1..a) = a
  <2>1. 1 \in Int /\ a \in Int /\ a - 1 + 1 = a /\ (1 > a <=> a = 0)
    OBVIOUS
  <2> QED BY <2>1, FS_Interval
<1>3. s_count_push \in Nat /\ s_count_push <= Bench!AllItems
  <2> PICK f : f = AddedBy
    OBVIOUS
  <2>1. Cardinality(Counted(1..a, b, f)) <= Cardinality(1..a) * b
    BY ONLY <1>2, CountedFinite, b \in Nat
  <2>2. s_count_push = Cardinality(Counted(1..a, b, f))
    BY <1>0 DEF AddsCounted
  <2>3. s_count_push \in Nat
    BY <1>0 DEF BenchTypes
  <2> QED BY <1>1, <1>2, <2>1, <2>2, <2>3
<1>4. s_count_pop \in Nat /\ s_count_pop <= Bench!AllItems
  BY ConsumerFacts
<1> QED BY <1>1, <1>3, <1>4

LEMMA BenchTyped ==
  ASSUME BenchInv, BenchBounds
  PROVE  Bench!TypeOK
<1>0. BenchTypes /\ ProducersStand
  BY DEF BenchInv
<1>1. /\ Bench!AllItems \in Nat /\ arguments \in Arguments
      /\ s_count_push \in 0..Bench!AllItems /\ s_count_pop \in 0..Bench!AllItems
  BY BenchCounts
<1>2. queue \in Seq(0..Bench!AllItems)
  <2>1. queue \in Seq(Nat) /\ \A j \in DOMAIN queue : queue[j] \in Nat
    BY <1>0 DEF BenchTypes
  <2>2. \A j \in DOMAIN queue : queue[j] \in 0..Bench!AllItems
    BY <1>1, <2>1 DEF BenchBounds
  <2>3. DOMAIN queue = 1..Len(queue) /\ Len(queue) \in Nat
    BY <2>1, LenProperties
  <2>4. queue = [j \in 1..Len(queue) |-> queue[j]]
    BY <2>1, <2>3
  <2>5. queue \in [1..Len(queue) -> 0..Bench!AllItems]
    BY <2>2, <2>3, <2>4
  <2> QED BY <2>3, <2>5, SeqDef
<1>3. ASSUME NEW w \in DOMAIN producer
      PROVE  producer[w] \in [at : ProducerPlaces, i : 0..arguments[3], count : 0..Bench!AllItems]
  <2>1. w \in 1..arguments[1] /\ producer[w] \in [at : ProducerPlaces, i : Nat, count : Nat]
    BY <1>0 DEF BenchTypes
  <2>2. Bench!Items(Bench!kind) \in 0..arguments[3] /\ arguments[3] \in Nat
    BY <1>1, ItemsBound, ArgumentTypes
  <2>3. producer[w].i <= Bench!Items(Bench!kind)
    BY <1>0, <2>1 DEF ProducersStand, PlaceOk
  <2>4. producer[w].count <= Bench!AllItems
    BY DEF BenchBounds
  <2>5. producer[w].i \in 0..arguments[3]
    BY <2>1, <2>2, <2>3
  <2>6. producer[w].count \in 0..Bench!AllItems
    BY <1>1, <2>1, <2>4
  <2> QED BY ONLY <2>1, <2>5, <2>6
<1>4. \A x \in DOMAIN consumer : consumer[x] \in {"dequeue", "add", "check", "done"}
  BY <1>0 DEF BenchTypes
<1>5. flushed \in 0..Len(queue)
  BY <1>0 DEF BenchTypes
<1> QED BY <1>1, <1>2, <1>3, <1>4, <1>5
        DEF Bench!TypeOK, BenchBounds, ProducerPlaces, Bench!s_queue_item_num

LEMMA BenchInitBounds == Bench!Init => BenchBounds
<1> SUFFICES ASSUME Bench!Init PROVE BenchBounds
  OBVIOUS
<1>1. arguments \in Arguments /\ round = 1 /\ queue = <<>> /\ outcome = "running"
  BY DEF Bench!Init
<1>2. Bench!AllItems \in Nat
  BY <1>1, ArgumentTypes
<1>3. \A w \in DOMAIN producer : producer[w].count = 0
  BY DEF Bench!Init, Bench!NewProducers
<1>4. DOMAIN queue = {}
  BY <1>1
<1>5. round \in 1..Bench!LastRound
  BY <1>1 DEF Bench!LastRound
<1> QED BY <1>1, <1>2, <1>3, <1>4, <1>5 DEF BenchBounds

\* An item is a number that was read before, and a number that is read is one of the adds.
LEMMA BenchBoundsStep ==
  ASSUME BenchInv, BenchBounds, Bench!Next
  PROVE  BenchBounds'
<1>0. BenchTypes
  BY DEF BenchInv
<1>1. /\ Bench!AllItems \in Nat /\ s_count_push \in Nat /\ s_count_push <= Bench!AllItems
  BY BenchCounts
<1>2. arguments' = arguments
  BY DEF Bench!Next, Bench!Producer, Bench!MutexPush, Bench!AddPush, Bench!ReadPush,
         Bench!Enqueue, Bench!Flush, Bench!Consumer, Bench!Dequeue, Bench!NoData, Bench!AddPop,
         Bench!Check, Bench!Main, Bench!DivideByZero, Bench!Finish, Bench!NextTest, Bench!kept
<1>3. Bench!AllItems' = Bench!AllItems /\ Bench!LastRound' = Bench!LastRound
  BY <1>2 DEF Bench!AllItems, Bench!LastRound, Bench!s_queue_item_num,
              Bench!s_producer_thread_num, Bench!s_consumer_thread_num
<1>4. /\ queue \in Seq(Nat) /\ Len(queue) \in Nat /\ DOMAIN queue = 1..Len(queue)
      /\ \A j \in 1..Len(queue) : queue[j] <= Bench!AllItems
  BY <1>0, LenProperties DEF BenchTypes, BenchBounds
<1>5. ASSUME NEW k \in Nat, k <= Bench!AllItems, queue' = Append(queue, k)
      PROVE  \A j \in DOMAIN queue' : queue'[j] <= Bench!AllItems
  <2>1. /\ DOMAIN queue' = 1..Len(queue) + 1
        /\ queue'[Len(queue) + 1] = k /\ \A j \in 1..Len(queue) : queue'[j] = queue[j]
    BY ONLY <1>4, <1>5, AppendProperties, LenProperties
  <2>2. \A j \in DOMAIN queue' : j \in 1..Len(queue) \/ j = Len(queue) + 1
    BY ONLY <1>4, <2>1
  <2> QED BY ONLY <1>4, <1>5, <2>1, <2>2
<1>6. ASSUME NEW w \in DOMAIN producer, Bench!Producer(w) PROVE BenchBounds'
  <2>1. round' = round /\ outcome' = outcome
    BY <1>6 DEF Bench!Producer, Bench!MutexPush, Bench!AddPush, Bench!ReadPush, Bench!Enqueue,
                Bench!Flush, Bench!kept
  <2>2. /\ w \in 1..arguments[1]
        /\ producer \in [1..arguments[1] -> [at : ProducerPlaces, i : Nat, count : Nat]]
        /\ producer[w].count \in Nat /\ producer[w].count <= Bench!AllItems
    BY <1>0 DEF BenchTypes, BenchBounds
  <2>3. \A v \in DOMAIN producer' : producer'[v].count <= Bench!AllItems
    <3>1. \E r : /\ producer' = [producer EXCEPT ![w] = r]
                 /\ r.count \in {producer[w].count, s_count_push}
      <4> PICK r0 : r0 = producer[w]
        OBVIOUS
      <4>0. r0 \in [at : ProducerPlaces, i : Nat, count : Nat]
        BY <2>2
      <4>1. \A x, y : /\ [r0 EXCEPT !.at = x].count = r0.count
                      /\ [[r0 EXCEPT !.i = @ + 1] EXCEPT !.at = x].count = r0.count
                      /\ [[r0 EXCEPT !.count = y] EXCEPT !.at = x].count = y
        BY ONLY <4>0, ProducerRecords
      <4>2. CASE Bench!MutexPush(w) \/ Bench!Enqueue(w)
        <5>1. \E x : producer' = [producer EXCEPT ![w] = [[r0 EXCEPT !.i = @ + 1] EXCEPT !.at = x]]
          BY <4>2 DEF Bench!MutexPush, Bench!Enqueue
        <5> PICK x : producer' = [producer EXCEPT ![w] = [[r0 EXCEPT !.i = @ + 1] EXCEPT !.at = x]]
          BY <5>1
        <5>2. PICK r : r = [[r0 EXCEPT !.i = @ + 1] EXCEPT !.at = x]
          OBVIOUS
        <5>3. r.count = r0.count
          BY <4>1, <5>2
        <5> QED BY <5>2, <5>3
      <4>3. CASE Bench!AddPush(w) \/ Bench!Flush(w)
        <5>1. \E x : producer' = [producer EXCEPT ![w] = [r0 EXCEPT !.at = x]]
          BY <4>3 DEF Bench!AddPush, Bench!Flush
        <5> PICK x : producer' = [producer EXCEPT ![w] = [r0 EXCEPT !.at = x]]
          BY <5>1
        <5>2. PICK r : r = [r0 EXCEPT !.at = x]
          OBVIOUS
        <5>3. r.count = r0.count
          BY <4>1, <5>2
        <5> QED BY <5>2, <5>3
      <4>4. CASE Bench!ReadPush(w)
        <5>1. \E x : producer' = [producer EXCEPT
                        ![w] = [[r0 EXCEPT !.count = s_count_push] EXCEPT !.at = x]]
          BY <4>4 DEF Bench!ReadPush
        <5> PICK x : producer' = [producer EXCEPT
                        ![w] = [[r0 EXCEPT !.count = s_count_push] EXCEPT !.at = x]]
          BY <5>1
        <5>2. PICK r : r = [[r0 EXCEPT !.count = s_count_push] EXCEPT !.at = x]
          OBVIOUS
        <5>3. r.count = s_count_push
          BY <4>1, <5>2
        <5> QED BY <5>2, <5>3
      <4> QED BY <1>6, <4>2, <4>3, <4>4 DEF Bench!Producer
    <3>2. PICK r : /\ producer' = [producer EXCEPT ![w] = r]
                   /\ r.count \in {producer[w].count, s_count_push}
      BY <3>1
    <3>3. DOMAIN producer' = DOMAIN producer
          /\ \A v \in DOMAIN producer' : producer'[v] = IF v = w THEN r ELSE producer[v]
      BY <2>2, <3>2
    <3> QED BY <1>1, <2>2, <3>2, <3>3 DEF BenchBounds
  <2>4. \A j \in DOMAIN queue' : queue'[j] <= Bench!AllItems
    <3>1. \/ queue' = queue \/ queue' = Append(queue, s_count_push)
          \/ queue' = Append(queue, producer[w].count)
      BY <1>6 DEF Bench!Producer, Bench!MutexPush, Bench!AddPush, Bench!ReadPush,
                  Bench!Enqueue, Bench!Flush
    <3> QED BY <1>1, <1>4, <1>5, <2>2, <3>1
  <2> QED BY <1>3, <2>1, <2>3, <2>4 DEF BenchBounds
<1>7. ASSUME NEW x \in DOMAIN consumer, Bench!Consumer(x) PROVE BenchBounds'
  <2>1. round' = round /\ outcome' = outcome /\ producer' = producer
    BY <1>7 DEF Bench!Consumer, Bench!Dequeue, Bench!NoData, Bench!AddPop, Bench!Check,
                Bench!kept
  <2>2. queue' = queue \/ (queue' = Tail(queue) /\ queue # <<>>)
    <3>1. CASE Bench!Dequeue(x)
      <4>1. Bench!Readable > 0 /\ queue' = Tail(queue)
        BY <3>1 DEF Bench!Dequeue
      <4>2. queue # <<>>
        <5>1. flushed \in 0..Len(queue) /\ (queue = <<>> => Len(queue) = 0)
          BY <1>0 DEF BenchTypes
        <5> QED BY <4>1, <5>1 DEF Bench!Readable
      <4> QED BY <4>1, <4>2
    <3>2. CASE Bench!NoData(x) \/ Bench!AddPop(x) \/ Bench!Check(x)
      BY <3>2 DEF Bench!NoData, Bench!AddPop, Bench!Check
    <3> QED BY <1>7, <3>1, <3>2 DEF Bench!Consumer
  <2>3. \A j \in DOMAIN queue' : queue'[j] <= Bench!AllItems
    <3>1. CASE queue' = Tail(queue) /\ queue # <<>>
      <4>1. /\ Tail(queue) \in Seq(Nat) /\ Len(Tail(queue)) = Len(queue) - 1
            /\ \A j \in 1..Len(queue) - 1 : Tail(queue)[j] = queue[j + 1]
        BY ONLY <1>4, <3>1, HeadTailProperties
      <4>2. DOMAIN Tail(queue) = 1..Len(queue) - 1
        BY ONLY <4>1, LenProperties
      <4>3. \A j \in 1..Len(queue) - 1 : j + 1 \in 1..Len(queue)
        BY <1>4
      <4> QED BY ONLY <1>4, <3>1, <4>1, <4>2, <4>3
    <3> QED BY <1>4, <2>2, <3>1
  <2> QED BY <1>3, <2>1, <2>3 DEF BenchBounds
<1>8. CASE Bench!Main
  <2>1. outcome' \in {"running", "crashed", "finished"}
    BY <1>8 DEF Bench!Main, Bench!DivideByZero, Bench!Finish, Bench!NextTest, BenchBounds
  <2>2. queue' = queue
    BY <1>8 DEF Bench!Main, Bench!DivideByZero, Bench!Finish, Bench!NextTest
  <2>3. round' \in 1..Bench!LastRound
    <3>1. round \in 1..Bench!LastRound /\ Bench!LastRound \in {4, 6}
      BY DEF BenchBounds, Bench!LastRound
    <3>2. round' = round \/ (round' = round + 1 /\ round < Bench!LastRound)
      BY <1>8 DEF Bench!Main, Bench!DivideByZero, Bench!Finish, Bench!NextTest
    <3> QED BY ONLY <3>1, <3>2
  <2>4. producer' = producer \/ \A w \in DOMAIN producer' : producer'[w].count = 0
    <3>1. CASE Bench!DivideByZero \/ Bench!Finish
      BY <3>1 DEF Bench!DivideByZero, Bench!Finish
    <3>2. CASE Bench!NextTest
      <4>1. producer' = Bench!NewProducers(Bench!Tests[round + 1])
        BY <3>2 DEF Bench!NextTest
      <4> QED BY <4>1 DEF Bench!NewProducers
    <3> QED BY <1>8, <3>1, <3>2 DEF Bench!Main
  <2> QED BY <1>1, <1>3, <2>1, <2>2, <2>3, <2>4 DEF BenchBounds
<1> QED BY <1>6, <1>7, <1>8 DEF Bench!Next

LEMMA BenchBoundsFrame ==
  ASSUME BenchBounds, UNCHANGED benchVars
  PROVE  BenchBounds'
<1>1. /\ arguments' = arguments /\ round' = round /\ queue' = queue
      /\ producer' = producer /\ outcome' = outcome
  BY DEF benchVars
<1>2. Bench!AllItems' = Bench!AllItems /\ Bench!LastRound' = Bench!LastRound
  BY <1>1 DEF Bench!AllItems, Bench!LastRound, Bench!s_queue_item_num,
              Bench!s_producer_thread_num, Bench!s_consumer_thread_num
<1> QED BY <1>1, <1>2 DEF BenchBounds

-----------------------------------------------------------------------------
\* When all tests of the counters are over, the counter is reset.
CounterReset == test = 5 => counter = 0

LEMMA CounterResetInit == Bench!CounterInit => CounterReset
BY DEF Bench!CounterInit, CounterReset

LEMMA CounterResetStep ==
  ASSUME CounterInv, CounterReset, Bench!CounterNext
  PROVE  CounterReset'
<1>1. test \in 1..5
  BY DEF CounterInv, CounterTypes
<1>2. CASE Bench!Join
  BY <1>2 DEF Bench!Join, CounterReset
<1>3. ASSUME NEW t \in Incrementers, Bench!Thread(t) PROVE CounterReset'
  <2>1. test' = test /\ test \in DOMAIN Bench!Locks
    BY <1>3 DEF Bench!Thread, Bench!Lock, Bench!Load, Bench!Store, Bench!Unlock, Bench!Xadd,
                Bench!Reload, Bench!At, Bench!Looping, Bench!Running
  <2>2. test # 5
    BY <2>1, LockNames
  <2> QED BY <2>1, <2>2 DEF CounterReset
<1> QED BY <1>2, <1>3 DEF Bench!CounterNext

LEMMA CounterResetFrame == CounterReset /\ UNCHANGED counterVars => CounterReset'
BY DEF CounterReset, counterVars

LEMMA CounterTyped ==
  ASSUME CounterInv, CounterReset
  PROVE  Bench!CounterTypeOK
<1>0. CounterTypes /\ LockHeld /\ CounterExact
  BY DEF CounterInv
<1>1. test \in 1..Len(Bench!Locks) + 1
  BY <1>0 DEF CounterTypes, Bench!Locks
<1>2. /\ Cardinality(Counted(Incrementers, FOR_LOOP_COUNT, Made)) \in Nat
      /\ Cardinality(Counted(Incrementers, FOR_LOOP_COUNT, Made))
           <= Cardinality(Incrementers) * FOR_LOOP_COUNT
      /\ Cardinality(Incrementers) * FOR_LOOP_COUNT \in Nat
  <2>1. FOR_LOOP_COUNT \in Nat /\ IsFiniteSet(Incrementers)
    BY BenchAssumption
  <2>2. Cardinality(Incrementers) \in Nat
    BY <2>1, FS_CardinalityType
  <2> PICK f : f = Made
    OBVIOUS
  <2>3. /\ Cardinality(Counted(Incrementers, FOR_LOOP_COUNT, f)) \in Nat
        /\ Cardinality(Counted(Incrementers, FOR_LOOP_COUNT, f))
             <= Cardinality(Incrementers) * FOR_LOOP_COUNT
    BY ONLY <2>1, CountedFinite
  <2>4. Cardinality(Incrementers) * FOR_LOOP_COUNT \in Nat
    BY ONLY <2>1, <2>2, NatProduct
  <2> QED BY <2>3, <2>4, f = Made
<1>3. counter \in 0..Cardinality(Incrementers) * FOR_LOOP_COUNT
  <2>1. CASE test < 5
    <3>1. \/ counter = 0
          \/ counter = Cardinality(Counted(Incrementers, FOR_LOOP_COUNT, Made))
      BY <1>0, <2>1 DEF CounterExact
    <3> QED BY ONLY <1>2, <3>1
  <2>2. CASE test = 5
    BY <1>2, <2>2 DEF CounterReset
  <2> QED BY <1>0, <2>1, <2>2 DEF CounterTypes
<1>4. held <=> \E t \in Incrementers : thread[t].at \in {"load", "store", "unlock"}
  BY <1>0 DEF LockHeld, Inside
<1> QED BY <1>1, <1>3, <1>4, SameCardinality DEF Bench!CounterTypeOK

-----------------------------------------------------------------------------
\* What StartInv and ItemsInv leave open: whom main waits for, and how many items there are.
ThreadsTypes ==
  /\ asleep \in {100} \union Starters /\ put \in 0..Threads!Items
  /\ mainAt \in {"choose", "latch", "count", "assert"} \X ({100} \union Starters)

LEMMA ItemsNumber == Threads!Items \in Nat
<1>1. Cardinality(Starters) \in Nat /\ Share \in Nat
  BY ThreadsAssumption, FS_CardinalityType
<1>2. Threads!Items = Cardinality(Starters) * Share
  BY ThreadsCardinality DEF Threads!Items
<1> QED BY <1>1, <1>2, NatProduct

LEMMA ThreadsInitTypes == Threads!Init => ThreadsTypes
BY ItemsNumber DEF Threads!Init, ThreadsTypes, Threads!Nobody

LEMMA ThreadsTypesStep ==
  ASSUME StartInv, ThreadsTypes, Threads!Next
  PROVE  ThreadsTypes'
<1>1. /\ asleep \in {100} \union Starters /\ put \in 0..Threads!Items
      /\ mainAt \in {"choose", "latch", "count", "assert"} \X ({100} \union Starters)
      /\ mainAt[1] # "choose" => mainAt[2] \in Starters
  BY DEF ThreadsTypes, StartInv, StartTypes
<1>2. asleep' \in {asleep, 100} \/ (asleep' = mainAt[2] /\ mainAt[1] = "count")
  BY DEF Threads!Next, Threads!MainStep, Threads!EnterLatch, Threads!CheckCount,
         Threads!Started, Threads!Put, Threads!Start, Threads!Join, Threads!Spurious,
         Threads!Destroy, Threads!Runner, Threads!SetTid, Threads!CountDown,
         Threads!NotifyAll, Threads!Leave, Threads!Take, Threads!End, Threads!SpuriousTake,
         Threads!latches, Threads!queue, Threads!Nobody
<1>3. put' = put \/ (put' = put + 1 /\ put < Threads!Items)
  BY DEF Threads!Next, Threads!MainStep, Threads!EnterLatch, Threads!CheckCount,
         Threads!Started, Threads!Put, Threads!Start, Threads!Join, Threads!Spurious,
         Threads!Destroy, Threads!Runner, Threads!SetTid, Threads!CountDown,
         Threads!NotifyAll, Threads!Leave, Threads!Take, Threads!End, Threads!SpuriousTake,
         Threads!latches, Threads!queue
<1>4. \/ mainAt' = mainAt \/ mainAt' = <<"choose", 100>>
      \/ \E t \in Starters : mainAt' = <<"latch", t>>
      \/ /\ mainAt[1] \in {"latch", "count"}
         /\ mainAt' \in {<<"count", mainAt[2]>>, <<"latch", mainAt[2]>>, <<"assert", mainAt[2]>>}
  BY DEF Threads!Next, Threads!MainStep, Threads!EnterLatch, Threads!CheckCount,
         Threads!Started, Threads!Put, Threads!Start, Threads!Join, Threads!Spurious,
         Threads!Destroy, Threads!Runner, Threads!SetTid, Threads!CountDown,
         Threads!NotifyAll, Threads!Leave, Threads!Take, Threads!End, Threads!SpuriousTake,
         Threads!latches, Threads!queue, Threads!Nobody
<1>5. asleep' \in {100} \union Starters
  BY <1>1, <1>2
<1>6. put' \in 0..Threads!Items
  BY <1>1, <1>3, ItemsNumber
<1>7. mainAt' \in {"choose", "latch", "count", "assert"} \X ({100} \union Starters)
  BY <1>1, <1>4
<1> QED BY <1>5, <1>6, <1>7 DEF ThreadsTypes, Threads!Items

LEMMA ThreadsTypesFrame == ThreadsTypes /\ UNCHANGED threadsVars => ThreadsTypes'
BY DEF ThreadsTypes, threadsVars, Threads!Items

\* A sequence of numbers that are all in a set.
LEMMA NumbersWithin ==
  ASSUME NEW s \in Seq(Nat), NEW S, \A j \in 1..Len(s) : s[j] \in S
  PROVE  s \in Seq(S)
<1>1. DOMAIN s = 1..Len(s) /\ Len(s) \in Nat /\ s = [j \in 1..Len(s) |-> s[j]]
  BY LenProperties
<1>2. s \in [1..Len(s) -> S]
  BY <1>1
<1> QED BY <1>1, <1>2, SeqDef

LEMMA ThreadsTyped ==
  ASSUME StartInv, ItemsInv, ThreadsTypes
  PROVE  Threads!TypeOK
<1>0. StartTypes /\ ItemsTypes /\ ItemsNumbered /\ Threads!Items \in Nat
  BY ItemsNumber DEF StartInv, ItemsInv
<1>1. \A s \in Seq(Nat) : (\A j \in 1..Len(s) : s[j] \in 1..Threads!Items)
                          => s \in Seq(1..Threads!Items)
  BY NumbersWithin
<1>2. put \in 0..Threads!Items /\ Len(order) \in Nat /\ Len(queue_) \in Nat
      /\ order \in Seq(Nat) /\ queue_ \in Seq(Nat)
  BY <1>0, LenProperties DEF ThreadsTypes, ItemsTypes
<1>3. Len(order) + Len(queue_) = put
  BY <1>0 DEF ItemsNumbered
<1>4. \A j \in 1..Len(order) : order[j] \in 1..Threads!Items
  BY <1>0, <1>2, <1>3 DEF ItemsNumbered
<1>5. \A j \in 1..Len(queue_) : queue_[j] \in 1..Threads!Items
  BY <1>0, <1>2, <1>3 DEF ItemsNumbered
<1>6. order \in Seq(1..Threads!Items) /\ queue_ \in Seq(1..Threads!Items)
  BY <1>1, <1>2, <1>4, <1>5
<1>7. /\ object \in [Starters -> {"none", "made", "started", "joined", "destroyed"}]
      /\ tid_ \in [Starters -> {0} \union Starters] /\ count_ \in [Starters -> {0, 1}]
      /\ owner \in [Starters -> {100, 0} \union Starters] /\ holder_ = owner
      /\ runner \in [Starters -> {"none", "tid", "countDown", "notify", "unlock", "run",
                                 "ended"}]
  <2>1. {0, 100} \union Starters = {100, 0} \union Starters
    OBVIOUS
  <2> QED BY <1>0, <2>1 DEF StartTypes
<1>8. sleepers \subseteq Starters
  BY <1>0 DEF ItemsTypes
<1>9. {holder_, owner} \subseteq [Starters -> {100, 0} \union Starters]
  BY <1>7
<1> QED BY <1>2, <1>6, <1>7, <1>8, <1>9
        DEF Threads!TypeOK, ThreadsTypes, Threads!Nobody, Threads!Main

-----------------------------------------------------------------------------
(* The leak detector.                                                         *)

CONSTANTS Tracers, Ptrs

\* malloc returns no null pointer for a block.
ASSUME LeakAssumption == 0 \notin Ptrs

VARIABLES
  tracing, inUse, records, enable, hook, saved, tracer, untraced, raced, unlisted, accused,
  crash

leakVars == <<tracing, inUse, records, enable, hook, saved, tracer, untraced, raced, unlisted,
              accused, crash>>

Leak == INSTANCE MemLeak WITH
  NULL <- 0, kind <- tracing, live <- inUse, files <- records, thread <- tracer

Calls == [at : {"idle", "enter", "work", "leave"}, op : {"malloc", "free"}, p : Ptrs \union {0}]

LeakTypes ==
  /\ tracing \in {"wrapper", "macro", "hook"}
  /\ inUse \subseteq Ptrs /\ records \subseteq Ptrs /\ untraced \subseteq inUse
  /\ enable \in [{"malloc", "free"} -> BOOLEAN]
  /\ hook \in {"libc", "trace"} /\ saved \in {"libc", "trace"}
  /\ tracer \in [Tracers -> Calls]
  /\ raced \in BOOLEAN /\ unlisted \in BOOLEAN /\ accused \in BOOLEAN
  /\ crash \in {"none", "double free", "stack"}

InHook(t) == tracer[t].at \in {"work", "leave"}

\* Without a race one thread at a time is in the hooks; a block is freed by one thread; and
\* what is about to be freed is a block with a file, until something else was freed.
HookUse ==
  /\ ~raced => \A t, u \in Tracers : Leak!Busy(t) /\ Leak!Busy(u) => t = u
  /\ \A t, u \in Tracers : /\ Leak!Busy(t) /\ tracer[t].op = "free"
                           /\ Leak!Busy(u) /\ tracer[u].op = "free"
                           /\ tracer[t].p = tracer[u].p
                           => t = u
  /\ ~unlisted => \A t \in Tracers :
       tracer[t].at \in {"enter", "work"} /\ tracer[t].op = "free"
         => tracer[t].p \in inUse \ untraced

\* Tracing is off exactly while a thread is in a hook.
TracingOff ==
  /\ tracing = "wrapper" /\ ~raced =>
       \A which \in {"malloc", "free"} :
         ~enable[which] <=> \E t \in Tracers : InHook(t) /\ tracer[t].op = which
  /\ tracing = "hook" /\ ~raced /\ ~unlisted =>
       /\ saved = "libc"
       /\ hook = "libc" <=> \E t \in Tracers : InHook(t)

\* The detector can be right: the cases that FilesAreLeaks is about.
Fair == (tracing # "macro" => ~raced) /\ (tracing = "hook" => ~unlisted)

FilesKept ==
  /\ Fair => records = inUse \ untraced /\ (accused => unlisted) /\ crash # "stack"
  /\ crash = "double free" => unlisted

LeakInv == LeakTypes /\ HookUse /\ TracingOff /\ FilesKept

LEMMA LeakInitInv == Leak!Init => LeakInv
<1> SUFFICES ASSUME Leak!Init PROVE LeakInv
  OBVIOUS
<1>1. /\ tracing \in {"wrapper", "macro", "hook"}
      /\ inUse = {} /\ records = {} /\ untraced = {}
      /\ enable = [which \in {"malloc", "free"} |-> TRUE]
      /\ hook = "trace" /\ saved = "libc"
      /\ tracer = [t \in Tracers |-> [at |-> "idle", op |-> "malloc", p |-> 0]]
      /\ raced = FALSE /\ unlisted = FALSE /\ accused = FALSE /\ crash = "none"
  BY DEF Leak!Init, Leak!Idle
<1>2. \A t \in Tracers : tracer[t].at = "idle"
  BY <1>1
<1>3. LeakTypes
  <2>1. [at |-> "idle", op |-> "malloc", p |-> 0] \in Calls
    BY DEF Calls
  <2>2. tracer \in [Tracers -> Calls]
    BY <1>1, <2>1
  <2> QED BY <1>1, <2>2 DEF LeakTypes
<1>4. HookUse
  BY <1>2 DEF HookUse, Leak!Busy
<1>5. TracingOff
  <2>1. \A which \in {"malloc", "free"} : enable[which]
    BY <1>1
  <2>2. \A t \in Tracers : ~InHook(t)
    BY <1>2 DEF InHook
  <2>3. saved = "libc" /\ hook # "libc"
    BY <1>1
  <2> QED BY <2>1, <2>2, <2>3 DEF TracingOff
<1>6. FilesKept
  BY <1>1 DEF FilesKept
<1> QED BY <1>3, <1>4, <1>5, <1>6 DEF LeakInv

LEMMA LeakFrame == LeakInv /\ UNCHANGED leakVars => LeakInv'
<1> SUFFICES ASSUME LeakInv, UNCHANGED leakVars PROVE LeakInv'
  OBVIOUS
<1>0. LeakTypes /\ HookUse /\ TracingOff /\ FilesKept
  BY DEF LeakInv
<1>1. /\ tracing' = tracing /\ inUse' = inUse /\ records' = records /\ enable' = enable
      /\ hook' = hook /\ saved' = saved /\ tracer' = tracer /\ untraced' = untraced
      /\ raced' = raced /\ unlisted' = unlisted /\ accused' = accused /\ crash' = crash
  BY DEF leakVars
<1>2. LeakTypes'
  BY <1>0, <1>1 DEF LeakTypes
<1>3. HookUse'
  BY <1>0, <1>1 DEF HookUse, Leak!Busy
<1>4. TracingOff'
  BY <1>0, <1>1 DEF TracingOff, InHook
<1>5. FilesKept'
  BY <1>0, <1>1 DEF FilesKept, Fair
<1> QED BY <1>2, <1>3, <1>4, <1>5 DEF LeakInv

\* A call that is replaced by another.
LEMMA CallRecords ==
  ASSUME NEW r \in Calls, NEW x \in {"idle", "enter", "work", "leave"}
  PROVE  /\ [r EXCEPT !.at = x] = [at |-> x, op |-> r.op, p |-> r.p]
         /\ [at |-> x, op |-> r.op, p |-> r.p] \in Calls
BY DEF Calls

LEMMA CallsChange ==
  ASSUME LeakTypes, NEW t \in Tracers, NEW r \in Calls, tracer' = [tracer EXCEPT ![t] = r]
  PROVE  /\ tracer' \in [Tracers -> Calls] /\ tracer'[t] = r
         /\ \A u \in Tracers : u # t => tracer'[u] = tracer[u]
BY DEF LeakTypes

\* A thread calls malloc or free, which is traced.
LEMMA LeakEnter ==
  ASSUME LeakInv, NEW t \in Tracers, NEW which \in {"malloc", "free"}, NEW p \in Ptrs \union {0},
         ~Leak!Busy(t), Leak!Race, Leak!Enter(t, which, p),
         which = "free" => ~Leak!Freeing(p),
         unlisted' \in BOOLEAN, unlisted => unlisted',
         which = "free" /\ ~unlisted' => p \in inUse \ untraced,
         UNCHANGED <<tracing, inUse, records, enable, hook, saved, untraced, accused, crash>>
  PROVE  LeakInv'
<1> PICK r \in Calls : r = [at |-> "enter", op |-> which, p |-> p]
  BY DEF Calls
<1>0. LeakTypes
  BY DEF LeakInv
<1>1. /\ tracer' \in [Tracers -> Calls] /\ tracer'[t] = r
      /\ \A u \in Tracers : u # t => tracer'[u] = tracer[u]
  <2>1. tracer' = [tracer EXCEPT ![t] = r]
    BY DEF Leak!Enter
  <2> QED BY ONLY <1>0, <2>1, CallsChange, t \in Tracers, r \in Calls
<1>2. raced' \in BOOLEAN /\ (raced => raced') /\ (~raced' => \A u \in Tracers : ~Leak!Busy(u))
  BY <1>0 DEF Leak!Race, LeakTypes
<1>3. LeakTypes'
  BY <1>0, <1>1, <1>2 DEF LeakTypes
<1>4. r.at = "enter" /\ r.op = which /\ r.p = p
  OBVIOUS
<1>5. tracer[t].at = "idle"
  BY DEF Leak!Busy
<1>6. HookUse'
  <2>1. ASSUME ~raced', NEW u \in Tracers, NEW v \in Tracers,
               tracer'[u].at # "idle", tracer'[v].at # "idle"
        PROVE  u = v
    BY <1>1, <1>2, <2>1 DEF Leak!Busy
  <2>2. ASSUME NEW u \in Tracers, NEW v \in Tracers, tracer'[u].at # "idle",
               tracer'[v].at # "idle", tracer'[u].op = "free", tracer'[v].op = "free",
               tracer'[u].p = tracer'[v].p
        PROVE  u = v
    <3>1. CASE u # t /\ v # t
      BY <1>1, <2>2, <3>1 DEF LeakInv, HookUse, Leak!Busy
    <3>2. ASSUME NEW x \in Tracers, x # t, tracer[x].at # "idle", tracer[x].op = "free",
                 tracer[x].p = p, which = "free"
          PROVE  FALSE
      BY <3>2 DEF Leak!Freeing, Leak!Busy
    <3> QED BY <1>1, <1>4, <2>2, <3>1, <3>2
  <2>3. ASSUME ~unlisted', NEW u \in Tracers, tracer'[u].at \in {"enter", "work"},
               tracer'[u].op = "free"
        PROVE  tracer'[u].p \in inUse' \ untraced'
    BY <1>1, <1>4, <2>3 DEF LeakInv, HookUse
  <2> QED BY <2>1, <2>2, <2>3 DEF HookUse, Leak!Busy
<1>7. TracingOff'
  <2>1. \A u \in Tracers : InHook(u)' <=> InHook(u)
    BY <1>1, <1>4, <1>5 DEF InHook
  <2>2. \A u \in Tracers : InHook(u) => tracer'[u] = tracer[u]
    BY <1>1, <1>5 DEF InHook
  <2> QED BY <1>2, <2>1, <2>2 DEF LeakInv, TracingOff
<1>8. FilesKept'
  BY <1>2 DEF LeakInv, FilesKept, Fair
<1> QED BY <1>3, <1>6, <1>7, <1>8 DEF LeakInv

\* A block is freed by the library, by thread t whose call is over or that was not traced.
LEMMA LeakLibcFree ==
  ASSUME LeakTypes, NEW p \in Ptrs \union {0}, Leak!LibcFree(p)
  PROVE  /\ inUse' \subseteq Ptrs /\ untraced' \subseteq inUse'
         /\ crash' \in {"none", "double free", "stack"}
         /\ inUse' \ untraced' = (inUse \ untraced) \ {p}
         /\ crash' # crash => crash' = "double free" /\ p \notin inUse /\ p # 0
BY DEF LeakTypes, Leak!LibcFree

\* A call that is not traced: only when the detector is not fair any more.
LEMMA LeakUntraced ==
  ASSUME LeakInv, NEW t \in Tracers, NEW which \in {"malloc", "free"}, ~Leak!Traced(which), Leak!Race
  PROVE  /\ tracing # "macro"
         /\ raced' \in BOOLEAN /\ (raced => raced')
         /\ ~raced' => tracing = "hook" /\ unlisted
<1>0. LeakTypes
  BY DEF LeakInv
<1>1. raced' \in BOOLEAN /\ (raced => raced') /\ (~raced' => \A u \in Tracers : ~Leak!Busy(u))
  BY <1>0 DEF Leak!Race, LeakTypes
<1>2. tracing # "macro"
  BY <1>0 DEF Leak!Traced, LeakTypes
<1>3. ASSUME ~raced' PROVE tracing = "hook" /\ unlisted
  <2>1. ~raced /\ \A u \in Tracers : ~InHook(u)
    BY <1>1, <1>3 DEF InHook, Leak!Busy
  <2>2. CASE tracing = "wrapper"
    <3>1. ~enable[which]
      BY <2>2 DEF Leak!Traced
    <3> QED BY <2>1, <2>2, <3>1 DEF LeakInv, TracingOff
  <2>3. CASE tracing = "hook"
    <3>1. hook = "libc"
      BY <1>0, <2>3 DEF Leak!Traced, LeakTypes
    <3> QED BY <2>1, <2>3, <3>1 DEF LeakInv, TracingOff
  <2> QED BY <1>0, <1>2, <2>2, <2>3 DEF LeakTypes
<1> QED BY <1>1, <1>2, <1>3

LEMMA LeakMalloc ==
  ASSUME LeakInv, NEW t \in Tracers, Leak!Malloc(t)
  PROVE  LeakInv'
<1>0. LeakTypes
  BY DEF LeakInv
<1>1. /\ Leak!Race /\ ~Leak!Busy(t)
      /\ UNCHANGED <<tracing, records, enable, hook, saved, untraced, unlisted, accused, crash>>
  BY DEF Leak!Malloc
<1>2. CASE Leak!Traced("malloc") /\ Leak!Enter(t, "malloc", 0) /\ UNCHANGED inUse
  BY <1>0, <1>1, <1>2, LeakEnter DEF LeakTypes
<1>3. ASSUME ~Leak!Traced("malloc"), NEW p \in Ptrs \ inUse, inUse' = inUse \union {p},
             UNCHANGED tracer
      PROVE  LeakInv'
  <2>1. /\ tracing # "macro" /\ raced' \in BOOLEAN /\ (raced => raced')
        /\ ~raced' => tracing = "hook" /\ unlisted
    BY <1>1, <1>3, LeakUntraced
  <2>2. LeakTypes'
    BY <1>0, <1>1, <1>3, <2>1 DEF LeakTypes
  <2>3. HookUse'
    BY <1>1, <1>3, <2>1 DEF LeakInv, HookUse, Leak!Busy
  <2>4. TracingOff'
    BY <1>1, <1>3, <2>1 DEF LeakInv, TracingOff, InHook
  <2>5. FilesKept'
    BY <1>1, <1>3, <2>1 DEF LeakInv, FilesKept, Fair
  <2> QED BY <2>2, <2>3, <2>4, <2>5 DEF LeakInv
<1> QED BY <1>2, <1>3 DEF Leak!Malloc

LEMMA LeakCalloc ==
  ASSUME LeakInv, NEW t \in Tracers, Leak!Calloc(t)
  PROVE  LeakInv'
<1>0. LeakTypes
  BY DEF LeakInv
<1>1. PICK p \in Ptrs \ inUse : inUse' = inUse \union {p} /\ untraced' = untraced \union {p}
  BY DEF Leak!Calloc
<1>2. UNCHANGED <<tracing, records, enable, hook, saved, tracer, raced, unlisted, accused, crash>>
  BY DEF Leak!Calloc
<1>3. inUse' \ untraced' = inUse \ untraced
  BY <1>0, <1>1 DEF LeakTypes
<1>4. LeakTypes'
  BY <1>0, <1>1, <1>2 DEF LeakTypes
<1>5. HookUse'
  BY <1>2, <1>3 DEF LeakInv, HookUse, Leak!Busy
<1>6. TracingOff' /\ FilesKept'
  BY <1>2, <1>3 DEF LeakInv, TracingOff, InHook, FilesKept, Fair
<1> QED BY <1>4, <1>5, <1>6 DEF LeakInv

LEMMA LeakFree ==
  ASSUME LeakInv, NEW t \in Tracers, NEW p \in Ptrs \union {0}, Leak!Free(t, p)
  PROVE  LeakInv'
<1>0. LeakTypes
  BY DEF LeakInv
<1>1. /\ Leak!Race /\ ~Leak!Busy(t) /\ ~Leak!Freeing(p)
      /\ unlisted' = (unlisted \/ p \notin inUse \ untraced)
      /\ UNCHANGED <<tracing, records, enable, hook, saved, accused>>
  BY DEF Leak!Free
<1>2. unlisted' \in BOOLEAN /\ (unlisted => unlisted') /\ (~unlisted' => p \in inUse \ untraced)
  BY <1>0, <1>1 DEF LeakTypes
<1>3. CASE Leak!Traced("free") /\ Leak!Enter(t, "free", p) /\ UNCHANGED <<inUse, untraced, crash>>
  BY <1>1, <1>2, <1>3, LeakEnter
<1>4. CASE ~Leak!Traced("free") /\ Leak!LibcFree(p) /\ UNCHANGED tracer
  <2>1. /\ tracing # "macro" /\ raced' \in BOOLEAN /\ (raced => raced')
        /\ ~raced' => tracing = "hook" /\ unlisted
    BY <1>1, <1>4, LeakUntraced
  <2>2. /\ inUse' \subseteq Ptrs /\ untraced' \subseteq inUse'
        /\ crash' \in {"none", "double free", "stack"}
        /\ inUse' \ untraced' = (inUse \ untraced) \ {p}
        /\ crash' # crash => crash' = "double free" /\ p \notin inUse /\ p # 0
    BY <1>0, <1>4, LeakLibcFree
  <2>3. LeakTypes'
    BY <1>0, <1>1, <1>2, <1>4, <2>1, <2>2 DEF LeakTypes
  <2>4. HookUse'
    <3>1. ASSUME ~unlisted', NEW u \in Tracers, tracer[u].at \in {"enter", "work"},
                 tracer[u].op = "free"
          PROVE  tracer[u].p \in inUse' \ untraced'
      <4>1. tracer[u].p \in inUse \ untraced
        BY <1>2, <3>1 DEF LeakInv, HookUse
      <4>2. tracer[u].p # p
        BY <1>1, <3>1 DEF Leak!Freeing, Leak!Busy
      <4> QED BY <2>2, <4>1, <4>2
    <3> QED BY <1>4, <2>1, <3>1 DEF LeakInv, HookUse, Leak!Busy
  <2>5. TracingOff'
    BY <1>1, <1>2, <1>4, <2>1 DEF LeakInv, TracingOff, InHook
  <2>6. FilesKept'
    BY <1>1, <1>2, <2>1, <2>2 DEF LeakInv, FilesKept, Fair
  <2> QED BY <2>3, <2>4, <2>5, <2>6 DEF LeakInv
<1> QED BY <1>3, <1>4 DEF Leak!Free

\* A thread in a call goes on: to the hook, out of it, or back to its program.
LEMMA LeakMove ==
  ASSUME LeakInv, NEW t \in Tracers, NEW x \in {"idle", "work", "leave"}, Leak!Busy(t),
         \/ tracer' = [tracer EXCEPT ![t].at = x]
         \/ x = "idle" /\ tracer' = [tracer EXCEPT ![t] = Leak!Idle]
  PROVE  /\ tracer' \in [Tracers -> Calls]
         /\ tracer'[t].at = x
         /\ x # "idle" => tracer'[t].op = tracer[t].op /\ tracer'[t].p = tracer[t].p
         /\ \A u \in Tracers : u # t => tracer'[u] = tracer[u]
<1>0. LeakTypes /\ tracer[t] \in Calls
  BY DEF LeakInv, LeakTypes
<1>1. CASE tracer' = [tracer EXCEPT ![t].at = x]
  <2> PICK r : r = [at |-> x, op |-> tracer[t].op, p |-> tracer[t].p]
    OBVIOUS
  <2>1. [tracer[t] EXCEPT !.at = x] = r /\ r \in Calls
    BY <1>0, CallRecords
  <2>2. tracer' = [tracer EXCEPT ![t] = [tracer[t] EXCEPT !.at = x]]
    BY <1>1
  <2>3. tracer' = [tracer EXCEPT ![t] = r]
    BY <2>1, <2>2
  <2>4. /\ tracer' \in [Tracers -> Calls] /\ tracer'[t] = r
        /\ \A u \in Tracers : u # t => tracer'[u] = tracer[u]
    BY ONLY <1>0, <2>1, <2>3, CallsChange, t \in Tracers
  <2>5. r.at = x /\ r.op = tracer[t].op /\ r.p = tracer[t].p
    OBVIOUS
  <2> QED BY ONLY <2>4, <2>5
<1>2. CASE x = "idle" /\ tracer' = [tracer EXCEPT ![t] = Leak!Idle]
  <2> PICK r : r = [at |-> "idle", op |-> "malloc", p |-> 0]
    OBVIOUS
  <2>1. r \in Calls /\ r.at = "idle"
    BY DEF Calls
  <2>2. tracer' = [tracer EXCEPT ![t] = r]
    BY <1>2 DEF Leak!Idle
  <2>3. /\ tracer' \in [Tracers -> Calls] /\ tracer'[t] = r
        /\ \A u \in Tracers : u # t => tracer'[u] = tracer[u]
    BY ONLY <1>0, <2>1, <2>2, CallsChange, t \in Tracers
  <2> QED BY <1>2, <2>1, <2>3
<1> QED BY <1>1, <1>2

\* HookUse after such a step, when what others are about to free stays in use.
LEMMA LeakMoveUse ==
  ASSUME LeakInv, NEW t \in Tracers, NEW x \in {"idle", "work", "leave"}, Leak!Busy(t),
         tracer'[t].at = x,
         x # "idle" => tracer'[t].op = tracer[t].op /\ tracer'[t].p = tracer[t].p,
         x = "work" => tracer[t].at = "enter" /\ inUse' = inUse,
         \A u \in Tracers : u # t => tracer'[u] = tracer[u],
         raced' = raced, unlisted' = unlisted, untraced' \subseteq untraced,
         \A q \in inUse \ untraced : q \in inUse' \/ (tracer[t].op = "free" /\ q = tracer[t].p)
  PROVE  HookUse'
<1>1. ASSUME ~raced', NEW u \in Tracers, NEW v \in Tracers,
             tracer'[u].at # "idle", tracer'[v].at # "idle"
      PROVE  u = v
  <2>1. tracer[u].at # "idle" /\ tracer[v].at # "idle"
    BY <1>1 DEF Leak!Busy
  <2> QED BY <1>1, <2>1 DEF LeakInv, HookUse, Leak!Busy
<1>2. ASSUME NEW u \in Tracers, NEW v \in Tracers, tracer'[u].at # "idle",
             tracer'[v].at # "idle", tracer'[u].op = "free", tracer'[v].op = "free",
             tracer'[u].p = tracer'[v].p
      PROVE  u = v
  <2>1. /\ tracer[u].at # "idle" /\ tracer[v].at # "idle"
        /\ tracer[u].op = "free" /\ tracer[v].op = "free" /\ tracer[u].p = tracer[v].p
    BY <1>2 DEF Leak!Busy
  <2> QED BY <2>1 DEF LeakInv, HookUse, Leak!Busy
<1>3. ASSUME ~unlisted', NEW u \in Tracers, tracer'[u].at \in {"enter", "work"},
             tracer'[u].op = "free"
      PROVE  tracer'[u].p \in inUse' \ untraced'
  <2>1. /\ tracer[u].at \in {"enter", "work"} /\ tracer[u].op = "free"
        /\ tracer'[u].p = tracer[u].p
    BY <1>3
  <2>2. tracer[u].p \in inUse \ untraced
    BY <1>3, <2>1 DEF LeakInv, HookUse
  <2>3. CASE u = t
    BY <1>3, <2>1, <2>2, <2>3
  <2>4. CASE u # t
    <3>1. tracer[t].op = "free" => tracer[u].p # tracer[t].p
      BY <2>1, <2>4 DEF LeakInv, HookUse, Leak!Busy
    <3> QED BY <2>1, <2>2, <3>1
  <2> QED BY <2>3, <2>4
<1> QED BY <1>1, <1>2, <1>3 DEF HookUse, Leak!Busy

LEMMA LeakSwitchOff ==
  ASSUME LeakInv, NEW t \in Tracers, Leak!SwitchOff(t)
  PROVE  LeakInv'
<1>0. LeakTypes
  BY DEF LeakInv
<1>1. /\ tracer[t].at = "enter" /\ tracer' = [tracer EXCEPT ![t].at = "work"]
      /\ enable' = IF tracing = "wrapper" THEN [enable EXCEPT ![tracer[t].op] = FALSE] ELSE enable
      /\ hook' = IF tracing = "hook" THEN saved ELSE hook
      /\ UNCHANGED <<tracing, inUse, records, saved, untraced, raced, unlisted, accused, crash>>
  BY DEF Leak!SwitchOff
<1>2. Leak!Busy(t)
  BY <1>1 DEF Leak!Busy
<1>3. /\ tracer' \in [Tracers -> Calls] /\ tracer'[t].at = "work"
      /\ tracer'[t].op = tracer[t].op /\ tracer'[t].p = tracer[t].p
      /\ \A u \in Tracers : u # t => tracer'[u] = tracer[u]
  BY <1>1, <1>2, LeakMove
<1>4. tracer[t].op \in {"malloc", "free"}
  BY <1>0 DEF LeakTypes, Calls
<1>5. LeakTypes'
  <2>1. enable' \in [{"malloc", "free"} -> BOOLEAN]
    BY <1>0, <1>1, <1>4 DEF LeakTypes
  <2>2. hook' \in {"libc", "trace"}
    BY <1>0, <1>1 DEF LeakTypes
  <2> QED BY <1>0, <1>1, <1>3, <2>1, <2>2 DEF LeakTypes
<1>6. HookUse'
  BY <1>1, <1>2, <1>3, LeakMoveUse
<1>7. TracingOff'
  <2>0. ASSUME ~raced PROVE \A u \in Tracers : ~InHook(u) /\ (InHook(u)' <=> u = t)
    <3>1. \A u \in Tracers : u # t => tracer[u].at = "idle"
      BY <1>2, <2>0 DEF LeakInv, HookUse, Leak!Busy
    <3> QED BY <1>1, <1>3, <3>1 DEF InHook
  <2>1. ASSUME tracing = "wrapper", ~raced, NEW which \in {"malloc", "free"}
        PROVE  ~enable'[which] <=> \E u \in Tracers : InHook(u)' /\ tracer'[u].op = which
    <3>1. enable[which]
      BY <2>0, <2>1 DEF LeakInv, TracingOff
    <3>2. enable' = [enable EXCEPT ![tracer[t].op] = FALSE]
      BY <1>1, <2>1
    <3>3. CASE which = tracer[t].op
      <4>1. ~enable'[which]
        BY <1>0, <3>2, <3>3 DEF LeakTypes
      <4>2. InHook(t)' /\ tracer'[t].op = which
        BY <1>3, <2>0, <2>1, <3>3
      <4> QED BY <4>1, <4>2
    <3>4. CASE which # tracer[t].op
      <4>1. enable'[which]
        BY <1>0, <3>1, <3>2, <3>4 DEF LeakTypes
      <4>2. \A u \in Tracers : InHook(u)' => tracer'[u].op # which
        BY <1>3, <2>0, <2>1, <3>4
      <4> QED BY <4>1, <4>2
    <3> QED BY <3>3, <3>4
  <2>2. ASSUME tracing = "hook", ~raced, ~unlisted
        PROVE  saved' = "libc" /\ hook' = "libc" /\ InHook(t)'
    BY <1>1, <2>0, <2>2 DEF LeakInv, TracingOff
  <2> QED BY <1>1, <2>1, <2>2 DEF TracingOff
<1>8. FilesKept'
  BY <1>1 DEF LeakInv, FilesKept, Fair
<1> QED BY <1>5, <1>6, <1>7, <1>8 DEF LeakInv

\* Under a fair detector a thread at work is the only one in a call, and tracing is off.
LEMMA CallAtWork ==
  ASSUME LeakInv, NEW t \in Tracers, tracer[t].at = "work", Fair, tracing = "hook"
  PROVE  hook = "libc" /\ saved = "libc"
BY DEF LeakInv, TracingOff, InHook, Fair

LEMMA LeakTraceMalloc ==
  ASSUME LeakInv, NEW t \in Tracers, Leak!TraceMalloc(t)
  PROVE  LeakInv'
<1>0. LeakTypes
  BY DEF LeakInv
<1>1. /\ tracer[t].at = "work" /\ tracer[t].op = "malloc"
      /\ UNCHANGED <<tracing, enable, hook, saved, untraced, raced, unlisted, accused>>
  BY DEF Leak!TraceMalloc
<1>2. CASE Leak!Nested /\ saved = "trace" /\ crash' = "stack" /\ UNCHANGED <<inUse, records, tracer>>
  <2>1. ~Fair
    BY <1>1, <1>2, CallAtWork DEF Leak!Nested
  <2>2. LeakTypes'
    BY <1>0, <1>1, <1>2 DEF LeakTypes
  <2>3. HookUse' /\ TracingOff'
    BY <1>1, <1>2 DEF LeakInv, HookUse, TracingOff, InHook, Leak!Busy
  <2>4. FilesKept'
    BY <1>1, <1>2, <2>1 DEF FilesKept, Fair
  <2> QED BY <2>2, <2>3, <2>4 DEF LeakInv
<1>3. ASSUME NEW p \in Ptrs \ inUse, inUse' = inUse \union {p}, records' = records \union {p},
             tracer' = [tracer EXCEPT ![t].at = "leave"], UNCHANGED crash
      PROVE  LeakInv'
  <2>1. Leak!Busy(t)
    BY <1>1 DEF Leak!Busy
  <2>2. /\ tracer' \in [Tracers -> Calls] /\ tracer'[t].at = "leave"
        /\ tracer'[t].op = tracer[t].op /\ tracer'[t].p = tracer[t].p
        /\ \A u \in Tracers : u # t => tracer'[u] = tracer[u]
    BY <1>3, <2>1, LeakMove
  <2>3. LeakTypes'
    BY <1>0, <1>1, <1>3, <2>2 DEF LeakTypes
  <2>4. HookUse'
    BY <1>1, <1>3, <2>1, <2>2, LeakMoveUse
  <2>5. TracingOff'
    <3>1. \A u \in Tracers : /\ InHook(u)' <=> InHook(u)
                             /\ tracer'[u].op = tracer[u].op
      BY <1>1, <2>2 DEF InHook
    <3> QED BY <1>1, <3>1 DEF LeakInv, TracingOff
  <2>6. FilesKept'
    <3>1. inUse' \ untraced' = (inUse \ untraced) \union {p}
      BY <1>0, <1>1, <1>3 DEF LeakTypes
    <3> QED BY <1>1, <1>3, <3>1 DEF LeakInv, FilesKept, Fair
  <2> QED BY <2>3, <2>4, <2>5, <2>6 DEF LeakInv
<1> QED BY <1>2, <1>3 DEF Leak!TraceMalloc

LEMMA LeakTraceFree ==
  ASSUME LeakInv, NEW t \in Tracers, Leak!TraceFree(t)
  PROVE  LeakInv'
<1> PICK p : p = tracer[t].p
  OBVIOUS
<1>0. LeakTypes /\ p \in Ptrs \union {0}
  BY DEF LeakInv, LeakTypes, Calls
<1>1. /\ tracer[t].at = "work" /\ tracer[t].op = "free"
      /\ records' = records \ {p}
      /\ UNCHANGED <<tracing, enable, saved, raced, unlisted>>
  BY DEF Leak!TraceFree
<1>2. /\ accused' = (accused \/ (Leak!Nested /\ p \in records) \/ (p \notin records /\ p \in inUse))
      /\ hook' = IF Leak!Nested /\ p \in records THEN saved ELSE hook
  BY DEF Leak!TraceFree
<1>3. Leak!Busy(t)
  BY <1>1 DEF Leak!Busy
<1>4. Fair => ~Leak!Nested
  BY <1>1, CallAtWork DEF Leak!Nested
<1>5. ~unlisted => p \in inUse \ untraced
  BY <1>1 DEF LeakInv, HookUse
<1>6. Fair => /\ hook' = hook /\ (accused' => unlisted)
              /\ ~unlisted => p \in records
  <2>1. Fair => records = inUse \ untraced /\ (accused => unlisted)
    BY DEF LeakInv, FilesKept
  <2> QED BY <1>2, <1>4, <1>5, <2>1
<1>7. hook' \in {"libc", "trace"} /\ accused' \in BOOLEAN
  <2>1. hook' \in {"libc", "trace"}
    BY <1>0, <1>2 DEF LeakTypes
  <2>2. accused' \in BOOLEAN
    BY <1>0, <1>2 DEF LeakTypes
  <2> QED BY <2>1, <2>2
<1>8. CASE (p \in records \/ tracing = "wrapper") /\ ~(Leak!Nested /\ p \in records)
  <2>1. Leak!LibcFree(p) /\ tracer' = [tracer EXCEPT ![t].at = "leave"]
    BY <1>8 DEF Leak!TraceFree
  <2>2. /\ tracer' \in [Tracers -> Calls] /\ tracer'[t].at = "leave"
        /\ tracer'[t].op = tracer[t].op /\ tracer'[t].p = tracer[t].p
        /\ \A u \in Tracers : u # t => tracer'[u] = tracer[u]
    BY <1>3, <2>1, LeakMove
  <2>3. /\ inUse' \subseteq Ptrs /\ untraced' \subseteq inUse'
        /\ crash' \in {"none", "double free", "stack"}
        /\ inUse' \ untraced' = (inUse \ untraced) \ {p}
        /\ crash' # crash => crash' = "double free" /\ p \notin inUse /\ p # 0
    BY <1>0, <2>1, LeakLibcFree
  <2>4. LeakTypes'
    BY <1>0, <1>1, <1>7, <2>2, <2>3 DEF LeakTypes
  <2>5. HookUse'
    <3>1. untraced' \subseteq untraced
      BY <2>1 DEF Leak!LibcFree
    <3>2. \A q \in inUse \ untraced : q \in inUse' \/ q = tracer[t].p
      BY <2>3
    <3> QED BY <1>1, <1>3, <2>2, <3>1, <3>2, LeakMoveUse
  <2>6. TracingOff'
    <3>1. \A u \in Tracers : /\ InHook(u)' <=> InHook(u)
                             /\ tracer'[u].op = tracer[u].op
      BY <1>1, <2>2 DEF InHook
    <3>2. hook' = hook
      BY <1>2, <1>8
    <3> QED BY <1>1, <3>1, <3>2 DEF LeakInv, TracingOff
  <2>7. FilesKept'
    <3>1. crash' = "double free" => unlisted
      BY <1>5, <2>3 DEF LeakInv, FilesKept
    <3>2. Fair' <=> Fair
      BY <1>1 DEF Fair
    <3> QED BY <1>1, <1>6, <2>3, <3>1, <3>2 DEF LeakInv, FilesKept
  <2> QED BY <2>4, <2>5, <2>6, <2>7 DEF LeakInv
<1>9. CASE (p \in records \/ tracing = "wrapper") /\ Leak!Nested /\ p \in records
  <2>1. tracer' = [tracer EXCEPT ![t].at = "leave"] /\ UNCHANGED <<inUse, untraced, crash>>
    BY <1>9 DEF Leak!TraceFree
  <2>2. /\ tracer' \in [Tracers -> Calls] /\ tracer'[t].at = "leave"
        /\ tracer'[t].op = tracer[t].op /\ tracer'[t].p = tracer[t].p
        /\ \A u \in Tracers : u # t => tracer'[u] = tracer[u]
    BY <1>3, <2>1, LeakMove
  <2>3. LeakTypes'
    BY <1>0, <1>1, <1>7, <2>1, <2>2 DEF LeakTypes
  <2>4. HookUse'
    BY <1>1, <1>3, <2>1, <2>2, LeakMoveUse
  <2>5. ~Fair /\ tracing = "hook" /\ (Fair' <=> Fair)
    BY <1>1, <1>4, <1>9 DEF Fair, Leak!Nested
  <2>6. TracingOff'
    BY <1>1, <2>5 DEF TracingOff, Fair
  <2>7. FilesKept'
    BY <1>1, <2>1, <2>5 DEF LeakInv, FilesKept
  <2> QED BY <2>3, <2>4, <2>6, <2>7 DEF LeakInv
<1>10. CASE p \notin records /\ tracing # "wrapper"
  <2>1. tracer' = [tracer EXCEPT ![t] = Leak!Idle] /\ UNCHANGED <<inUse, untraced, crash>>
    BY <1>10 DEF Leak!TraceFree
  <2>2. /\ tracer' \in [Tracers -> Calls] /\ tracer'[t].at = "idle"
        /\ \A u \in Tracers : u # t => tracer'[u] = tracer[u]
    BY <1>3, <2>1, LeakMove
  <2>3. LeakTypes'
    BY <1>0, <1>1, <1>7, <2>1, <2>2 DEF LeakTypes
  <2>4. HookUse'
    BY <1>1, <1>3, <2>1, <2>2, LeakMoveUse
  <2>5. TracingOff'
    <3>1. tracing = "hook" => raced \/ unlisted
      BY <1>6, <1>10 DEF Fair
    <3> QED BY <1>1, <1>10, <3>1 DEF TracingOff
  <2>6. FilesKept'
    BY <1>1, <1>6, <1>10, <2>1 DEF LeakInv, FilesKept, Fair
  <2> QED BY <2>3, <2>4, <2>5, <2>6 DEF LeakInv
<1> QED BY <1>8, <1>9, <1>10

LEMMA LeakSwitchOn ==
  ASSUME LeakInv, NEW t \in Tracers, Leak!SwitchOn(t)
  PROVE  LeakInv'
<1>0. LeakTypes
  BY DEF LeakInv
<1>1. /\ tracer[t].at = "leave" /\ tracer' = [tracer EXCEPT ![t] = Leak!Idle]
      /\ enable' = IF tracing = "wrapper" THEN [enable EXCEPT ![tracer[t].op] = TRUE] ELSE enable
      /\ saved' = IF tracing = "hook" THEN hook ELSE saved
      /\ hook' = "trace"
      /\ UNCHANGED <<tracing, inUse, records, untraced, raced, unlisted, accused, crash>>
  BY DEF Leak!SwitchOn
<1>2. Leak!Busy(t)
  BY <1>1 DEF Leak!Busy
<1>3. /\ tracer' \in [Tracers -> Calls] /\ tracer'[t].at = "idle"
      /\ \A u \in Tracers : u # t => tracer'[u] = tracer[u]
  BY <1>1, <1>2, LeakMove
<1>4. tracer[t].op \in {"malloc", "free"}
  BY <1>0 DEF LeakTypes, Calls
<1>5. LeakTypes'
  <2>1. enable' \in [{"malloc", "free"} -> BOOLEAN]
    BY <1>0, <1>1, <1>4 DEF LeakTypes
  <2>2. hook' \in {"libc", "trace"} /\ saved' \in {"libc", "trace"}
    BY <1>0, <1>1 DEF LeakTypes
  <2> QED BY <1>0, <1>1, <1>3, <2>1, <2>2 DEF LeakTypes
<1>6. HookUse'
  BY <1>1, <1>2, <1>3, LeakMoveUse
<1>7. TracingOff'
  <2>0. ASSUME ~raced PROVE \A u \in Tracers : ~InHook(u)' /\ (InHook(u) <=> u = t)
    <3>1. \A u \in Tracers : u # t => tracer[u].at = "idle"
      BY <1>2, <2>0 DEF LeakInv, HookUse, Leak!Busy
    <3> QED BY <1>1, <1>3, <3>1 DEF InHook
  <2>1. ASSUME tracing = "wrapper", ~raced, NEW which \in {"malloc", "free"}
        PROVE  enable'[which]
    <3>1. enable' = [enable EXCEPT ![tracer[t].op] = TRUE]
      BY <1>1, <2>1
    <3>2. CASE which = tracer[t].op
      BY <1>0, <3>1, <3>2 DEF LeakTypes
    <3>3. CASE which # tracer[t].op
      <4>1. enable[which]
        BY <2>0, <2>1, <3>3 DEF LeakInv, TracingOff
      <4> QED BY <1>0, <3>1, <3>3, <4>1 DEF LeakTypes
    <3> QED BY <3>2, <3>3
  <2>2. ASSUME tracing = "hook", ~raced, ~unlisted
        PROVE  saved' = "libc" /\ hook' # "libc"
    BY <1>1, <2>0, <2>2 DEF LeakInv, TracingOff
  <2> QED BY <1>1, <2>0, <2>1, <2>2 DEF TracingOff
<1>8. FilesKept'
  BY <1>1 DEF LeakInv, FilesKept, Fair
<1> QED BY <1>5, <1>6, <1>7, <1>8 DEF LeakInv

LEMMA LeakStep == LeakInv /\ Leak!Next => LeakInv'
BY LeakMalloc, LeakCalloc, LeakFree, LeakSwitchOff, LeakTraceMalloc, LeakTraceFree, LeakSwitchOn
   DEF Leak!Next

LEMMA LeakSafe == LeakInv => Leak!TypeOK /\ Leak!FilesAreLeaks
<1> SUFFICES ASSUME LeakInv PROVE Leak!TypeOK /\ Leak!FilesAreLeaks
  OBVIOUS
<1>1. \A t \in Tracers : /\ tracer[t].at \in {"idle", "enter", "work", "leave"}
                         /\ tracer[t].op \in {"malloc", "free"}
                         /\ tracer[t].p \in Ptrs \union {0}
  BY DEF LeakInv, LeakTypes, Calls
<1>2. Leak!TypeOK
  BY <1>1 DEF LeakInv, LeakTypes, Leak!TypeOK
<1>3. Leak!FilesAreLeaks
  BY DEF LeakInv, FilesKept, Fair, Leak!FilesAreLeaks
<1> QED BY <1>2, <1>3

-----------------------------------------------------------------------------
(* The memory pool.                                                           *)

CONSTANTS PoolSize, Sizes, MaxFailed, MaxProbe, MaxNodes, MaxLarge

\* A small block fits into an empty node (mp_create_pool: max is at most the size), and so
\* does the entry of a large one.
ASSUME PoolAssumption ==
  /\ PoolSize \in Nat /\ PoolSize >= 2 /\ Sizes \subseteq 0..PoolSize
  /\ MaxFailed \in Nat /\ MaxProbe \in Nat /\ MaxNodes \in Nat /\ MaxLarge \in Nat

VARIABLES nodes, current, large, blockHeap, blocks

memoryVars == <<nodes, current, large, blockHeap, blocks>>

Memory == INSTANCE MemoryPool WITH heap <- blockHeap

LEMMA LeastNat ==
  ASSUME NEW S, S \subseteq Nat, S # {}
  PROVE  \E k \in S : \A m \in S : k <= m
<1>1. PICK k \in S : \A m \in S : <<m, k>> \notin OpToRel(<, Nat)
  BY NatLessThanWellFounded, WFMin
<1>2. ASSUME NEW m \in S PROVE k <= m
  <2>1. k \in Nat /\ m \in Nat
    OBVIOUS
  <2>2. m < k => <<m, k>> \in OpToRel(<, Nat)
    BY <2>1 DEF OpToRel
  <2>3. ~(m < k)
    BY <1>1, <2>2
  <2> QED BY <2>1, <2>3
<1> QED BY <1>2

\* A set of numbers with an upper bound has a greatest one.
LEMMA GreatestNat ==
  ASSUME NEW S, NEW n \in Nat, S \subseteq 0..n, S # {}
  PROVE  \E x \in S : \A y \in S : y <= x
<1> DEFINE D == {n - x : x \in S}
<1>1. \A x \in S : x \in Int /\ n - x \in Nat
  OBVIOUS
<1>2. D \subseteq Nat /\ D # {}
  BY <1>1
<1>3. PICK d \in D : \A e \in D : d <= e
  BY <1>2, LeastNat
<1>4. PICK x \in S : d = n - x
  OBVIOUS
<1>5. \A y \in S : n - x <= n - y
  BY <1>3, <1>4
<1>6. \A y \in S : y <= x
  BY <1>1, <1>5
<1> QED BY <1>6

PoolNodes == [last : Nat, end : Nat, failed : Nat]

PoolTypes ==
  /\ nodes \in Seq(PoolNodes) /\ current \in 1..Len(nodes)
  /\ large \in Seq(0..MaxLarge) /\ blockHeap \subseteq 1..MaxLarge

\* The room of node i ends where its memory does, and what is in use begins after its header.
NodeRoom(i, x) == /\ x.end = PoolSize + (IF i = 1 THEN 7 ELSE 4)
                  /\ x.last >= (IF i = 1 THEN 7 ELSE 4)
NodesRoom == \A i \in 1..Len(nodes) : NodeRoom(i, nodes[i])

\* The blocks of a node are in what is in use of it; those that are cut beyond its end
\* begin beyond it.
InNode(b, i, x) == /\ b.from \in Nat /\ b.to \in Nat /\ b.from <= b.to /\ b.to <= x.last
                   /\ b.from >= (IF i = 1 THEN 7 ELSE 4)
                   /\ b.to <= x.end \/ b.from > x.end
BlocksIn ==
  /\ \A b \in blocks : b.node \in 1..Len(nodes) /\ InNode(b, b.node, nodes[b.node])
  /\ \A a, b \in blocks : a.node = b.node /\ a # b => a.to <= b.from \/ b.to <= a.from

PoolInv == PoolTypes /\ NodesRoom /\ BlocksIn /\ Memory!LargeBlocksListed

LEMMA StartOf == \A i \in Nat : Memory!Start(i) = IF i = 1 THEN 7 ELSE 4
BY DEF Memory!Start, Memory!PoolHeader, Memory!NodeHeader

LEMMA MemoryInitInv == Memory!Init => PoolInv
<1> SUFFICES ASSUME Memory!Init PROVE PoolInv
  OBVIOUS
<1> PICK x : x = [last |-> 7, end |-> 7 + PoolSize, failed |-> 0]
  OBVIOUS
<1>1. /\ nodes = <<x>> /\ current = 1 /\ large = <<>> /\ blockHeap = {} /\ blocks = {}
  BY StartOf DEF Memory!Init
<1>2. x \in PoolNodes /\ x.last = 7 /\ x.end = PoolSize + 7
  BY PoolAssumption DEF PoolNodes
<1>3. nodes \in Seq(PoolNodes) /\ Len(nodes) = 1 /\ nodes[1] = x
  BY <1>1, <1>2
<1>4. PoolTypes
  BY <1>1, <1>3 DEF PoolTypes
<1>5. NodesRoom
  BY <1>2, <1>3 DEF NodesRoom, NodeRoom
<1>6. BlocksIn
  BY <1>1 DEF BlocksIn
<1>7. Memory!LargeBlocksListed
  <2>1. DOMAIN large = {} /\ Memory!ToSet(large) = {}
    BY <1>1 DEF Memory!ToSet
  <2> QED BY <1>1, <2>1 DEF Memory!LargeBlocksListed
<1> QED BY <1>4, <1>5, <1>6, <1>7 DEF PoolInv

LEMMA MemoryFrame == PoolInv /\ UNCHANGED memoryVars => PoolInv'
BY DEF PoolInv, memoryVars, PoolTypes, NodesRoom, NodeRoom, BlocksIn, InNode,
       Memory!LargeBlocksListed, Memory!ToSet

\* mp_align rounds up.
LEMMA Aligned == \A n \in Nat : Memory!Align(n) \in Nat /\ n <= Memory!Align(n)
<1> TAKE n \in Nat
<1> PICK q : q = (n + 3) \div 4
  OBVIOUS
<1>1. q \in Nat /\ 4 * q <= n + 3 /\ n + 3 < 4 * q + 4
  OBVIOUS
<1>2. Memory!Align(n) = q * 4
  BY DEF Memory!Align, Memory!Alignment
<1> QED BY <1>1, <1>2

LEMMA InNodeKept ==
  ASSUME NEW a, NEW j, NEW x \in PoolNodes, NEW y \in PoolNodes, InNode(a, j, x),
         x.last <= y.last, x.end = y.end
  PROVE  InNode(a, j, y)
<1>1. x.last \in Nat /\ y.last \in Nat
  BY DEF PoolNodes
<1> QED BY <1>1 DEF InNode

\* A new block in a node, after those that are there.
LEMMA BlockAdded ==
  ASSUME PoolInv, NEW ns \in Seq(PoolNodes), NEW i \in 1..Len(ns), NEW b,
         Len(nodes) <= Len(ns),
         \A j \in 1..Len(ns) : NodeRoom(j, ns[j]),
         \A j \in 1..Len(nodes) : ns[j].end = nodes[j].end /\ nodes[j].last <= ns[j].last,
         b.node = i, b.from \in Nat, InNode(b, i, ns[i]),
         i \in 1..Len(nodes) => nodes[i].last <= b.from,
         nodes' = ns, blocks' = blocks \union {b}
  PROVE  NodesRoom' /\ BlocksIn'
<1>1. NodesRoom'
  BY DEF NodesRoom
<1>2. \A j \in 1..Len(nodes) : nodes[j] \in PoolNodes /\ j \in 1..Len(ns) /\ ns[j] \in PoolNodes
  BY DEF PoolInv, PoolTypes
<1>3. ASSUME NEW a \in blocks
      PROVE  /\ a.node \in 1..Len(ns) /\ InNode(a, a.node, ns[a.node])
             /\ a.node = i => a.to <= b.from
  <2>1. a.node \in 1..Len(nodes) /\ InNode(a, a.node, nodes[a.node])
    BY DEF PoolInv, BlocksIn
  <2>2. /\ nodes[a.node].last \in Nat /\ ns[a.node].last \in Nat /\ ns[a.node].end \in Nat
        /\ nodes[a.node].last <= ns[a.node].last /\ ns[a.node].end = nodes[a.node].end
    BY <1>2, <2>1 DEF PoolNodes
  <2>3. InNode(a, a.node, ns[a.node]) /\ a.node \in 1..Len(ns)
    BY <1>2, <2>1, <2>2, InNodeKept
  <2>4. a.to <= nodes[a.node].last /\ a.to \in Nat
    BY <2>1 DEF InNode
  <2> QED BY <2>1, <2>2, <2>3, <2>4
<1>4. \A a \in blocks' : a.node \in 1..Len(nodes') /\ InNode(a, a.node, nodes'[a.node])
  BY <1>3
<1>5. ASSUME NEW x \in blocks', NEW y \in blocks', x.node = y.node, x # y
      PROVE  x.to <= y.from \/ y.to <= x.from
  <2>1. CASE x \in blocks /\ y \in blocks
    BY <1>5, <2>1 DEF PoolInv, BlocksIn
  <2>2. CASE x = b /\ y \in blocks
    BY <1>3, <1>5, <2>2
  <2>3. CASE y = b /\ x \in blocks
    BY <1>3, <1>5, <2>3
  <2> QED BY <1>5, <2>1, <2>2, <2>3
<1> QED BY <1>1, <1>4, <1>5 DEF BlocksIn

\* What mp_alloc and mp_nalloc do to the nodes and blocks, and to current.
SmallKept == /\ nodes' \in Seq(PoolNodes) /\ current' \in 1..Len(nodes')
             /\ NodesRoom' /\ BlocksIn'

LEMMA CutKept ==
  ASSUME PoolInv, NEW size \in 0..PoolSize, NEW aligned \in BOOLEAN, NEW i \in 1..Len(nodes),
         Memory!Fits(i, size, aligned), Memory!Set(Memory!CutFrom(i, size, aligned))
  PROVE  SmallKept
<1> DEFINE from == Memory!From(i, aligned)
           x == [nodes[i] EXCEPT !.last = from + size]
           b == [node |-> i, from |-> from, to |-> from + size]
<1>1. /\ nodes \in Seq(PoolNodes) /\ nodes[i] \in PoolNodes
      /\ nodes[i].last \in Nat /\ nodes[i].end \in Nat /\ current \in 1..Len(nodes)
      /\ Len(nodes) \in Nat
  <2>1. nodes \in Seq(PoolNodes) /\ nodes[i] \in PoolNodes
    BY DEF PoolInv, PoolTypes
  <2>2. \A y \in PoolNodes : y.last \in Nat /\ y.end \in Nat
    BY DEF PoolNodes
  <2> QED BY <2>1, <2>2 DEF PoolInv, PoolTypes
<1>2. from \in Nat /\ nodes[i].last <= from
  <2>1. /\ Memory!Align(nodes[i].last) \in Nat
        /\ nodes[i].last <= Memory!Align(nodes[i].last)
    BY <1>1, Aligned
  <2>2. from = nodes[i].last \/ from = Memory!Align(nodes[i].last)
    BY DEF Memory!From
  <2> QED BY <1>1, <2>1, <2>2
<1>3. size \in Nat
  BY PoolAssumption
<1>4. from + size <= nodes[i].end \/ from > nodes[i].end
  <2>1. (nodes[i].end - from) % 1048576 >= size
    BY DEF Memory!Fits, Memory!SizeT
  <2>2. \A d \in Nat : d % 1048576 <= d
    OBVIOUS
  <2> HIDE DEF from
  <2>3. CASE from <= nodes[i].end
    <3>1. nodes[i].end - from \in Nat
      BY <1>1, <1>2, <2>3
    <3>2. (nodes[i].end - from) % 1048576 \in Nat
      BY <3>1
    <3> QED BY <1>1, <1>2, <1>3, <2>1, <2>2, <3>1, <3>2
  <2> QED BY <1>1, <1>2, <2>3
<1>5. /\ nodes' = [nodes EXCEPT ![i] = x] /\ current' = current
      /\ blocks' = blocks \union {b}
  BY DEF Memory!Set, Memory!CutFrom
<1> DEFINE ns == [nodes EXCEPT ![i] = x]
<1>6. x \in PoolNodes /\ x.last = from + size /\ x.end = nodes[i].end
  <2>1. \A y \in PoolNodes, m \in Nat : LET z == [y EXCEPT !.last = m]
                                      IN z \in PoolNodes /\ z.last = m /\ z.end = y.end
    BY DEF PoolNodes
  <2>2. from + size \in Nat
    BY <1>2, <1>3
  <2> HIDE DEF from
  <2> QED BY <1>1, <2>1, <2>2
<1>7. /\ b.node = i /\ b.from = from /\ b.to = from + size
  OBVIOUS
<1> HIDE DEF from, x, b
<1>8. /\ ns \in Seq(PoolNodes) /\ Len(ns) = Len(nodes) /\ ns[i] = x
      /\ \A j \in 1..Len(nodes) : j # i => ns[j] = nodes[j]
  BY <1>1, <1>6
<1>9. /\ NodeRoom(i, nodes[i]) /\ nodes[i].last >= (IF i = 1 THEN 7 ELSE 4)
  BY DEF PoolInv, NodesRoom, NodeRoom
<1>10. InNode(b, i, x)
  BY <1>1, <1>2, <1>3, <1>4, <1>6, <1>7, <1>9 DEF InNode
<1>11. NodeRoom(i, x)
  BY <1>1, <1>2, <1>3, <1>6, <1>9 DEF NodeRoom
<1> HIDE DEF ns
<1>12. \A j \in 1..Len(ns) : NodeRoom(j, ns[j])
  BY <1>8, <1>11 DEF PoolInv, NodesRoom
<1>13. \A j \in 1..Len(nodes) : ns[j].end = nodes[j].end /\ nodes[j].last <= ns[j].last
  <2> TAKE j \in 1..Len(nodes)
  <2>1. CASE j = i
    BY <1>1, <1>2, <1>3, <1>6, <1>8, <2>1
  <2>2. CASE j # i
    <3>1. nodes[j] \in PoolNodes
      BY <1>1
    <3>2. nodes[j].last \in Nat
      BY <3>1 DEF PoolNodes
    <3> QED BY <1>8, <2>2, <3>2
  <2> QED BY <2>1, <2>2
<1>14. nodes' = ns /\ blocks' = blocks \union {b}
  BY <1>5 DEF ns
<1>15. NodesRoom' /\ BlocksIn'
  <2>1. Len(nodes) <= Len(ns) /\ i \in 1..Len(ns)
    BY <1>1, <1>8
  <2>2. b.node = i /\ b.from \in Nat /\ nodes[i].last <= b.from
    BY <1>2, <1>7
  <2>3. InNode(b, i, ns[i])
    BY <1>8, <1>10
  <2> QED BY <1>8, <1>12, <1>13, <1>14, <2>1, <2>2, <2>3, BlockAdded
<1> QED BY <1>1, <1>5, <1>8, <1>14, <1>15 DEF SmallKept

LEMMA BlockKept ==
  ASSUME PoolInv, NEW size \in 0..PoolSize, Memory!Set(Memory!AllocBlock(size))
  PROVE  SmallKept
<1> DEFINE n == Len(nodes)
           failed == {i \in current..(n - 1) : nodes[i].failed > MaxFailed}
           counted == [i \in 1..n |-> IF i \in current..(n - 1)
                                      THEN [nodes[i] EXCEPT !.failed = @ + 1] ELSE nodes[i]]
           x == [last |-> Memory!Align(Memory!NodeHeader) + size,
                 end |-> nodes[1].end - Memory!PoolHeader, failed |-> 0]
           b == [node |-> n + 1, from |-> Memory!Align(Memory!NodeHeader),
                 to |-> Memory!Align(Memory!NodeHeader) + size]
           ns == Append(counted, x)
<1>1. /\ nodes \in Seq(PoolNodes) /\ n \in Nat /\ current \in 1..n /\ PoolSize \in Nat
      /\ size \in Nat /\ size <= PoolSize
  BY PoolAssumption DEF PoolInv, PoolTypes
<1>2. /\ nodes' = ns /\ blocks' = blocks \union {b}
      /\ current' = IF failed = {} THEN current
                    ELSE 1 + CHOOSE i \in failed : \A j \in failed : j <= i
  BY DEF Memory!Set, Memory!AllocBlock
<1>3. Memory!Align(Memory!NodeHeader) = 4
  BY DEF Memory!Align, Memory!Alignment, Memory!NodeHeader
<1>4. nodes[1].end = PoolSize + 7
  BY <1>1 DEF PoolInv, NodesRoom, NodeRoom
<1>5. /\ x \in PoolNodes /\ x.last = 4 + size /\ x.end = PoolSize + 4
  BY <1>1, <1>3, <1>4 DEF PoolNodes, Memory!PoolHeader
<1>6. b.node = n + 1 /\ b.from = 4 /\ b.to = 4 + size
  BY <1>3
<1>7. ASSUME NEW i \in 1..n
      PROVE  /\ nodes[i] \in PoolNodes /\ counted[i] \in PoolNodes
             /\ counted[i].last = nodes[i].last /\ counted[i].end = nodes[i].end
  <2>1. nodes[i] \in PoolNodes
    BY <1>1
  <2>2. counted[i] = nodes[i] \/ counted[i] = [nodes[i] EXCEPT !.failed = @ + 1]
    OBVIOUS
  <2>3. \A y \in PoolNodes : LET z == [y EXCEPT !.failed = @ + 1]
                             IN z \in PoolNodes /\ z.last = y.last /\ z.end = y.end
    BY DEF PoolNodes
  <2> HIDE DEF counted
  <2> QED BY <2>1, <2>2, <2>3
<1>8. counted \in Seq(PoolNodes) /\ Len(counted) = n
  <2>1. DOMAIN counted = 1..n /\ counted \in [1..n -> PoolNodes]
    <3>1. \A i \in 1..n : counted[i] \in PoolNodes
      BY <1>7
    <3>2. counted = [i \in 1..n |-> counted[i]]
      OBVIOUS
    <3> HIDE DEF counted
    <3> QED BY <3>1, <3>2
  <2> HIDE DEF counted
  <2> QED BY <1>1, <2>1
<1> HIDE DEF counted, x, b
<1>9. /\ ns \in Seq(PoolNodes) /\ Len(ns) = n + 1 /\ ns[n + 1] = x
      /\ \A i \in 1..n : ns[i] = counted[i]
  BY <1>1, <1>5, <1>8
<1> HIDE DEF ns
<1>10. current' \in 1..Len(nodes')
  <2>1. CASE failed = {}
    BY <1>1, <1>2, <1>9, <2>1
  <2>2. CASE failed # {}
    <3>1. failed \subseteq 0..n /\ failed \subseteq 1..n
      BY <1>1
    <3> HIDE DEF failed
    <3>2. \E i \in failed : \A j \in failed : j <= i
      BY <1>1, <2>2, <3>1, GreatestNat
    <3> PICK top : top = CHOOSE i \in failed : \A j \in failed : j <= i
      OBVIOUS
    <3>3. top \in failed
      BY <3>2
    <3>4. current' = 1 + top
      BY <1>2, <2>2
    <3>5. Len(nodes') = n + 1
      BY <1>2, <1>9
    <3>6. top \in 1..n
      BY <3>1, <3>3
    <3> QED BY <1>1, <3>4, <3>5, <3>6
  <2> QED BY <2>1, <2>2
<1>11. \A j \in 1..Len(ns) : NodeRoom(j, ns[j])
  <2> TAKE j \in 1..Len(ns)
  <2>1. CASE j \in 1..n
    <3>1. NodeRoom(j, nodes[j])
      BY <2>1 DEF PoolInv, NodesRoom
    <3>2. ns[j].last = nodes[j].last /\ ns[j].end = nodes[j].end
      BY <1>7, <1>9, <2>1
    <3> QED BY <3>1, <3>2 DEF NodeRoom
  <2>2. CASE j = n + 1
    <3>1. j # 1
      BY <1>1, <2>2
    <3> QED BY <1>1, <1>5, <1>9, <2>2, <3>1 DEF NodeRoom
  <2> QED BY <1>1, <1>9, <2>1, <2>2
<1>12. \A j \in 1..Len(nodes) : ns[j].end = nodes[j].end /\ nodes[j].last <= ns[j].last
  <2> TAKE j \in 1..Len(nodes)
  <2>1. nodes[j].last \in Nat /\ ns[j].last = nodes[j].last /\ ns[j].end = nodes[j].end
    BY <1>7, <1>9 DEF PoolNodes
  <2> QED BY <2>1
<1>13. InNode(b, n + 1, ns[n + 1])
  <2>1. n + 1 # 1
    BY <1>1
  <2> QED BY <1>1, <1>5, <1>6, <1>9, <2>1 DEF InNode
<1>14. NodesRoom' /\ BlocksIn'
  <2>1. Len(nodes) <= Len(ns) /\ n + 1 \in 1..Len(ns) /\ n + 1 \notin 1..Len(nodes)
    BY <1>1, <1>9
  <2>2. b.node = n + 1 /\ b.from \in Nat
    BY <1>6
  <2> QED BY <1>2, <1>9, <1>11, <1>12, <1>13, <2>1, <2>2, BlockAdded
<1> QED BY <1>2, <1>9, <1>10, <1>14 DEF SmallKept

LEMMA AllocatedKept ==
  ASSUME PoolInv, NEW size \in 0..PoolSize, NEW aligned \in BOOLEAN,
         \E new \in Memory!Allocated(size, aligned) : Memory!Set(new)
  PROVE  SmallKept
<1>1. PICK new \in Memory!Allocated(size, aligned) : Memory!Set(new)
  OBVIOUS
<1>2. CASE \E i \in Memory!FirstFit(size, aligned) : new = Memory!CutFrom(i, size, aligned)
  <2>1. PICK i \in Memory!FirstFit(size, aligned) : new = Memory!CutFrom(i, size, aligned)
    BY <1>2
  <2>2. i \in 1..Len(nodes) /\ Memory!Fits(i, size, aligned)
    BY DEF Memory!FirstFit, PoolInv, PoolTypes
  <2> QED BY <1>1, <2>1, <2>2, CutKept
<1>3. CASE new = Memory!AllocBlock(size)
  BY <1>1, <1>3, BlockKept
<1> QED BY <1>2, <1>3 DEF Memory!Allocated

-----------------------------------------------------------------------------
\* The list of large blocks.
LargeKept == /\ large' \in Seq(0..MaxLarge) /\ blockHeap' \subseteq 1..MaxLarge
             /\ Memory!LargeBlocksListed'

LEMMA KeptInv ==
  ASSUME SmallKept, LargeKept PROVE PoolInv'
BY DEF SmallKept, LargeKept, PoolInv, PoolTypes

LEMMA SmallSame ==
  ASSUME PoolInv, UNCHANGED <<nodes, current, blocks>> PROVE SmallKept
BY DEF SmallKept, PoolInv, PoolTypes, NodesRoom, NodeRoom, BlocksIn, InNode

LEMMA LargeSame ==
  ASSUME PoolInv, UNCHANGED <<large, blockHeap>> PROVE LargeKept
BY DEF LargeKept, PoolInv, PoolTypes, Memory!LargeBlocksListed, Memory!ToSet

LEMMA NewIdFree ==
  ASSUME PoolInv, blockHeap # 1..MaxLarge
  PROVE  Memory!NewId \in 1..MaxLarge /\ Memory!NewId \notin blockHeap
<1>1. \E id \in 1..MaxLarge : id \notin blockHeap
  BY DEF PoolInv, PoolTypes
<1> QED BY <1>1 DEF Memory!NewId

\* A block is put into a free entry, or taken out of its own.
LEMMA EntryPut ==
  ASSUME PoolInv, NEW k \in 1..Len(large), large[k] = 0,
         NEW id \in 1..MaxLarge, id \notin blockHeap,
         large' = [large EXCEPT ![k] = id], blockHeap' = blockHeap \union {id}
  PROVE  LargeKept
<1>1. /\ large \in Seq(0..MaxLarge) /\ blockHeap \subseteq 1..MaxLarge
      /\ blockHeap = {large[i] : i \in DOMAIN large} \ {0} /\ DOMAIN large = 1..Len(large)
      /\ MaxLarge \in Nat
  BY PoolAssumption DEF PoolInv, PoolTypes, Memory!LargeBlocksListed, Memory!ToSet, Memory!NULL
<1>2. /\ large' \in Seq(0..MaxLarge) /\ DOMAIN large' = DOMAIN large
      /\ large'[k] = id /\ \A i \in DOMAIN large : i # k => large'[i] = large[i]
  BY <1>1
<1>3. blockHeap' = {large'[i] : i \in DOMAIN large'} \ {0}
  <2>1. \A i \in DOMAIN large : large[i] # 0 => i # k
    OBVIOUS
  <2>2. id # 0
    BY <1>1
  <2>3. ASSUME NEW y \in blockHeap' PROVE y # 0 /\ \E i \in DOMAIN large' : large'[i] = y
    <3>1. CASE y = id
      BY <1>1, <1>2, <2>2, <3>1
    <3>2. CASE y \in blockHeap
      <4>1. PICK i \in DOMAIN large : large[i] = y /\ y # 0
        BY <1>1, <3>2
      <4> QED BY <1>2, <2>1, <4>1
    <3> QED BY <3>1, <3>2
  <2>4. ASSUME NEW i \in DOMAIN large', large'[i] # 0 PROVE large'[i] \in blockHeap'
    <3>1. CASE i = k
      BY <1>2, <3>1
    <3>2. CASE i # k
      <4>1. large'[i] = large[i] /\ i \in DOMAIN large
        BY <1>2, <3>2
      <4>2. large[i] \in blockHeap
        BY <1>1, <2>4, <4>1
      <4> QED BY <4>1, <4>2
    <3> QED BY <3>1, <3>2
  <2> QED BY <2>3, <2>4
<1>4. \A i, j \in DOMAIN large' : i # j /\ large'[i] = large'[j] => large'[i] = 0
  <2>1. \A i \in DOMAIN large : large[i] # id
    BY <1>1
  <2>2. \A i, j \in DOMAIN large : i # j /\ large[i] = large[j] => large[i] = 0
    BY DEF PoolInv, Memory!LargeBlocksListed, Memory!NULL
  <2> QED BY <1>1, <1>2, <2>1, <2>2
<1> QED BY <1>1, <1>2, <1>3, <1>4 DEF LargeKept, Memory!LargeBlocksListed, Memory!ToSet, Memory!NULL

LEMMA EntryTaken ==
  ASSUME PoolInv, NEW k \in 1..Len(large), NEW id \in blockHeap, large[k] = id,
         large' = [large EXCEPT ![k] = 0], blockHeap' = blockHeap \ {id}
  PROVE  LargeKept
<1>1. /\ large \in Seq(0..MaxLarge) /\ blockHeap \subseteq 1..MaxLarge
      /\ blockHeap = {large[i] : i \in DOMAIN large} \ {0} /\ DOMAIN large = 1..Len(large)
      /\ MaxLarge \in Nat
  BY PoolAssumption DEF PoolInv, PoolTypes, Memory!LargeBlocksListed, Memory!ToSet, Memory!NULL
<1>2. /\ large' \in Seq(0..MaxLarge) /\ DOMAIN large' = DOMAIN large
      /\ large'[k] = 0 /\ \A i \in DOMAIN large : i # k => large'[i] = large[i]
  BY <1>1
<1>3. \A i, j \in DOMAIN large : i # j /\ large[i] = large[j] => large[i] = 0
  BY DEF PoolInv, Memory!LargeBlocksListed, Memory!NULL
<1>4. blockHeap' = {large'[i] : i \in DOMAIN large'} \ {0}
  <2>1. ASSUME NEW y \in blockHeap' PROVE y # 0 /\ \E i \in DOMAIN large' : large'[i] = y
    <3>1. PICK i \in DOMAIN large : large[i] = y /\ y # 0 /\ y # id
      BY <1>1
    <3> QED BY <1>2, <3>1
  <2>2. ASSUME NEW i \in DOMAIN large', large'[i] # 0 PROVE large'[i] \in blockHeap'
    <3>1. i # k /\ i \in DOMAIN large /\ large'[i] = large[i] /\ k \in DOMAIN large
      BY <1>1, <1>2, <2>2
    <3>2. large[i] # id
      BY <1>3, <2>2, <3>1
    <3> QED BY <1>1, <2>2, <3>1, <3>2
  <2> QED BY <2>1, <2>2
<1>5. \A i, j \in DOMAIN large' : i # j /\ large'[i] = large'[j] => large'[i] = 0
  BY <1>1, <1>2, <1>3
<1> QED BY <1>1, <1>2, <1>4, <1>5 DEF LargeKept, Memory!LargeBlocksListed, Memory!ToSet, Memory!NULL

LEMMA ListedKept ==
  ASSUME PoolInv, NEW id \in 1..MaxLarge, id \notin blockHeap, Memory!Listed(id)
  PROVE  PoolInv'
<1>1. CASE UNCHANGED memoryVars
  BY <1>1, MemoryFrame
<1>2. CASE /\ \E new \in Memory!Allocated(Memory!LargeHeader, TRUE) : Memory!Set(new)
           /\ large' = <<id>> \o large /\ blockHeap' = blockHeap \union {id}
  <2>1. Memory!LargeHeader \in 0..PoolSize
    BY PoolAssumption DEF Memory!LargeHeader
  <2>2. SmallKept
    BY <1>2, <2>1, AllocatedKept
  <2>3. /\ large \in Seq(0..MaxLarge) /\ blockHeap \subseteq 1..MaxLarge
        /\ blockHeap = {large[i] : i \in DOMAIN large} \ {0} /\ DOMAIN large = 1..Len(large)
        /\ MaxLarge \in Nat /\ Len(large) \in Nat
    BY PoolAssumption DEF PoolInv, PoolTypes, Memory!LargeBlocksListed, Memory!ToSet,
                          Memory!NULL
  <2>4. \A i, j \in DOMAIN large : i # j /\ large[i] = large[j] => large[i] = 0
    BY DEF PoolInv, Memory!LargeBlocksListed, Memory!NULL
  <2>5. /\ large' \in Seq(0..MaxLarge) /\ DOMAIN large' = 1..Len(large) + 1
        /\ large'[1] = id
        /\ \A i \in 2..Len(large) + 1 : i - 1 \in 1..Len(large) /\ large'[i] = large[i - 1]
    BY <1>2, <2>3
  <2>6. blockHeap' = {large'[i] : i \in DOMAIN large'} \ {0}
    <3>1. ASSUME NEW y \in blockHeap' PROVE y # 0 /\ \E i \in DOMAIN large' : large'[i] = y
      <4>1. CASE y = id
        <5>1. 1 \in DOMAIN large' /\ id # 0
          BY <2>3, <2>5
        <5> QED BY <2>5, <4>1, <5>1
      <4>2. CASE y \in blockHeap
        <5>1. PICK i \in DOMAIN large : large[i] = y /\ y # 0
          BY <2>3, <4>2
        <5>2. i + 1 \in 2..Len(large) + 1 /\ i + 1 - 1 = i
          BY <2>3
        <5>3. large'[i + 1] = y
          BY <2>5, <5>1, <5>2
        <5> QED BY <2>3, <2>5, <5>1, <5>2, <5>3
      <4> QED BY <1>2, <4>1, <4>2
    <3>2. ASSUME NEW i \in DOMAIN large', large'[i] # 0 PROVE large'[i] \in blockHeap'
      <4>1. CASE i = 1
        BY <1>2, <2>5, <4>1
      <4>2. CASE i \in 2..Len(large) + 1
        BY <1>2, <2>3, <2>5, <3>2, <4>2
      <4> QED BY <2>3, <2>5, <4>1, <4>2
    <3> QED BY <3>1, <3>2
  <2>7. ASSUME NEW i \in DOMAIN large', NEW j \in DOMAIN large', i # j, large'[i] = large'[j]
        PROVE  large'[i] = 0
    <3>1. \A k \in DOMAIN large : large[k] # id
      BY <2>3
    <3>2. (i = 1 \/ i \in 2..Len(large) + 1) /\ (j = 1 \/ j \in 2..Len(large) + 1)
      BY <2>3, <2>5
    <3>3. CASE i = 1 /\ j \in 2..Len(large) + 1
      BY <2>3, <2>5, <2>7, <3>1, <3>3
    <3>4. CASE j = 1 /\ i \in 2..Len(large) + 1
      BY <2>3, <2>5, <2>7, <3>1, <3>4
    <3>5. CASE i \in 2..Len(large) + 1 /\ j \in 2..Len(large) + 1
      <4>1. i - 1 \in DOMAIN large /\ j - 1 \in DOMAIN large
        BY <2>3, <2>5, <3>5
      <4>2. i \in Int /\ j \in Int
        BY <3>5
      <4>3. i - 1 # j - 1
        BY <2>7, <4>2
      <4> QED BY <2>4, <2>5, <2>7, <3>5, <4>1, <4>3
    <3> QED BY <2>7, <3>2, <3>3, <3>4, <3>5
  <2>8. LargeKept
    BY <1>2, <2>3, <2>5, <2>6, <2>7
    DEF LargeKept, Memory!LargeBlocksListed, Memory!ToSet, Memory!NULL
  <2> QED BY <2>2, <2>8, KeptInv
<1> QED BY <1>1, <1>2 DEF Memory!Listed, Memory!vars, memoryVars

LEMMA AllocLargeKept ==
  ASSUME PoolInv, Memory!AllocLarge PROVE PoolInv'
<1> DEFINE free == {i \in Memory!Probed : large[i] = Memory!NULL}
<1>1. Memory!NewId \in 1..MaxLarge /\ Memory!NewId \notin blockHeap
  BY NewIdFree DEF Memory!AllocLarge
<1>2. CASE free = {}
  BY <1>1, <1>2, ListedKept DEF Memory!AllocLarge
<1>3. CASE free # {}
  <2>1. free \subseteq 1..Len(large) /\ \A i \in free : large[i] = 0
    BY DEF Memory!Probed, PoolInv, PoolTypes, Memory!NULL
  <2>2. /\ large' = [large EXCEPT ![CHOOSE i \in free : \A j \in free : i <= j] = Memory!NewId]
        /\ blockHeap' = blockHeap \union {Memory!NewId}
        /\ UNCHANGED <<nodes, current, blocks>>
    BY <1>3 DEF Memory!AllocLarge
  <2> HIDE DEF free
  <2> PICK k : k = CHOOSE i \in free : \A j \in free : i <= j
    OBVIOUS
  <2>3. \E i \in free : \A j \in free : i <= j
    <3>1. free \subseteq Nat
      BY <2>1
    <3> QED BY <1>3, <3>1, LeastNat
  <2>4. k \in free
    BY <2>3
  <2>5. LargeKept
    BY <1>1, <2>1, <2>2, <2>4, EntryPut
  <2> QED BY <2>2, <2>5, SmallSame, KeptInv
<1> QED BY <1>2, <1>3

LEMMA FreeKept ==
  ASSUME PoolInv, NEW id \in blockHeap, Memory!Free(id) PROVE PoolInv'
<1> DEFINE its == {i \in 1..Len(large) : large[i] = id}
           k == Memory!SelectInSeq(large, LAMBDA x : x = id)
<1>1. /\ large' = [large EXCEPT ![k] = 0] /\ blockHeap' = blockHeap \ {id}
      /\ UNCHANGED <<nodes, current, blocks>> /\ id \in Memory!ToSet(large)
  BY DEF Memory!Free, Memory!NULL
<1>2. k \in its
  <2>1. its \subseteq Nat /\ its # {}
    BY <1>1 DEF Memory!ToSet, PoolInv, PoolTypes
  <2>2. k = IF its # {} THEN Memory!Min(its) ELSE 0
    BY DEF Memory!SelectInSeq
  <2>3. Memory!Min(its) = CHOOSE x \in its : \A y \in its : x <= y
    BY DEF Memory!Min
  <2>4. \E x \in its : \A y \in its : x <= y
    <3> HIDE DEF its
    <3> QED BY <2>1, LeastNat
  <2> QED BY <2>1, <2>2, <2>3, <2>4
<1>3. k \in 1..Len(large) /\ large[k] = id
  BY <1>2 DEF PoolInv, PoolTypes
<1> HIDE DEF k
<1>4. LargeKept
  BY <1>1, <1>3, EntryTaken
<1> QED BY <1>1, <1>4, SmallSame, KeptInv

LEMMA ResetKept ==
  ASSUME PoolInv, Memory!Reset PROVE PoolInv'
<1> DEFINE ns == [i \in DOMAIN nodes |-> [nodes[i] EXCEPT !.last = Memory!Start(i)]]
<1>1. /\ blockHeap' = blockHeap \ Memory!ToSet(large) /\ large' = <<>>
      /\ nodes' = ns /\ blocks' = {} /\ current' = current
  BY DEF Memory!Reset
<1>2. nodes \in Seq(PoolNodes) /\ Len(nodes) \in Nat /\ DOMAIN nodes = 1..Len(nodes)
  BY DEF PoolInv, PoolTypes
<1>3. ASSUME NEW i \in 1..Len(nodes) PROVE ns[i] \in PoolNodes /\ NodeRoom(i, ns[i])
  <2>1. Memory!Start(i) = IF i = 1 THEN 7 ELSE 4
    BY StartOf
  <2>2. nodes[i] \in PoolNodes /\ NodeRoom(i, nodes[i])
    BY <1>2 DEF PoolInv, NodesRoom
  <2>3. ns[i] = [nodes[i] EXCEPT !.last = Memory!Start(i)]
    BY <1>2
  <2> HIDE DEF ns
  <2> QED BY <2>1, <2>2, <2>3 DEF NodeRoom, PoolNodes
<1>4. ns \in Seq(PoolNodes) /\ Len(ns) = Len(nodes)
  <2>1. DOMAIN ns = 1..Len(nodes) /\ ns = [i \in 1..Len(nodes) |-> ns[i]]
    BY <1>2
  <2> HIDE DEF ns
  <2>2. ns \in [1..Len(nodes) -> PoolNodes]
    BY <1>3, <2>1
  <2> QED BY <1>2, <2>2
<1> HIDE DEF ns
<1>5. SmallKept
  <2>1. current' \in 1..Len(nodes')
    BY <1>1, <1>4 DEF PoolInv, PoolTypes
  <2>2. NodesRoom'
    BY <1>1, <1>3, <1>4 DEF NodesRoom
  <2>3. BlocksIn'
    BY <1>1 DEF BlocksIn
  <2> QED BY <1>1, <1>4, <2>1, <2>2, <2>3 DEF SmallKept
<1>6. LargeKept
  <2>1. blockHeap' = {}
    BY <1>1 DEF PoolInv, Memory!LargeBlocksListed
  <2>2. DOMAIN large' = {} /\ Memory!ToSet(large)' = {} /\ large' \in Seq(0..MaxLarge)
    BY <1>1 DEF Memory!ToSet
  <2> QED BY <2>1, <2>2 DEF LargeKept, Memory!LargeBlocksListed
<1> QED BY <1>5, <1>6, KeptInv

LEMMA MemoryStep ==
  ASSUME PoolInv, Memory!Next PROVE PoolInv'
<1>1. ASSUME NEW size \in Sizes, NEW aligned \in BOOLEAN, Memory!Alloc(size, aligned)
      PROVE  PoolInv'
  <2>1. size \in 0..PoolSize
    BY PoolAssumption
  <2>2. SmallKept
    BY <1>1, <2>1, AllocatedKept DEF Memory!Alloc
  <2>3. LargeKept
    BY <1>1, LargeSame DEF Memory!Alloc
  <2> QED BY <2>2, <2>3, KeptInv
<1>2. CASE Memory!AllocLarge
  BY <1>2, AllocLargeKept
<1>3. CASE Memory!Memalign
  <2>1. blockHeap # 1..MaxLarge /\ Memory!Listed(Memory!NewId)
    BY <1>3 DEF Memory!Memalign
  <2> QED BY <2>1, NewIdFree, ListedKept
<1>4. ASSUME NEW id \in blockHeap, Memory!Free(id) PROVE PoolInv'
  BY <1>4, FreeKept
<1>5. CASE Memory!Reset
  BY <1>5, ResetKept
<1> QED BY <1>1, <1>2, <1>3, <1>4, <1>5 DEF Memory!Next

LEMMA MemorySafe ==
  PoolInv => Memory!TypeOK /\ Memory!BlocksDisjoint /\ Memory!LargeBlocksListed
<1> SUFFICES ASSUME PoolInv
             PROVE  Memory!TypeOK /\ Memory!BlocksDisjoint /\ Memory!LargeBlocksListed
  OBVIOUS
<1>1. Memory!TypeOK
  <2>1. DOMAIN nodes = 1..Len(nodes)
    BY DEF PoolInv, PoolTypes
  <2>2. \A b \in blocks : b.node \in DOMAIN nodes /\ b.from <= b.to
    BY <2>1 DEF PoolInv, BlocksIn, InNode
  <2> QED BY <2>1, <2>2 DEF PoolInv, PoolTypes, PoolNodes, Memory!TypeOK
<1>2. Memory!BlocksDisjoint
  <2>1. ASSUME NEW b \in blocks
        PROVE  /\ b.from >= Memory!Start(b.node)
               /\ b.to <= nodes[b.node].end \/ b.from > nodes[b.node].end
    <3>1. b.node \in 1..Len(nodes) /\ InNode(b, b.node, nodes[b.node])
      BY DEF PoolInv, BlocksIn
    <3>2. Memory!Start(b.node) = IF b.node = 1 THEN 7 ELSE 4
      BY <3>1, StartOf DEF PoolInv, PoolTypes
    <3> QED BY <3>1, <3>2 DEF InNode
  <2>2. \A a, b \in blocks : a.node = b.node /\ a # b => a.to <= b.from \/ b.to <= a.from
    BY DEF PoolInv, BlocksIn
  <2> QED BY <2>1, <2>2 DEF Memory!BlocksDisjoint
<1> QED BY <1>1, <1>2 DEF PoolInv

-----------------------------------------------------------------------------
(* Exceptions.                                                                *)

CONSTANTS Exceptions, NoException, CatchLists, MaxDepth

ASSUME DepthAssumption == MaxDepth \in Nat

VARIABLES tries, ExceptionStack, prevFrame, departed, skipped, missed, astray

tryVars == <<tries, ExceptionStack, prevFrame, departed, skipped, missed, astray>>

Exception == INSTANCE TryCatch WITH left <- departed

TryStatements == [catches : CatchLists, finally : BOOLEAN,
                  at : {"body", "catch", "finally", "end"},
                  flag : {"entered", "thrown", "handled", "finalized"},
                  exception : Exceptions \union {NoException}, due : 0..MaxDepth]

TryTypes ==
  /\ tries \in Seq(TryStatements) /\ Len(tries) <= MaxDepth
  /\ ExceptionStack \in 0..MaxDepth /\ prevFrame \in [1..MaxDepth -> 0..MaxDepth]
  /\ departed \in BOOLEAN /\ missed \in BOOLEAN /\ astray \in BOOLEAN
  /\ skipped \subseteq {"body", "catch"}

\* The statements of s whose body is being executed.
BodiesOf(s) == {i \in 1..Len(s) : s[i].at = "body"}

\* Without a frame that stays: the frames are those of the bodies, from the innermost one
\* out, and what has been thrown goes to the innermost Catch that is left for it.
GreatestOf(m, S) == \/ S = {} /\ m = 0
                    \/ m \in S /\ \A x \in S : x <= m
FramesOf(s, stack, prev) ==
  /\ GreatestOf(stack, BodiesOf(s))
  /\ \A i \in BodiesOf(s) : GreatestOf(prev[i], {j \in BodiesOf(s) : j < i})
Catching(s, e) == {j \in BodiesOf(s) : e \in s[j].catches}
Landing(s) ==
  \A i \in 1..Len(s) :
    /\ s[i].at = "catch" => s[i].due = i
    /\ s[i].flag = "thrown" =>
         GreatestOf(s[i].due, {j \in Catching(s, s[i].exception) : j < i})
Kept == ~departed => /\ FramesOf(tries, ExceptionStack, prevFrame) /\ Landing(tries)
                     /\ ~missed /\ ~astray /\ skipped \subseteq {"catch"}

\* The frames that are reached from the stack: a cycle, or those of all the bodies and
\* perhaps more, ranked from the outermost one in.
Cycle(stack, prev) ==
  \E C \in SUBSET (1..MaxDepth) : stack \in C /\ \A x \in C : prev[x] \in C
RankedFrames(P, r, s, stack, prev) ==
  /\ stack \in P \union {0} /\ BodiesOf(s) \subseteq P /\ r[0] = 0
  /\ \A x, y \in P \union {0} : r[x] = r[y] => x = y
  /\ \A x \in P : r[x] > 0 /\ r[x] <= r[stack]
  /\ \A x \in P : prev[x] \in P \union {0} /\ r[prev[x]] < r[x]
  /\ \A x, y \in P : r[y] < r[x] => r[y] <= r[prev[x]]
  /\ \A i, j \in BodiesOf(s) : i < j => r[i] < r[j]
Chain(s, stack, prev) ==
  \E P \in SUBSET (1..MaxDepth), r \in [0..MaxDepth -> Nat] : RankedFrames(P, r, s, stack, prev)
Reached(s, stack, prev) == Cycle(stack, prev) \/ Chain(s, stack, prev)

TryInv == TryTypes /\ Kept /\ Reached(tries, ExceptionStack, prevFrame)

LEMMA TryInitInv == Exception!Init => TryInv
<1> SUFFICES ASSUME Exception!Init PROVE TryInv
  OBVIOUS
<1>1. /\ tries = <<>> /\ ExceptionStack = 0 /\ prevFrame = [d \in 1..MaxDepth |-> 0]
      /\ departed = FALSE /\ skipped = {} /\ missed = FALSE /\ astray = FALSE
  BY DEF Exception!Init
<1>2. BodiesOf(tries) = {} /\ Len(tries) = 0 /\ tries \in Seq(TryStatements)
  BY <1>1 DEF BodiesOf
<1>3. TryTypes
  <2>1. 0 \in 0..MaxDepth /\ 0 <= MaxDepth
    BY DepthAssumption
  <2>2. prevFrame \in [1..MaxDepth -> 0..MaxDepth]
    BY <1>1, <2>1
  <2> QED BY <1>1, <1>2, <2>1, <2>2 DEF TryTypes
<1>4. Kept
  BY <1>1, <1>2 DEF Kept, FramesOf, GreatestOf, Landing
<1>5. Chain(tries, ExceptionStack, prevFrame)
  <2> DEFINE r == [d \in 0..MaxDepth |-> 0]
  <2>1. r \in [0..MaxDepth -> Nat] /\ r[0] = 0
    BY DepthAssumption
  <2>2. RankedFrames({}, r, tries, ExceptionStack, prevFrame)
    BY <1>1, <1>2, <2>1 DEF RankedFrames
  <2> QED BY <2>1, <2>2 DEF Chain
<1> QED BY <1>3, <1>4, <1>5 DEF TryInv, Reached

LEMMA TryFrame == TryInv /\ UNCHANGED tryVars => TryInv'
BY DEF TryInv, tryVars, TryTypes, Kept, Reached, Cycle, Chain

-----------------------------------------------------------------------------
\* What leaves the bodies that are there, or ends the innermost one or some of them.
LEMMA ReachedFewer ==
  ASSUME NEW s, NEW t, NEW stack, NEW prev, BodiesOf(t) \subseteq BodiesOf(s),
         Reached(s, stack, prev)
  PROVE  Reached(t, stack, prev)
<1>1. ASSUME NEW P \in SUBSET (1..MaxDepth), NEW r \in [0..MaxDepth -> Nat],
             RankedFrames(P, r, s, stack, prev)
      PROVE  RankedFrames(P, r, t, stack, prev)
  BY <1>1 DEF RankedFrames
<1> QED BY <1>1 DEF Reached, Chain

LEMMA ReachedPopped ==
  ASSUME NEW s, NEW t, NEW stack, NEW prev, BodiesOf(t) \subseteq BodiesOf(s),
         Reached(s, stack, prev), stack # 0, stack \notin BodiesOf(t)
  PROVE  Reached(t, prev[stack], prev)
<1>1. CASE Cycle(stack, prev)
  BY <1>1 DEF Cycle, Reached
<1>2. CASE Chain(s, stack, prev)
  <2>1. PICK P \in SUBSET (1..MaxDepth), r \in [0..MaxDepth -> Nat] :
          RankedFrames(P, r, s, stack, prev)
    BY <1>2 DEF Chain
  <2> DEFINE Q == P \ {stack}
  <2>2. P \union {0} \subseteq 0..MaxDepth /\ \A x \in P \union {0} : r[x] \in Nat
    BY DepthAssumption
  <2>3. /\ stack \in P /\ BodiesOf(s) \subseteq P /\ r[0] = 0
        /\ \A x, y \in P \union {0} : r[x] = r[y] => x = y
        /\ \A x \in P : r[x] > 0 /\ r[x] <= r[stack]
        /\ \A x \in P : prev[x] \in P \union {0} /\ r[prev[x]] < r[x]
        /\ \A x, y \in P : r[y] < r[x] => r[y] <= r[prev[x]]
        /\ \A i, j \in BodiesOf(s) : i < j => r[i] < r[j]
    BY <2>1 DEF RankedFrames
  <2>4. \A x \in P : prev[x] \in Q \union {0}
    <3>1. ASSUME NEW x \in P, prev[x] = stack PROVE FALSE
      BY <2>2, <2>3, <3>1
    <3> QED BY <2>3, <3>1
  <2>5. \A x \in Q : r[x] <= r[prev[stack]]
    <3> TAKE x \in Q
    <3>1. r[x] # r[stack] /\ r[x] <= r[stack]
      BY <2>3
    <3>2. r[x] < r[stack]
      BY <2>2, <2>3, <3>1
    <3> QED BY <2>3, <3>2
  <2>6. RankedFrames(Q, r, t, prev[stack], prev)
    <3>1. BodiesOf(t) \subseteq Q
      BY <2>3
    <3> QED BY <2>3, <2>4, <2>5, <3>1 DEF RankedFrames
  <2>7. Q \in SUBSET (1..MaxDepth)
    OBVIOUS
  <2> QED BY <2>6, <2>7 DEF Reached, Chain
<1> QED BY <1>1, <1>2 DEF Reached

\* While a body is being executed, there is a frame; and the innermost body ends with its
\* own frame or one that has stayed.
LEMMA StackNotNull ==
  ASSUME NEW s, NEW stack, NEW prev, Reached(s, stack, prev), NEW k \in BodiesOf(s),
         \A i \in BodiesOf(s) : i <= k, Len(s) \in Nat
  PROVE  /\ stack # 0
         /\ \A t : BodiesOf(t) \subseteq BodiesOf(s) \ {k} => Reached(t, prev[stack], prev)
<1>1. CASE Cycle(stack, prev)
  <2>1. stack # 0
    BY <1>1 DEF Cycle
  <2>2. Cycle(prev[stack], prev)
    BY <1>1 DEF Cycle
  <2> QED BY <2>1, <2>2 DEF Reached
<1>2. CASE Chain(s, stack, prev)
  <2>1. PICK P \in SUBSET (1..MaxDepth), r \in [0..MaxDepth -> Nat] :
          RankedFrames(P, r, s, stack, prev)
    BY <1>2 DEF Chain
  <2>2. P \union {0} \subseteq 0..MaxDepth /\ \A x \in P \union {0} : r[x] \in Nat
    BY DepthAssumption
  <2>3. /\ stack \in P \union {0} /\ k \in P /\ r[0] = 0 /\ r[k] > 0 /\ r[k] <= r[stack]
        /\ \A i, j \in BodiesOf(s) : i < j => r[i] < r[j]
        /\ BodiesOf(s) \subseteq P
    BY <2>1 DEF RankedFrames
  <2>4. stack # 0
    BY <2>2, <2>3
  <2>5. ASSUME NEW t, BodiesOf(t) \subseteq BodiesOf(s) \ {k}, stack \in BodiesOf(t)
        PROVE  FALSE
    <3>1. stack \in BodiesOf(s) /\ stack # k /\ stack <= k /\ stack \in Int /\ k \in Int
      BY <2>5 DEF BodiesOf
    <3>2. r[stack] < r[k]
      BY <2>3, <3>1
    <3> QED BY <2>2, <2>3, <3>2
  <2> QED BY <2>4, <2>5, ReachedPopped
<1> QED BY <1>1, <1>2 DEF Reached

\* A new body, with a frame in place d: that of a body which was left may be there.
LEMMA ReachedPushed ==
  ASSUME NEW s, NEW t, NEW stack \in 0..MaxDepth, NEW prev \in [1..MaxDepth -> 0..MaxDepth],
         NEW d \in 1..MaxDepth, Reached(s, stack, prev),
         BodiesOf(t) = BodiesOf(s) \union {d}, \A i \in BodiesOf(s) : i < d
  PROVE  Reached(t, d, [prev EXCEPT ![d] = stack])
<1> DEFINE new == [prev EXCEPT ![d] = stack]
<1>0. new[d] = stack /\ \A x \in 1..MaxDepth : x # d => new[x] = prev[x]
  OBVIOUS
<1> HIDE DEF new
<1>1. CASE Cycle(stack, prev)
  <2>1. PICK C \in SUBSET (1..MaxDepth) : stack \in C /\ \A x \in C : prev[x] \in C
    BY <1>1 DEF Cycle
  <2>2. \A x \in C \union {d} : new[x] \in C \union {d}
    BY <1>0, <2>1
  <2>3. C \union {d} \in SUBSET (1..MaxDepth)
    OBVIOUS
  <2> QED BY <2>2, <2>3 DEF Reached, Cycle, new
<1>2. CASE Chain(s, stack, prev)
  <2>1. PICK P \in SUBSET (1..MaxDepth), r \in [0..MaxDepth -> Nat] :
          RankedFrames(P, r, s, stack, prev)
    BY <1>2 DEF Chain
  <2>2. P \union {0} \subseteq 0..MaxDepth /\ \A x \in P \union {0} : r[x] \in Nat
    BY DepthAssumption
  <2>3. /\ stack \in P \union {0} /\ BodiesOf(s) \subseteq P /\ r[0] = 0
        /\ \A x, y \in P \union {0} : r[x] = r[y] => x = y
        /\ \A x \in P : r[x] > 0 /\ r[x] <= r[stack]
        /\ \A x \in P : prev[x] \in P \union {0} /\ r[prev[x]] < r[x]
        /\ \A x, y \in P : r[y] < r[x] => r[y] <= r[prev[x]]
        /\ \A i, j \in BodiesOf(s) : i < j => r[i] < r[j]
    BY <2>1 DEF RankedFrames
  <2>4. CASE d \in P
    <3> DEFINE C == {x \in P : r[d] <= r[x]}
    <3>1. d \in C /\ C \in SUBSET (1..MaxDepth)
      <4>1. r[d] \in Nat
        BY <2>2, <2>4
      <4>2. C \subseteq 1..MaxDepth
        OBVIOUS
      <4> QED BY <2>4, <4>1, <4>2
    <3>2. stack \in C
      BY <2>2, <2>3, <2>4
    <3>3. ASSUME NEW x \in C PROVE new[x] \in C
      <4>1. CASE x = d
        BY <1>0, <3>2, <4>1
      <4>2. CASE x # d
        <5>1. r[d] < r[x]
          BY <2>2, <2>3, <2>4, <4>2
        <5>2. r[d] <= r[prev[x]] /\ prev[x] \in P \union {0}
          BY <2>3, <2>4, <5>1
        <5>3. prev[x] # 0
          BY <2>2, <2>3, <2>4, <5>2
        <5> QED BY <1>0, <4>2, <5>2, <5>3
      <4> QED BY <4>1, <4>2
    <3> QED BY <3>1, <3>3 DEF Reached, Cycle, new
  <2>5. CASE d \notin P
    <3> DEFINE Q == P \union {d}
               q == [r EXCEPT ![d] = r[stack] + 1]
    <3>1. /\ r[stack] \in Nat /\ q \in [0..MaxDepth -> Nat] /\ q[d] = r[stack] + 1
          /\ \A x \in P \union {0} : q[x] = r[x]
      BY <2>2, <2>3, <2>5
    <3> HIDE DEF q
    <3>2. Q \in SUBSET (1..MaxDepth)
      OBVIOUS
    <3>3. \A x \in P \union {0} : q[x] < q[d]
      <4>1. \A x \in P \union {0} : r[x] <= r[stack]
        BY <2>2, <2>3
      <4> QED BY <2>2, <3>1, <4>1
    <3>4. \A x, y \in Q \union {0} : q[x] = q[y] => x = y
      BY <2>2, <2>3, <3>1, <3>3
    <3>5. \A x \in Q : q[x] > 0 /\ q[x] <= q[d]
      BY <2>2, <2>3, <3>1, <3>3
    <3>6. \A x \in P : new[x] = prev[x] /\ prev[x] \in P \union {0} /\ q[prev[x]] = r[prev[x]]
      BY <1>0, <2>3, <2>5, <3>1
    <3>7. \A x \in Q : new[x] \in Q \union {0} /\ q[new[x]] < q[x]
      <4> TAKE x \in Q
      <4>1. CASE x = d
        BY <1>0, <2>3, <3>3, <4>1
      <4>2. CASE x \in P
        BY <2>3, <3>1, <3>6, <4>2
      <4> QED BY <4>1, <4>2
    <3>8. \A x, y \in Q : q[y] < q[x] => q[y] <= q[new[x]]
      <4> TAKE x, y \in Q
      <4> HAVE q[y] < q[x]
      <4>1. CASE x = d
        <5>1. y \in P
          BY <3>1, <4>1
        <5>2. new[x] = stack /\ q[stack] = r[stack] /\ q[y] = r[y]
          BY <1>0, <2>3, <3>1, <4>1, <5>1
        <5> QED BY <2>3, <5>1, <5>2
      <4>2. CASE x \in P /\ y \in P
        BY <2>3, <3>1, <3>6, <4>2
      <4>3. CASE x \in P /\ y = d
        <5>1. q[x] < q[d] /\ q[x] \in Nat /\ q[d] \in Nat
          BY <2>2, <3>1, <3>3, <4>3
        <5> QED BY <4>3, <5>1
      <4> QED BY <4>1, <4>2, <4>3
    <3>9. \A i, j \in BodiesOf(t) : i < j => q[i] < q[j]
      <4> TAKE i, j \in BodiesOf(t)
      <4> HAVE i < j
      <4>1. CASE i \in BodiesOf(s) /\ j \in BodiesOf(s)
        BY <2>3, <3>1, <4>1
      <4>2. CASE i \in BodiesOf(s) /\ j = d
        BY <2>3, <3>3, <4>2
      <4>3. CASE i = d
        <5>1. j \in BodiesOf(s) => j < d
          OBVIOUS
        <5>2. BodiesOf(s) \subseteq Int /\ d \in Int
          BY DEF BodiesOf
        <5> QED BY <4>3, <5>1, <5>2
      <4> QED BY <4>1, <4>2, <4>3
    <3>10. RankedFrames(Q, q, t, d, new)
      <4>1. d \in Q \union {0} /\ BodiesOf(t) \subseteq Q /\ q[0] = 0
        BY <2>3, <3>1
      <4> HIDE DEF Q
      <4> QED BY <3>4, <3>5, <3>7, <3>8, <3>9, <4>1 DEF RankedFrames
    <3> HIDE DEF Q
    <3> QED BY <3>1, <3>2, <3>10 DEF Reached, Chain, new
  <2> QED BY <2>4, <2>5
<1> QED BY <1>1, <1>2 DEF Reached

-----------------------------------------------------------------------------
(* The steps.                                                                 *)

\* The macros act on the last statement of Front(tries) and what follows it.
LEMMA FrontOf ==
  ASSUME NEW T, NEW s \in Seq(T), Len(s) > 0
  PROVE  /\ Exception!Front(s) \in Seq(T) /\ Len(Exception!Front(s)) = Len(s) - 1
         /\ \A i \in 1..Len(s) - 1 : Exception!Front(s)[i] = s[i]
         /\ Exception!Last(s) = s[Len(s)] /\ s[Len(s)] \in T
<1>1. Len(s) - 1 \in Int /\ Len(s) \in Nat /\ \A i \in 1..Len(s) - 1 : s[i] \in T
  OBVIOUS
<1> PICK f : f = SubSeq(s, 1, Len(s) - 1)
  OBVIOUS
<1>2. /\ f \in Seq(T)
      /\ Len(f) = IF 1 <= Len(s) - 1 THEN Len(s) - 1 - 1 + 1 ELSE 0
      /\ \A i \in 1..Len(s) - 1 - 1 + 1 : f[i] = s[1 + i - 1]
  <2>1. /\ SubSeq(s, 1, Len(s) - 1) \in Seq(T)
        /\ Len(SubSeq(s, 1, Len(s) - 1)) =
             IF 1 <= Len(s) - 1 THEN Len(s) - 1 - 1 + 1 ELSE 0
        /\ \A i \in 1..Len(s) - 1 - 1 + 1 : SubSeq(s, 1, Len(s) - 1)[i] = s[1 + i - 1]
    BY ONLY <1>1, SubSeqProperties, 1 \in Int
  <2> QED BY <2>1
<1>3. Exception!Front(s) = f /\ Exception!Last(s) = s[Len(s)] /\ s[Len(s)] \in T
  BY DEF Exception!Front, Exception!Last
<1>4. Len(f) = Len(s) - 1
  <2>1. Len(s) > 0 /\ Len(s) \in Nat
    OBVIOUS
  <2>2. Len(f) = IF 1 <= Len(s) - 1 THEN Len(s) - 1 - 1 + 1 ELSE 0
    BY <1>2
  <2>3. \A n \in Nat : n > 0 => (IF 1 <= n - 1 THEN n - 1 - 1 + 1 ELSE 0) = n - 1
    OBVIOUS
  <2> QED BY ONLY <2>1, <2>2, <2>3
<1>5. \A i \in 1..Len(s) - 1 : f[i] = s[i]
  <2> TAKE i \in 1..Len(s) - 1
  <2>1. i \in 1..Len(s) - 1 - 1 + 1 /\ 1 + i - 1 = i
    BY <1>1
  <2> QED BY <1>2, <2>1
<1> QED BY <1>2, <1>3, <1>4, <1>5

LEMMA BodiesFewer ==
  ASSUME NEW s \in Seq(TryStatements), NEW t \in Seq(TryStatements), Len(t) <= Len(s),
         \A i \in 1..Len(t) : t[i].at = "body" => s[i].at = "body"
  PROVE  BodiesOf(t) \subseteq BodiesOf(s)
BY DEF BodiesOf

\* The last statement moves to another part of it, or goes, and was not in its body.
LEMMA FramesSame ==
  ASSUME NEW s, NEW t, BodiesOf(t) = BodiesOf(s), FramesOf(s, ExceptionStack, prevFrame)
  PROVE  FramesOf(t, ExceptionStack, prevFrame)
BY DEF FramesOf

\* What the statements before n have caught and thrown depends on nothing after them.
LEMMA LandingBelow ==
  ASSUME NEW s \in Seq(TryStatements), NEW t \in Seq(TryStatements), NEW n \in Nat,
         Landing(s), n <= Len(s), n <= Len(t), \A i \in 1..n : t[i] = s[i],
         NEW i \in 1..n
  PROVE  /\ t[i].at = "catch" => t[i].due = i
         /\ t[i].flag = "thrown" =>
              GreatestOf(t[i].due, {j \in Catching(t, t[i].exception) : j < i})
<1>1. t[i] = s[i] /\ i \in 1..Len(s)
  OBVIOUS
<1>2. \A e : {j \in Catching(t, e) : j < i} = {j \in Catching(s, e) : j < i}
  <2> TAKE e
  <2>1. ASSUME NEW j \in Int, j < i
        PROVE  j \in Catching(t, e) <=> j \in Catching(s, e)
    <3>1. j \in 1..Len(t) => j \in 1..n
      BY <2>1
    <3>2. j \in 1..Len(s) => j \in 1..n
      BY <2>1
    <3>3. j \in 1..n => j \in 1..Len(t) /\ j \in 1..Len(s) /\ t[j] = s[j]
      OBVIOUS
    <3> QED BY <3>1, <3>2, <3>3 DEF Catching, BodiesOf
  <2>2. Catching(t, e) \subseteq Int /\ Catching(s, e) \subseteq Int
    BY DEF Catching, BodiesOf
  <2> QED BY <2>1, <2>2
<1> QED BY <1>1, <1>2 DEF Landing

\* Max is the greatest number of a set of statements.
LEMMA MaxOf ==
  ASSUME NEW n \in Nat, NEW S, S \subseteq 1..n
  PROVE  GreatestOf(IF S = {} THEN 0 ELSE Exception!Max(S), S)
<1>1. CASE S = {}
  BY <1>1 DEF GreatestOf
<1>2. CASE S # {}
  <2>1. \E x \in S : \A y \in S : y <= x
    <3>1. S \subseteq 0..n
      OBVIOUS
    <3> QED BY <1>2, <3>1, GreatestNat
  <2>2. Exception!Max(S) = CHOOSE x \in S : \A y \in S : x >= y
    BY DEF Exception!Max
  <2>3. \A x, y \in S : y <= x <=> x >= y
    OBVIOUS
  <2> QED BY <1>2, <2>1, <2>2, <2>3 DEF GreatestOf
<1> QED BY <1>1, <1>2

LEMMA GreatestUnique ==
  ASSUME NEW S, S \subseteq Nat \ {0}, NEW a, NEW b, GreatestOf(a, S), GreatestOf(b, S)
  PROVE  a = b
<1>1. /\ (S = {} /\ a = 0) \/ (a \in S /\ \A x \in S : x <= a)
      /\ (S = {} /\ b = 0) \/ (b \in S /\ \A x \in S : x <= b)
  BY DEF GreatestOf
<1>2. CASE S = {}
  BY <1>1, <1>2
<1>3. CASE S # {}
  <2>1. a \in S /\ b \in S /\ a <= b /\ b <= a
    BY <1>1, <1>3
  <2>2. \A x, y \in Nat : x <= y /\ y <= x => x = y
    OBVIOUS
  <2> QED BY <2>1, <2>2
<1> QED BY <1>2, <1>3

LEMMA TryKept ==
  ASSUME TryInv, NEW catches \in CatchLists, NEW finally \in BOOLEAN,
         Exception!Try(catches, finally)
  PROVE  TryInv'
<1> DEFINE d == Len(tries) + 1
           new == [catches |-> catches, finally |-> finally, at |-> "body",
                   flag |-> "entered", exception |-> NoException, due |-> 0]
<1>1. /\ tries \in Seq(TryStatements) /\ Len(tries) \in Nat /\ Len(tries) < MaxDepth
      /\ ExceptionStack \in 0..MaxDepth /\ prevFrame \in [1..MaxDepth -> 0..MaxDepth]
      /\ MaxDepth \in Nat
  BY DepthAssumption DEF TryInv, TryTypes, Exception!Try
<1>2. /\ prevFrame' = [prevFrame EXCEPT ![d] = ExceptionStack] /\ ExceptionStack' = d
      /\ tries' = Append(tries, new)
      /\ departed' = departed /\ skipped' = skipped /\ missed' = missed /\ astray' = astray
  BY DEF Exception!Try, Exception!aux
<1>3. new \in TryStatements /\ new.at = "body" /\ new.flag = "entered"
  BY <1>1 DEF TryStatements
<1> HIDE DEF new
<1>4. /\ tries' \in Seq(TryStatements) /\ Len(tries') = d /\ tries'[d] = new
      /\ \A i \in 1..Len(tries) : tries'[i] = tries[i]
  BY <1>1, <1>2, <1>3
<1>5. d \in 1..MaxDepth
  BY <1>1
<1>6. TryTypes'
  <2>1. prevFrame' \in [1..MaxDepth -> 0..MaxDepth]
    BY <1>1, <1>2, <1>5
  <2>2. ExceptionStack' \in 0..MaxDepth /\ Len(tries') <= MaxDepth
    BY <1>1, <1>2, <1>4, <1>5
  <2> QED BY <1>2, <1>4, <2>1, <2>2 DEF TryInv, TryTypes
<1>7. BodiesOf(tries') = BodiesOf(tries) \union {d} /\ \A i \in BodiesOf(tries) : i < d
  <2>1. \A i \in 1..Len(tries') : i \in 1..Len(tries) \/ i = d
    BY <1>1, <1>4
  <2>2. \A i \in 1..Len(tries) : i \in 1..Len(tries') /\ i < d
    BY <1>1, <1>4
  <2>3. d \in 1..Len(tries') /\ tries'[d].at = "body"
    BY <1>1, <1>3, <1>4
  <2> QED BY <1>4, <2>1, <2>2, <2>3 DEF BodiesOf
<1>8. Reached(tries', ExceptionStack', prevFrame')
  BY <1>1, <1>2, <1>5, <1>7, ReachedPushed DEF TryInv
<1>9. Kept'
  <2> SUFFICES ASSUME ~departed
               PROVE  FramesOf(tries', ExceptionStack', prevFrame') /\ Landing(tries')
    BY <1>2 DEF Kept, TryInv
  <2>1. FramesOf(tries, ExceptionStack, prevFrame) /\ Landing(tries)
    BY DEF TryInv, Kept
  <2>2. BodiesOf(tries) \subseteq 1..Len(tries) /\ BodiesOf(tries) \subseteq 1..MaxDepth
    BY <1>1 DEF BodiesOf
  <2>3. {j \in BodiesOf(tries') : j < d} = BodiesOf(tries)
    BY <1>7, <2>2
  <2>4. ASSUME NEW i \in BodiesOf(tries)
        PROVE  {j \in BodiesOf(tries') : j < i} = {j \in BodiesOf(tries) : j < i}
    BY <1>1, <1>7, <2>2
  <2>5. prevFrame'[d] = ExceptionStack /\ \A i \in BodiesOf(tries) : prevFrame'[i] = prevFrame[i]
    <3>1. \A i \in BodiesOf(tries) : i # d
      BY <1>1, <2>2
    <3> QED BY <1>1, <1>2, <1>5, <2>2, <3>1
  <2>6. GreatestOf(d, BodiesOf(tries'))
    BY <1>1, <1>7, <2>2 DEF GreatestOf
  <2>7. \A i \in BodiesOf(tries') :
          GreatestOf(prevFrame'[i], {j \in BodiesOf(tries') : j < i})
    <3> TAKE i \in BodiesOf(tries')
    <3>1. CASE i = d
      BY <2>1, <2>3, <2>5, <3>1 DEF FramesOf
    <3>2. CASE i \in BodiesOf(tries)
      BY <2>1, <2>4, <2>5, <3>2 DEF FramesOf
    <3> QED BY <1>7, <3>1, <3>2
  <2>8. Landing(tries')
    <3>1. ASSUME NEW i \in 1..Len(tries')
          PROVE  /\ tries'[i].at = "catch" => tries'[i].due = i
                 /\ tries'[i].flag = "thrown" =>
                      GreatestOf(tries'[i].due,
                                 {j \in Catching(tries', tries'[i].exception) : j < i})
      <4>1. CASE i = d
        BY <1>3, <1>4, <4>1
      <4>2. CASE i \in 1..Len(tries)
        <5> PICK t : t = tries'
          OBVIOUS
        <5>1. Len(tries) <= Len(t) /\ t \in Seq(TryStatements)
          BY <1>1, <1>4
        <5>2. /\ tries \in Seq(TryStatements) /\ Len(tries) \in Nat /\ Len(tries) <= Len(tries)
              /\ \A j \in 1..Len(tries) : t[j] = tries[j]
          BY <1>1, <1>4
        <5>3. /\ t[i].at = "catch" => t[i].due = i
              /\ t[i].flag = "thrown" =>
                   GreatestOf(t[i].due, {j \in Catching(t, t[i].exception) : j < i})
          BY ONLY <2>1, <4>2, <5>1, <5>2, LandingBelow
        <5> QED BY <5>3
      <4> QED BY <1>1, <1>4, <4>1, <4>2
    <3> QED BY <3>1 DEF Landing
  <2> QED BY <1>2, <2>6, <2>7, <2>8 DEF FramesOf
<1> QED BY <1>6, <1>8, <1>9 DEF TryInv

\* The last statement goes on after its body, its Catch or its Finally, or ends: what is
\* below it stays, and its body, if it was in it, has no frame any more.
LEMMA TopChanged ==
  ASSUME TryInv, NEW t \in Seq(TryStatements), Len(tries) > 0,
         Len(t) \in {Len(tries) - 1, Len(tries)},
         \A i \in 1..Len(tries) - 1 : t[i] = tries[i],
         Len(t) = Len(tries) => /\ t[Len(t)].at \notin {"body", "catch"}
                                /\ \/ t[Len(t)].flag # "thrown"
                                   \/ /\ t[Len(t)].flag = tries[Len(tries)].flag
                                      /\ t[Len(t)].due = tries[Len(tries)].due
                                      /\ t[Len(t)].exception = tries[Len(tries)].exception
  PROVE  /\ BodiesOf(t) = BodiesOf(tries) \ {Len(tries)}
         /\ ~departed => Landing(t)
<1>1. tries \in Seq(TryStatements) /\ Len(tries) \in Nat /\ Len(t) \in Nat
  BY DEF TryInv, TryTypes
<1>2. BodiesOf(t) = BodiesOf(tries) \ {Len(tries)}
  <2>1. ASSUME NEW i \in Int PROVE i \in BodiesOf(t) <=> i \in BodiesOf(tries) \ {Len(tries)}
    <3>1. CASE i \in 1..Len(tries) - 1
      <4>1. i \in 1..Len(t) /\ i \in 1..Len(tries) /\ i # Len(tries) /\ t[i] = tries[i]
        BY <1>1, <3>1
      <4> QED BY <4>1 DEF BodiesOf
    <3>2. CASE i = Len(tries)
      BY <1>1, <3>2 DEF BodiesOf
    <3>3. CASE i \notin 1..Len(tries)
      <4>1. i \notin 1..Len(t)
        BY <1>1, <3>3
      <4> QED BY <3>3, <4>1 DEF BodiesOf
    <3> QED BY <1>1, <3>1, <3>2, <3>3
  <2>2. BodiesOf(t) \subseteq Int /\ BodiesOf(tries) \subseteq Int
    BY <1>1 DEF BodiesOf
  <2> QED BY <2>1, <2>2
<1>3. ASSUME ~departed PROVE Landing(t)
  <2>1. Landing(tries)
    BY <1>3 DEF TryInv, Kept
  <2>2. ASSUME NEW i \in 1..Len(t)
        PROVE  /\ t[i].at = "catch" => t[i].due = i
               /\ t[i].flag = "thrown" =>
                    GreatestOf(t[i].due, {j \in Catching(t, t[i].exception) : j < i})
    <3>1. CASE i \in 1..Len(tries) - 1
      <4>1. Len(tries) - 1 \in Nat /\ Len(tries) - 1 <= Len(tries) /\ Len(tries) - 1 <= Len(t)
        BY <1>1
      <4> QED BY <1>1, <2>1, <3>1, <4>1, LandingBelow
    <3>2. CASE i = Len(tries)
      <4>1. Len(t) = Len(tries) /\ i = Len(t) /\ i \in 1..Len(tries)
        BY <1>1, <3>2
      <4>2. t[i].at # "catch"
        BY <4>1
      <4>3. ASSUME t[i].flag = "thrown"
            PROVE  GreatestOf(t[i].due, {j \in Catching(t, t[i].exception) : j < i})
        <5>1. /\ tries[i].flag = "thrown" /\ t[i].due = tries[i].due
              /\ t[i].exception = tries[i].exception
          BY <4>1, <4>3
        <5>2. GreatestOf(tries[i].due, {j \in Catching(tries, tries[i].exception) : j < i})
          BY <2>1, <4>1, <5>1 DEF Landing
        <5>3. \A e : {j \in Catching(t, e) : j < i} = {j \in Catching(tries, e) : j < i}
          <6> TAKE e
          <6>1. ASSUME NEW j \in 1..Len(tries) - 1
                PROVE  j \in Catching(t, e) <=> j \in Catching(tries, e)
            <7>1. j \in 1..Len(t) /\ j \in 1..Len(tries) /\ t[j] = tries[j]
              BY <1>1, <4>1, <6>1
            <7> QED BY <7>1 DEF Catching, BodiesOf
          <6>2. \A j \in 1..Len(tries) : j < i <=> j \in 1..Len(tries) - 1
            BY <1>1, <3>2
          <6>3. Catching(t, e) \subseteq 1..Len(tries) /\ Catching(tries, e) \subseteq 1..Len(tries)
            BY <4>1 DEF Catching, BodiesOf
          <6> QED BY <6>1, <6>2, <6>3
        <5> QED BY <5>1, <5>2, <5>3
      <4> QED BY <4>2, <4>3
    <3> QED BY <1>1, <3>1, <3>2
  <2> QED BY <2>2 DEF Landing
<1> QED BY <1>2, <1>3

\* The last statement was not in its body.
LEMMA NoBodyEnds ==
  ASSUME TryInv, NEW t \in Seq(TryStatements), Len(tries) > 0,
         Len(t) \in {Len(tries) - 1, Len(tries)},
         \A i \in 1..Len(tries) - 1 : t[i] = tries[i],
         Len(t) = Len(tries) => /\ t[Len(t)].at \notin {"body", "catch"}
                                /\ \/ t[Len(t)].flag # "thrown"
                                   \/ /\ t[Len(t)].flag = tries[Len(tries)].flag
                                      /\ t[Len(t)].due = tries[Len(tries)].due
                                      /\ t[Len(t)].exception = tries[Len(tries)].exception,
         tries[Len(tries)].at # "body"
  PROVE  /\ BodiesOf(t) = BodiesOf(tries)
         /\ ~departed => FramesOf(t, ExceptionStack, prevFrame) /\ Landing(t)
         /\ Reached(t, ExceptionStack, prevFrame) /\ Len(t) <= MaxDepth
<1>1. BodiesOf(t) = BodiesOf(tries) \ {Len(tries)} /\ (~departed => Landing(t))
  BY TopChanged
<1>2. BodiesOf(t) = BodiesOf(tries)
  BY <1>1 DEF BodiesOf
<1>3. Len(t) <= MaxDepth
  BY DepthAssumption DEF TryInv, TryTypes
<1>4. ~departed => FramesOf(t, ExceptionStack, prevFrame)
  BY <1>2, FramesSame DEF TryInv, Kept
<1>5. Reached(t, ExceptionStack, prevFrame)
  BY <1>2, ReachedFewer DEF TryInv
<1> QED BY <1>1, <1>2, <1>3, <1>4, <1>5

LEMMA NoBodyKept ==
  ASSUME TryInv, Len(tries) > 0, tries' \in Seq(TryStatements),
         Len(tries') \in {Len(tries) - 1, Len(tries)},
         \A i \in 1..Len(tries) - 1 : tries'[i] = tries[i],
         Len(tries') = Len(tries) =>
           /\ tries'[Len(tries')].at \notin {"body", "catch"}
           /\ \/ tries'[Len(tries')].flag # "thrown"
              \/ /\ tries'[Len(tries')].flag = tries[Len(tries)].flag
                 /\ tries'[Len(tries')].due = tries[Len(tries)].due
                 /\ tries'[Len(tries')].exception = tries[Len(tries)].exception,
         tries[Len(tries)].at # "body",
         UNCHANGED <<ExceptionStack, prevFrame, departed, missed, astray>>,
         skipped' = skipped \/ (skipped' = skipped \union {tries[Len(tries)].at}
                                /\ tries[Len(tries)].at = "catch")
  PROVE  TryInv'
<1> PICK t : t = tries'
  OBVIOUS
<1>1. /\ ~departed => FramesOf(t, ExceptionStack, prevFrame) /\ Landing(t)
      /\ Reached(t, ExceptionStack, prevFrame) /\ Len(t) <= MaxDepth
  BY NoBodyEnds
<1>2. skipped \subseteq {"body", "catch"} /\ (~departed => skipped \subseteq {"catch"})
  BY DEF TryInv, TryTypes, Kept
<1>3. skipped' \subseteq {"body", "catch"} /\ (~departed => skipped' \subseteq {"catch"})
  BY <1>2
<1>4. TryTypes'
  BY <1>1, <1>3 DEF TryInv, TryTypes
<1>5. Kept'
  BY <1>1, <1>3 DEF TryInv, Kept
<1> QED BY <1>1, <1>4, <1>5 DEF TryInv

LEMMA TopOf ==
  ASSUME TryInv, tries # <<>>
  PROVE  /\ tries \in Seq(TryStatements) /\ Len(tries) \in Nat /\ Len(tries) > 0
         /\ Len(tries) \in 1..MaxDepth
         /\ Exception!top = tries[Len(tries)] /\ tries[Len(tries)] \in TryStatements
         /\ Exception!Front(tries) \in Seq(TryStatements)
         /\ Len(Exception!Front(tries)) = Len(tries) - 1
         /\ \A i \in 1..Len(tries) - 1 : Exception!Front(tries)[i] = tries[i]
<1>1. tries \in Seq(TryStatements) /\ Len(tries) \in Nat /\ Len(tries) > 0 /\ Len(tries) <= MaxDepth
  BY DEF TryInv, TryTypes
<1> QED BY <1>1, FrontOf, DepthAssumption DEF Exception!top

\* The part of a statement that it goes on with.
LEMMA MovedOf ==
  ASSUME NEW x \in TryStatements, NEW a \in {"finally", "end"}
  PROVE  /\ [x EXCEPT !.at = a] \in TryStatements /\ [x EXCEPT !.at = a].at = a
         /\ [x EXCEPT !.at = a].flag = x.flag /\ [x EXCEPT !.at = a].due = x.due
         /\ [x EXCEPT !.at = a].exception = x.exception
         /\ [x EXCEPT !.at = a, !.flag = "finalized"] \in TryStatements
         /\ [x EXCEPT !.at = a, !.flag = "finalized"].at = a
         /\ [x EXCEPT !.at = a, !.flag = "finalized"].flag = "finalized"
BY DEF TryStatements

LEMMA AfterOf ==
  ASSUME NEW x \in TryStatements PROVE Exception!After(x) \in {"finally", "end"}
BY DEF Exception!After

LEMMA MoveKept ==
  ASSUME TryInv, tries # <<>>, NEW a \in {"finally", "end"}, tries[Len(tries)].at # "body",
         tries' = [tries EXCEPT ![Len(tries)].at = a],
         UNCHANGED <<ExceptionStack, prevFrame, departed, missed, astray, skipped>>
  PROVE  TryInv'
<1> PICK n : n = Len(tries)
  OBVIOUS
<1> PICK x : x = tries[n]
  OBVIOUS
<1> PICK y : y = [x EXCEPT !.at = a]
  OBVIOUS
<1>1. tries \in Seq(TryStatements) /\ n \in 1..Len(tries) /\ n \in Nat /\ x \in TryStatements
  BY TopOf
<1>2. /\ y \in TryStatements /\ y.at = a
      /\ y.flag = x.flag /\ y.due = x.due /\ y.exception = x.exception
  <2>1. /\ [x EXCEPT !.at = a] \in TryStatements /\ [x EXCEPT !.at = a].at = a
        /\ [x EXCEPT !.at = a].flag = x.flag /\ [x EXCEPT !.at = a].due = x.due
        /\ [x EXCEPT !.at = a].exception = x.exception
    BY ONLY <1>1, a \in {"finally", "end"}, MovedOf
  <2> QED BY <2>1
<1>3. tries' = [tries EXCEPT ![n] = y]
  BY <1>1
<1>4. /\ tries' \in Seq(TryStatements) /\ Len(tries') = n /\ tries'[n] = y
      /\ \A i \in 1..n - 1 : tries'[i] = tries[i]
  BY <1>1, <1>2, <1>3
<1>5. /\ tries'[n].at \notin {"body", "catch"} /\ tries'[n].flag = tries[n].flag
      /\ tries'[n].due = tries[n].due /\ tries'[n].exception = tries[n].exception
  BY <1>2, <1>4
<1> QED BY <1>1, <1>4, <1>5, NoBodyKept

\* The innermost frame goes, with its body.
LEMMA FramesPopped ==
  ASSUME NEW s, NEW t, NEW prev, NEW k \in BodiesOf(s), FramesOf(s, k, prev),
         BodiesOf(t) = {j \in BodiesOf(s) : j < k}
  PROVE  FramesOf(t, prev[k], prev)
<1>1. GreatestOf(prev[k], BodiesOf(t))
  BY DEF FramesOf
<1>2. ASSUME NEW i \in BodiesOf(t) PROVE GreatestOf(prev[i], {j \in BodiesOf(t) : j < i})
  <2>1. \A j \in BodiesOf(s) : j < i => j < k
    BY DEF BodiesOf
  <2>2. {j \in BodiesOf(t) : j < i} = {j \in BodiesOf(s) : j < i}
    BY <2>1
  <2>3. GreatestOf(prev[i], {j \in BodiesOf(s) : j < i})
    BY DEF FramesOf
  <2> QED BY <2>2, <2>3
<1> QED BY <1>1, <1>2 DEF FramesOf

LEMMA EndBodyKept ==
  ASSUME TryInv, Exception!EndBody PROVE TryInv'
<1> PICK n : n = Len(tries)
  OBVIOUS
<1> PICK x : x = tries[n]
  OBVIOUS
<1>1. tries # <<>> /\ tries[n].at = "body" /\ ~astray
  BY DEF Exception!EndBody, Exception!At, Exception!top, Exception!Last
<1>2. /\ tries \in Seq(TryStatements) /\ n \in Nat /\ n > 0 /\ n \in 1..MaxDepth
      /\ Exception!top = x /\ x \in TryStatements
  BY <1>1, TopOf
<1> PICK a : a = Exception!After(x)
  OBVIOUS
<1> PICK y : y = [x EXCEPT !.at = a, !.flag = "finalized"]
  OBVIOUS
<1>3. /\ ExceptionStack' = prevFrame[ExceptionStack]
      /\ tries' = [tries EXCEPT ![n].at = a, ![n].flag = "finalized"]
      /\ UNCHANGED <<prevFrame, departed, skipped, missed, astray>>
  BY <1>2 DEF Exception!EndBody, Exception!aux
<1>4. y \in TryStatements /\ y.at = a /\ y.flag = "finalized" /\ a \in {"finally", "end"}
  <2>1. a \in {"finally", "end"}
    BY <1>2, AfterOf
  <2>2. /\ [x EXCEPT !.at = a, !.flag = "finalized"] \in TryStatements
        /\ [x EXCEPT !.at = a, !.flag = "finalized"].at = a
        /\ [x EXCEPT !.at = a, !.flag = "finalized"].flag = "finalized"
    BY ONLY <1>2, <2>1, MovedOf
  <2> QED BY <2>1, <2>2
<1>5. tries' = [tries EXCEPT ![n] = y]
  BY <1>2, <1>3
<1>a. /\ tries' \in Seq(TryStatements) /\ Len(tries') = n /\ tries'[n] = y
      /\ \A i \in 1..n - 1 : tries'[i] = tries[i]
  <2>1. n \in 1..Len(tries)
    BY <1>2
  <2> QED BY ONLY <1>2, <1>4, <1>5, <2>1, n = Len(tries)
<1> PICK t : t = tries'
  OBVIOUS
<1>6. /\ t \in Seq(TryStatements) /\ Len(t) = n /\ t[n] = y
      /\ \A i \in 1..n - 1 : t[i] = tries[i]
  BY <1>a
<1>7. /\ BodiesOf(t) = BodiesOf(tries) \ {n} /\ (~departed => Landing(t))
  <2>1. t[Len(t)].at \notin {"body", "catch"} /\ t[Len(t)].flag # "thrown"
    BY <1>4, <1>6
  <2> QED BY <1>2, <1>6, <2>1, TopChanged
<1>8. n \in BodiesOf(tries) /\ \A i \in BodiesOf(tries) : i <= n
  BY <1>1, <1>2 DEF BodiesOf
<1>9. ExceptionStack # 0 /\ Reached(t, prevFrame[ExceptionStack], prevFrame)
  BY <1>2, <1>7, <1>8, StackNotNull DEF TryInv
<1>10. ExceptionStack' \in 0..MaxDepth
  BY <1>3, <1>9 DEF TryInv, TryTypes
<1>11. TryTypes'
  BY <1>2, <1>3, <1>6, <1>10 DEF TryInv, TryTypes
<1>12. ASSUME ~departed PROVE FramesOf(t, ExceptionStack', prevFrame)
  <2>1. FramesOf(tries, ExceptionStack, prevFrame)
    BY <1>12 DEF TryInv, Kept
  <2>2. BodiesOf(tries) \subseteq Nat \ {0}
    BY <1>2 DEF BodiesOf
  <2>3. GreatestOf(n, BodiesOf(tries))
    BY <1>8 DEF GreatestOf
  <2>4. ExceptionStack = n
    BY <2>1, <2>2, <2>3, GreatestUnique DEF FramesOf
  <2>5. BodiesOf(t) = {j \in BodiesOf(tries) : j < n}
    BY <1>2, <1>7, <1>8, <2>2
  <2>6. FramesOf(tries, n, prevFrame)
    BY <2>1, <2>4
  <2>7. FramesOf(t, prevFrame[n], prevFrame)
    BY ONLY <1>8, <2>5, <2>6, FramesPopped
  <2> QED BY <1>3, <2>4, <2>7
<1>13. Kept'
  BY <1>3, <1>7, <1>12 DEF TryInv, Kept
<1> QED BY <1>3, <1>9, <1>11, <1>13 DEF TryInv

LEMMA LandedOf ==
  ASSUME NEW x \in TryStatements, NEW e \in Exceptions \union {NoException},
         NEW due \in 0..MaxDepth
  PROVE  LET y == Exception!Landed(x, e, due)
         IN /\ y \in TryStatements /\ y.due = due /\ y.exception = e
            /\ y.at # "body"
            /\ y.at = "catch" => e \in x.catches
            /\ y.flag = "thrown" => e \notin x.catches
<1>1. Exception!After(x) \in {"finally", "end"}
  BY AfterOf
<1>2. \A fl \in {"handled", "thrown"}, a \in {"catch", "finally", "end"} :
        LET z == [x EXCEPT !.exception = e, !.due = due, !.flag = fl, !.at = a]
        IN /\ z \in TryStatements /\ z.due = due /\ z.exception = e /\ z.flag = fl /\ z.at = a
  BY DEF TryStatements
<1>3. CASE e \in x.catches
  <2>1. Exception!Landed(x, e, due) =
          [x EXCEPT !.exception = e, !.due = due, !.flag = "handled", !.at = "catch"]
    BY <1>3 DEF Exception!Landed
  <2> QED BY <1>2, <1>3, <2>1
<1>4. CASE e \notin x.catches
  <2> PICK a : a = Exception!After(x)
    OBVIOUS
  <2>1. Exception!Landed(x, e, due) =
          [x EXCEPT !.exception = e, !.due = due, !.flag = "thrown", !.at = a]
    BY <1>4 DEF Exception!Landed
  <2>2. a \in {"catch", "finally", "end"} /\ a \notin {"body", "catch"}
    BY <1>1
  <2> PICK z : z = [x EXCEPT !.exception = e, !.due = due, !.flag = "thrown", !.at = a]
    OBVIOUS
  <2>3. z \in TryStatements /\ z.due = due /\ z.exception = e /\ z.flag = "thrown" /\ z.at = a
    BY <1>2, <2>2
  <2> QED BY <1>4, <2>1, <2>2, <2>3
<1> QED BY <1>3, <1>4

\* A throw that jumps to the setjmp of statement f.
LEMMA JumpKept ==
  ASSUME TryInv, NEW e \in Exceptions \union {NoException}, NEW due \in 0..MaxDepth,
         ~departed => GreatestOf(due, Catching(tries, e)),
         ExceptionStack \in 1..Len(tries),
         ExceptionStack' = prevFrame[ExceptionStack],
         tries' = Append(SubSeq(tries, 1, ExceptionStack - 1),
                         Exception!Landed(tries[ExceptionStack], e, due)),
         skipped' = skipped \union
           {tries[i].at : i \in {j \in ExceptionStack + 1..Len(tries) :
                                   tries[j].finally /\ tries[j].at \in {"body", "catch"}}},
         UNCHANGED <<prevFrame, departed, missed, astray>>
  PROVE  TryInv'
<1> PICK f : f = ExceptionStack
  OBVIOUS
<1>1. /\ tries \in Seq(TryStatements) /\ Len(tries) \in Nat /\ Len(tries) <= MaxDepth
      /\ f \in 1..Len(tries) /\ f \in 1..MaxDepth /\ f - 1 \in Nat
      /\ prevFrame \in [1..MaxDepth -> 0..MaxDepth]
      /\ skipped \subseteq {"body", "catch"}
  BY DepthAssumption DEF TryInv, TryTypes
<1> PICK y : y = Exception!Landed(tries[f], e, due)
  OBVIOUS
<1>2. /\ y \in TryStatements /\ y.due = due /\ y.exception = e /\ y.at # "body"
      /\ y.at = "catch" => e \in tries[f].catches
      /\ y.flag = "thrown" => e \notin tries[f].catches
  <2>1. tries[f] \in TryStatements
    BY <1>1
  <2> QED BY <2>1, LandedOf
<1> PICK below : below = SubSeq(tries, 1, f - 1)
  OBVIOUS
<1>3. /\ below \in Seq(TryStatements) /\ Len(below) = f - 1
      /\ \A i \in 1..f - 1 : below[i] = tries[i]
  <2>1. \A i \in 1..f - 1 : tries[i] \in TryStatements
    BY <1>1
  <2>2. /\ SubSeq(tries, 1, f - 1) \in Seq(TryStatements)
        /\ Len(SubSeq(tries, 1, f - 1)) = IF 1 <= f - 1 THEN f - 1 - 1 + 1 ELSE 0
        /\ \A i \in 1..f - 1 - 1 + 1 : SubSeq(tries, 1, f - 1)[i] = tries[1 + i - 1]
    <3>1. 1 \in Int /\ f - 1 \in Int
      BY <1>1
    <3> QED BY ONLY <2>1, <3>1, SubSeqProperties
  <2>3. \A i \in 1..f - 1 : i \in 1..f - 1 - 1 + 1 /\ 1 + i - 1 = i
    BY <1>1
  <2> QED BY <1>1, <2>2, <2>3
<1> PICK t : t = tries'
  OBVIOUS
<1>4. t = Append(below, y)
  OBVIOUS
<1>5. /\ t \in Seq(TryStatements) /\ Len(t) = f /\ t[f] = y
      /\ \A i \in 1..f - 1 : t[i] = tries[i]
  BY <1>1, <1>2, <1>3, <1>4
<1>6. BodiesOf(t) = {j \in BodiesOf(tries) : j < f}
  <2>1. ASSUME NEW j \in Int
        PROVE  j \in BodiesOf(t) <=> j \in BodiesOf(tries) /\ j < f
    <3>1. CASE j \in 1..f - 1
      <4>1. j \in 1..Len(t) /\ j \in 1..Len(tries) /\ j < f /\ t[j] = tries[j]
        BY <1>1, <1>5, <3>1
      <4> QED BY <4>1 DEF BodiesOf
    <3>2. CASE j = f
      BY <1>1, <1>2, <1>5, <3>2 DEF BodiesOf
    <3>3. CASE j \notin 1..f
      <4>1. j \notin 1..Len(t) /\ ~(j \in 1..Len(tries) /\ j < f)
        BY <1>1, <1>5, <3>3
      <4> QED BY <4>1 DEF BodiesOf
    <3> QED BY <1>1, <3>1, <3>2, <3>3
  <2>2. BodiesOf(t) \subseteq Int /\ BodiesOf(tries) \subseteq Int
    BY DEF BodiesOf
  <2> QED BY <2>1, <2>2
<1>7. prevFrame[f] \in 0..MaxDepth
  BY <1>1
<1>8. Reached(t, prevFrame[f], prevFrame)
  <2>1. f # 0 /\ f \notin BodiesOf(t) /\ BodiesOf(t) \subseteq BodiesOf(tries)
    BY <1>1, <1>6
  <2> QED BY <2>1, ReachedPopped DEF TryInv
<1>9. skipped' \subseteq {"body", "catch"}
  BY <1>1
<1>10. TryTypes'
  BY <1>1, <1>5, <1>7, <1>9 DEF TryInv, TryTypes
<1>11. ASSUME ~departed
       PROVE  FramesOf(t, prevFrame[f], prevFrame) /\ Landing(t) /\ skipped' \subseteq {"catch"}
  <2>1. /\ FramesOf(tries, f, prevFrame) /\ Landing(tries) /\ skipped \subseteq {"catch"}
        /\ GreatestOf(due, Catching(tries, e))
    BY <1>11 DEF TryInv, Kept
  <2>2. f \in BodiesOf(tries) /\ \A i \in BodiesOf(tries) : i <= f
    BY <1>1, <2>1 DEF FramesOf, GreatestOf
  <2>3. FramesOf(t, prevFrame[f], prevFrame)
    BY <1>6, <2>1, <2>2, FramesPopped
  <2>4. Landing(t)
    <3>1. ASSUME NEW i \in 1..Len(t)
          PROVE  /\ t[i].at = "catch" => t[i].due = i
                 /\ t[i].flag = "thrown" =>
                      GreatestOf(t[i].due, {j \in Catching(t, t[i].exception) : j < i})
      <4>1. CASE i \in 1..f - 1
        <5> PICK m : m = f - 1
          OBVIOUS
        <5>1. /\ tries \in Seq(TryStatements) /\ t \in Seq(TryStatements) /\ Landing(tries)
              /\ m \in Nat /\ m <= Len(tries) /\ m <= Len(t) /\ i \in 1..m
              /\ \A j \in 1..m : t[j] = tries[j]
          BY <1>1, <1>5, <2>1, <4>1
        <5> QED BY ONLY <5>1, LandingBelow
      <4>2. CASE i = f
        <5>1. ASSUME y.at = "catch" PROVE due = f
          <6>1. f \in Catching(tries, e)
            BY <1>2, <2>2, <5>1 DEF Catching
          <6>2. GreatestOf(f, Catching(tries, e))
            BY <2>2, <6>1 DEF GreatestOf, Catching
          <6>3. Catching(tries, e) \subseteq Nat \ {0}
            BY DEF Catching, BodiesOf
          <6> QED BY <2>1, <6>2, <6>3, GreatestUnique
        <5>2. ASSUME y.flag = "thrown"
              PROVE  {j \in Catching(t, e) : j < f} = Catching(tries, e)
          <6>1. f \notin Catching(tries, e)
            BY <1>2, <5>2 DEF Catching
          <6>2. ASSUME NEW j \in 1..f - 1
                PROVE  j \in Catching(t, e) <=> j \in Catching(tries, e)
            <7>1. j \in 1..Len(t) /\ j \in 1..Len(tries) /\ t[j] = tries[j]
              BY <1>1, <1>5, <6>2
            <7> QED BY <7>1 DEF Catching, BodiesOf
          <6>3. \A j \in Catching(tries, e) : j \in 1..f - 1
            <7>1. \A j \in Catching(tries, e) : j \in BodiesOf(tries) /\ j # f /\ j \in 1..Len(tries)
              BY <6>1 DEF Catching, BodiesOf
            <7> QED BY <1>1, <2>2, <7>1
          <6>4. \A j \in Catching(t, e) : j < f => j \in 1..f - 1
            BY <1>1, <1>5 DEF Catching, BodiesOf
          <6>5. \A j \in 1..f - 1 : j < f
            BY <1>1
          <6> QED BY <6>2, <6>3, <6>4, <6>5
        <5>3. t[i] = y /\ y.due = due /\ y.exception = e
          BY <1>2, <1>5, <4>2
        <5>4. GreatestOf(due, Catching(tries, e))
          BY <2>1
        <5> QED BY <4>2, <5>1, <5>2, <5>3, <5>4
      <4>3. i \in 1..f - 1 \/ i = f
        BY <1>1, <1>5
      <4> QED BY <4>1, <4>2, <4>3
    <3> QED BY <3>1 DEF Landing
  <2>5. \A j \in f + 1..Len(tries) : tries[j].at # "body"
    <3> TAKE j \in f + 1..Len(tries)
    <3>1. j \in 1..Len(tries) /\ ~(j <= f)
      BY <1>1
    <3> QED BY <2>2, <3>1 DEF BodiesOf
  <2>6. skipped' \subseteq {"catch"}
    BY <2>1, <2>5
  <2> QED BY <2>3, <2>4, <2>6
<1>12. Kept'
  BY <1>11 DEF TryInv, Kept
<1> QED BY <1>8, <1>10, <1>12 DEF TryInv

\* A throw, with the statements s that are left when there is no frame.
LEMMA ThrowKept ==
  ASSUME TryInv, NEW e \in Exceptions \union {NoException}, NEW due \in 0..MaxDepth,
         ~departed => GreatestOf(due, Catching(tries, e)),
         NEW s \in Seq(TryStatements), Len(s) <= MaxDepth, BodiesOf(s) = BodiesOf(tries),
         ~departed => Landing(s), Exception!ntyExceptionThrow(e, due, s)
  PROVE  TryInv'
<1>1. CASE /\ ExceptionStack = 0
           /\ tries' = s /\ missed' = (missed \/ due # 0)
           /\ UNCHANGED <<ExceptionStack, prevFrame, departed, skipped, astray>>
  <2>1. ASSUME ~departed PROVE due = 0
    <3>1. FramesOf(tries, 0, prevFrame)
      BY <1>1, <2>1 DEF TryInv, Kept
    <3>2. BodiesOf(tries) = {}
      BY <3>1 DEF FramesOf, GreatestOf, BodiesOf
    <3>3. Catching(tries, e) = {} /\ GreatestOf(due, Catching(tries, e))
      BY <2>1, <3>2 DEF Catching
    <3> QED BY <3>3 DEF GreatestOf
  <2>2. TryTypes'
    BY <1>1 DEF TryInv, TryTypes
  <2>3. ~departed => FramesOf(s, ExceptionStack, prevFrame)
    BY FramesSame DEF TryInv, Kept
  <2>4. Kept'
    BY <1>1, <2>1, <2>3 DEF TryInv, Kept
  <2>5. Reached(s, ExceptionStack, prevFrame)
    BY ReachedFewer DEF TryInv
  <2> QED BY <1>1, <2>2, <2>4, <2>5 DEF TryInv
<1>2. CASE ExceptionStack \in 1..Len(tries)
  <2>1. ExceptionStack # 0 /\ ~(ExceptionStack > Len(tries))
    BY <1>2 DEF TryInv, TryTypes
  <2>2. /\ ExceptionStack' = prevFrame[ExceptionStack]
        /\ tries' = Append(SubSeq(tries, 1, ExceptionStack - 1),
                           Exception!Landed(tries[ExceptionStack], e, due))
        /\ skipped' = skipped \union
             {tries[i].at : i \in {j \in ExceptionStack + 1..Len(tries) :
                                     tries[j].finally /\ tries[j].at \in {"body", "catch"}}}
        /\ UNCHANGED <<prevFrame, departed, missed, astray>>
    BY <2>1 DEF Exception!ntyExceptionThrow
  <2> QED BY <1>2, <2>2, JumpKept
<1>3. CASE /\ ExceptionStack > Len(tries) /\ astray' = TRUE
           /\ UNCHANGED <<tries, ExceptionStack, prevFrame, departed, skipped, missed>>
  <2>1. departed
    <3>1. ASSUME ~departed PROVE FALSE
      <4>1. GreatestOf(ExceptionStack, BodiesOf(tries)) /\ Len(tries) \in Nat
        BY <3>1 DEF TryInv, TryTypes, Kept, FramesOf
      <4> QED BY <1>3, <4>1 DEF GreatestOf, BodiesOf
    <3> QED BY <3>1
  <2>2. TryTypes'
    BY <1>3 DEF TryInv, TryTypes
  <2>3. Kept'
    BY <1>3, <2>1 DEF Kept
  <2> QED BY <1>3, <2>2, <2>3 DEF TryInv
<1> QED BY <1>1, <1>2, <1>3 DEF Exception!ntyExceptionThrow

LEMMA DueOf ==
  ASSUME TryInv, NEW e
  PROVE  Exception!Due(e) \in 0..MaxDepth /\ GreatestOf(Exception!Due(e), Catching(tries, e))
<1>1. Len(tries) \in Nat /\ Len(tries) <= MaxDepth /\ DOMAIN tries = 1..Len(tries)
  BY DEF TryInv, TryTypes
<1>2. {i \in DOMAIN tries : tries[i].at = "body" /\ e \in tries[i].catches} = Catching(tries, e)
  BY <1>1 DEF Catching, BodiesOf
<1>3. Exception!Due(e) = IF Catching(tries, e) = {} THEN 0 ELSE Exception!Max(Catching(tries, e))
  BY <1>2 DEF Exception!Due
<1>4. Catching(tries, e) \subseteq 1..Len(tries)
  BY DEF Catching, BodiesOf
<1>5. GreatestOf(Exception!Due(e), Catching(tries, e))
  BY <1>1, <1>3, <1>4, MaxOf
<1>6. Exception!Due(e) \in 0..MaxDepth
  <2>1. Exception!Due(e) = 0 \/ Exception!Due(e) \in 1..Len(tries)
    BY <1>4, <1>5 DEF GreatestOf
  <2> QED BY <1>1, <2>1, DepthAssumption
<1> QED BY <1>5, <1>6

LEMMA LeaveKept ==
  ASSUME TryInv, Exception!Leave PROVE TryInv'
<1> PICK n : n = Len(tries)
  OBVIOUS
<1> PICK x : x = tries[n]
  OBVIOUS
<1> PICK t : t = Exception!Front(tries)
  OBVIOUS
<1>1. /\ tries \in Seq(TryStatements) /\ n \in 1..MaxDepth /\ x \in TryStatements
      /\ Exception!top = x /\ t \in Seq(TryStatements) /\ Len(t) = n - 1
      /\ \A i \in 1..n - 1 : t[i] = tries[i]
  BY TopOf DEF Exception!Leave
<1>2. /\ tries' = t /\ departed' = (departed \/ x.at = "body")
      /\ skipped' = IF x.finally /\ x.at # "finally" THEN skipped \union {x.at} ELSE skipped
      /\ UNCHANGED <<ExceptionStack, prevFrame, missed, astray>>
      /\ x.at \in {"body", "catch", "finally"}
  BY <1>1 DEF Exception!Leave, Exception!InBlock
<1>3. CASE x.at = "body"
  <2>1. BodiesOf(t) \subseteq BodiesOf(tries)
    BY <1>1 DEF BodiesOf
  <2>2. Reached(t, ExceptionStack, prevFrame)
    BY <2>1, ReachedFewer DEF TryInv
  <2>3. skipped' \subseteq {"body", "catch"} /\ departed' = TRUE
    BY <1>2, <1>3 DEF TryInv, TryTypes
  <2>4. Len(t) <= MaxDepth
    BY <1>1, DepthAssumption
  <2>5. TryTypes'
    BY <1>1, <1>2, <2>3, <2>4 DEF TryInv, TryTypes
  <2> QED BY <1>2, <2>2, <2>3, <2>5 DEF TryInv, Kept
<1>4. CASE x.at # "body"
  <2>1. departed' = departed
    BY <1>2, <1>4 DEF TryInv, TryTypes
  <2>2. skipped' = skipped \/ (skipped' = skipped \union {x.at} /\ x.at = "catch")
    BY <1>2, <1>4
  <2>3. Len(tries') = n - 1 /\ n > 0 /\ Len(tries') # n
    BY <1>1, <1>2
  <2> QED BY <1>1, <1>2, <1>4, <2>1, <2>2, <2>3, NoBodyKept
<1> QED BY <1>3, <1>4

LEMMA EndTryKept ==
  ASSUME TryInv, Exception!EndTry PROVE TryInv'
<1> PICK n : n = Len(tries)
  OBVIOUS
<1>1. /\ tries # <<>> /\ tries' = Exception!Front(tries) /\ tries[n].at = "end"
      /\ UNCHANGED <<ExceptionStack, prevFrame, departed, missed, astray, skipped>>
  BY DEF Exception!EndTry, Exception!At, Exception!top, Exception!Last, Exception!aux
<1>2. /\ tries \in Seq(TryStatements) /\ n \in 1..MaxDepth
      /\ Exception!Front(tries) \in Seq(TryStatements) /\ Len(Exception!Front(tries)) = n - 1
      /\ \A i \in 1..n - 1 : Exception!Front(tries)[i] = tries[i]
  BY <1>1, TopOf
<1>3. Len(tries') = n - 1 /\ n > 0 /\ Len(tries') # n
  BY <1>1, <1>2
<1> QED BY <1>1, <1>2, <1>3, NoBodyKept

LEMMA ReThrowKept ==
  ASSUME TryInv, Exception!ReThrow PROVE TryInv'
<1> PICK n : n = Len(tries)
  OBVIOUS
<1> PICK x : x = tries[n]
  OBVIOUS
<1> PICK t : t = Exception!Front(tries)
  OBVIOUS
<1>1. /\ tries # <<>> /\ x.at = "end" /\ x.flag = "thrown"
      /\ Exception!ntyExceptionThrow(x.exception, x.due, t)
  BY DEF Exception!ReThrow, Exception!At, Exception!top, Exception!Last
<1>2. /\ tries \in Seq(TryStatements) /\ n \in 1..MaxDepth /\ x \in TryStatements
      /\ t \in Seq(TryStatements) /\ Len(t) = n - 1
      /\ \A i \in 1..n - 1 : t[i] = tries[i]
  BY <1>1, TopOf
<1>3. n > 0 /\ Len(t) # Len(tries) /\ tries[Len(tries)].at # "body"
  BY <1>1, <1>2
<1>4. /\ BodiesOf(t) = BodiesOf(tries) /\ Len(t) <= MaxDepth /\ (~departed => Landing(t))
  BY <1>2, <1>3, NoBodyEnds
<1>5. x.exception \in Exceptions \union {NoException} /\ x.due \in 0..MaxDepth
  BY <1>2 DEF TryStatements
<1>6. ASSUME ~departed PROVE GreatestOf(x.due, Catching(tries, x.exception))
  <2>1. GreatestOf(x.due, {j \in Catching(tries, x.exception) : j < n})
    <3>1. n \in 1..Len(tries) /\ Landing(tries)
      BY <1>2, <1>6 DEF TryInv, Kept
    <3> QED BY <1>1, <3>1 DEF Landing
  <2>2. \A j \in Catching(tries, x.exception) : j < n
    <3>1. \A j \in Catching(tries, x.exception) : j \in 1..n /\ j # n
      BY <1>3 DEF Catching, BodiesOf
    <3> QED BY <1>2, <3>1
  <2>3. {j \in Catching(tries, x.exception) : j < n} = Catching(tries, x.exception)
    BY <2>2
  <2> QED BY <2>1, <2>3
<1> QED BY <1>1, <1>2, <1>4, <1>5, <1>6, ThrowKept

LEMMA TryStep ==
  ASSUME TryInv, Exception!Next PROVE TryInv'
<1>1. ASSUME NEW catches \in CatchLists, NEW finally \in BOOLEAN,
             Exception!Try(catches, finally)
      PROVE  TryInv'
  BY <1>1, TryKept
<1>2. CASE Exception!EndBody
  BY <1>2, EndBodyKept
<1>3. CASE Exception!EndCatch
  <2>1. /\ tries # <<>> /\ tries[Len(tries)].at # "body" /\ Exception!top = tries[Len(tries)]
    BY <1>3 DEF Exception!EndCatch, Exception!At, Exception!top, Exception!Last
  <2>2. Exception!After(tries[Len(tries)]) \in {"finally", "end"}
    BY <2>1, TopOf, AfterOf
  <2> QED BY <1>3, <2>1, <2>2, MoveKept DEF Exception!EndCatch, Exception!aux
<1>4. CASE Exception!EndFinally
  <2>1. tries # <<>> /\ tries[Len(tries)].at # "body"
    BY <1>4 DEF Exception!EndFinally, Exception!At, Exception!top, Exception!Last
  <2> QED BY <1>4, <2>1, MoveKept DEF Exception!EndFinally, Exception!aux
<1>5. CASE Exception!EndTry
  BY <1>5, EndTryKept
<1>6. CASE Exception!ReThrow
  BY <1>6, ReThrowKept
<1>7. CASE Exception!Leave
  BY <1>7, LeaveKept
<1>8. ASSUME NEW e \in Exceptions, Exception!Throw(e) PROVE TryInv'
  <2>1. Exception!ntyExceptionThrow(e, Exception!Due(e), tries)
    BY <1>8 DEF Exception!Throw
  <2>2. Exception!Due(e) \in 0..MaxDepth /\ GreatestOf(Exception!Due(e), Catching(tries, e))
    BY DueOf
  <2>3. /\ tries \in Seq(TryStatements) /\ Len(tries) <= MaxDepth
        /\ ~departed => Landing(tries)
    BY DEF TryInv, TryTypes, Kept
  <2>4. e \in Exceptions \union {NoException}
    OBVIOUS
  <2> QED BY <2>1, <2>2, <2>3, <2>4, ThrowKept
<1> QED BY <1>1, <1>2, <1>3, <1>4, <1>5, <1>6, <1>7, <1>8 DEF Exception!Next

\* What it says of the exceptions.
LEMMA TrySafe ==
  TryInv => Exception!TypeOK /\ Exception!CaughtByInnermost /\ Exception!FinallyRuns
<1> SUFFICES ASSUME TryInv
             PROVE  Exception!TypeOK /\ Exception!CaughtByInnermost /\ Exception!FinallyRuns
  OBVIOUS
<1>1. /\ tries \in Seq(TryStatements) /\ Len(tries) \in Nat /\ DOMAIN tries = 1..Len(tries)
      /\ \A i \in 1..Len(tries) : tries[i] \in TryStatements
  BY DEF TryInv, TryTypes
<1>2. Exception!TypeOK
  <2>1. \A x \in TryStatements :
          /\ x.at \in {"body", "catch", "finally", "end"}
          /\ x.flag \in {"entered", "thrown", "handled", "finalized"}
          /\ x.exception \in Exceptions \union {NoException}
          /\ x.due \in 0..MaxDepth
    BY DEF TryStatements
  <2> QED BY <1>1, <2>1 DEF TryInv, TryTypes, Exception!TypeOK
<1>3. Exception!FinallyRuns
  BY DEF TryInv, Kept, Exception!FinallyRuns
<1>4. ASSUME ~departed
      PROVE  LET bodies == {i \in DOMAIN tries : tries[i].at = "body"}
             IN /\ \A i \in DOMAIN tries : tries[i].at = "catch" => tries[i].due = i
                /\ \A i \in DOMAIN tries : tries[i].flag = "thrown" => tries[i].due # i
                /\ ~missed /\ ~astray
                /\ ExceptionStack = (IF bodies = {} THEN 0 ELSE Exception!Max(bodies))
                /\ \A i \in bodies :
                     prevFrame[i] = (IF bodies \intersect 1..i - 1 = {} THEN 0
                                     ELSE Exception!Max(bodies \intersect 1..i - 1))
  <2>1. FramesOf(tries, ExceptionStack, prevFrame) /\ Landing(tries) /\ ~missed /\ ~astray
    BY <1>4 DEF TryInv, Kept
  <2>2. BodiesOf(tries) = {i \in DOMAIN tries : tries[i].at = "body"}
    BY <1>1 DEF BodiesOf
  <2>3. BodiesOf(tries) \subseteq 1..Len(tries) /\ BodiesOf(tries) \subseteq Nat \ {0}
    BY <1>1 DEF BodiesOf
  <2>4. \A i \in 1..Len(tries) : tries[i].flag = "thrown" => tries[i].due # i
    <3> TAKE i \in 1..Len(tries)
    <3> HAVE tries[i].flag = "thrown"
    <3>1. GreatestOf(tries[i].due, {j \in Catching(tries, tries[i].exception) : j < i})
      BY <2>1 DEF Landing
    <3> QED BY <3>1 DEF GreatestOf
  <2>5. ExceptionStack = (IF BodiesOf(tries) = {} THEN 0 ELSE Exception!Max(BodiesOf(tries)))
    <3>1. GreatestOf(IF BodiesOf(tries) = {} THEN 0 ELSE Exception!Max(BodiesOf(tries)),
                     BodiesOf(tries))
      BY <1>1, <2>3, MaxOf
    <3> QED BY <2>1, <2>3, <3>1, GreatestUnique DEF FramesOf
  <2>6. ASSUME NEW i \in BodiesOf(tries)
        PROVE  prevFrame[i] = (IF BodiesOf(tries) \intersect 1..i - 1 = {} THEN 0
                               ELSE Exception!Max(BodiesOf(tries) \intersect 1..i - 1))
    <3> PICK S : S = BodiesOf(tries) \intersect 1..i - 1
      OBVIOUS
    <3>1. S = {j \in BodiesOf(tries) : j < i}
      BY <2>3
    <3>2. S \subseteq 1..Len(tries) /\ S \subseteq Nat \ {0}
      BY <2>3, <3>1
    <3>3. GreatestOf(IF S = {} THEN 0 ELSE Exception!Max(S), S)
      BY <1>1, <3>2, MaxOf
    <3>4. GreatestOf(prevFrame[i], S)
      BY <2>1, <3>1 DEF FramesOf
    <3> QED BY <3>2, <3>3, <3>4, GreatestUnique
  <2> QED BY <1>1, <2>1, <2>2, <2>4, <2>5, <2>6 DEF Landing
<1>5. Exception!CaughtByInnermost
  BY <1>4 DEF Exception!CaughtByInnermost
<1> QED BY <1>2, <1>3, <1>5
=============================================================================
