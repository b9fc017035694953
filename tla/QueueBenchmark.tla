--------------------------- MODULE QueueBenchmark ---------------------------
(***************************************************************************)
(* cas_queue/4_test_lock_free_queue.cpp: main compares the repository's queues *)
(* one after the other.  Producers push a fixed number of items each, consumers *)
(* pop until s_count_pop says that all are taken, main joins them all, prints   *)
(* the rate and resets the counts.  The queues are what their own modules show  *)
(* them to be, a FIFO (ypipe: of what is flushed); the test of ypipe with a      *)
(* condition variable is in YPipe.  Dequeue's 30 ms wait (BlockQueue) is a delay *)
(* like any other: it ends with or without a notification, and nobody aborts it. *)
(*                                                                         *)
(* The counters of 2_test_i++_threads.c and 3_test_mutex_spin_lock.cpp: main    *)
(* runs the threads of one test after the other, each test with its own lock,    *)
(* joins them, prints the counter and resets it.  counter++ is a load and a       *)
(* store; lxx_atomic_add adds in one step and then loads again.                    *)
(***************************************************************************)
EXTENDS Integers, Sequences, FiniteSets

CONSTANTS
  Arguments,   \* of main: <<producers, consumers, items per producer>>
  Q_SIZE,      \* items the array queue holds
  Batch,       \* 10 in the code: items between two flushes of the batch test
  Threads,     \* of a test of the counters
  FOR_LOOP_COUNT

VARIABLES
  arguments,
  round,         \* which test runs
  queue, flushed,        \* the queue under test; how much of a ypipe can be read
  s_count_push, s_count_pop,
  producer,      \* [at, i, count] of each
  consumer,      \* where each is
  taken,         \* auxiliary: the values popped in this round
  outcome,
  \* The counters:
  test,     \* index of the running test, or beyond the last
  counter,
  held,     \* the lock of the running test is held
  thread,   \* thread -> [at, i, value]; value: its register
  printed   \* what main printed
vars == <<arguments, round, queue, flushed, s_count_push, s_count_pop, producer,
          consumer, taken, outcome>>
counterVars == <<test, counter, held, thread, printed>>

s_producer_thread_num == arguments[1]
s_consumer_thread_num == arguments[2]
s_queue_item_num == arguments[3]
Tests == <<"mutex", "block", "lockfree", "array", "ypipe", "batch">>
kind == Tests[round]
LastRound == IF s_producer_thread_num = 1 /\ s_consumer_thread_num = 1 THEN 6 ELSE 4

\* The batch producer writes whole batches only.
Items(k) == IF k = "batch" THEN s_queue_item_num - (s_queue_item_num % Batch)
            ELSE s_queue_item_num
AllItems == s_queue_item_num * s_producer_thread_num

\* The loop of a producer: two of them number an item before they push it, the
\* others push the number of the previous one.
Loop(k, i) == IF i = Items(k) THEN "done"
              ELSE IF k \in {"block", "lockfree"} THEN "add" ELSE "enqueue"
NewProducers(k) == [p \in 1..s_producer_thread_num |->
                      [at |-> Loop(k, 0), i |-> 0, count |-> 0]]
NewConsumers == [c \in 1..s_consumer_thread_num |-> "dequeue"]

Init == /\ arguments \in Arguments
        /\ round = 1 /\ queue = <<>> /\ flushed = 0
        /\ s_count_push = 0 /\ s_count_pop = 0
        /\ producer = NewProducers(kind) /\ consumer = NewConsumers
        /\ taken = <<>> /\ outcome = "running"

kept == <<arguments, round, outcome>>

-----------------------------------------------------------------------------
\* Producers.
\* mutexqueue: number and push under s_mutex.
MutexPush(p) ==
  /\ kind = "mutex" /\ producer[p].at = "enqueue"
  /\ queue' = Append(queue, s_count_push)
  /\ s_count_push' = s_count_push + 1
  /\ producer' = [producer EXCEPT ![p].i = @ + 1, ![p].at = Loop(kind, producer[p].i + 1)]
  /\ UNCHANGED <<kept, flushed, s_count_pop, consumer, taken>>

\* lxx_atomic_add: the addition is atomic, but what it returns is read afterwards.
AddPush(p) ==
  /\ producer[p].at = "add"
  /\ s_count_push' = s_count_push + 1
  /\ producer' = [producer EXCEPT ![p].at = "read"]
  /\ UNCHANGED <<kept, queue, flushed, s_count_pop, consumer, taken>>
ReadPush(p) ==
  LET i == producer[p].i IN
  /\ producer[p].at = "read"
  /\ producer' = [producer EXCEPT
       ![p].count = s_count_push,
       ![p].at = CASE kind \in {"block", "lockfree"} -> "enqueue"
                   [] kind = "array" -> Loop(kind, i)
                   [] kind = "batch" /\ i % Batch # 0 -> "enqueue"
                   [] OTHER -> "flush"]
  /\ UNCHANGED <<kept, queue, flushed, s_count_push, s_count_pop, consumer, taken>>

\* A full array queue refuses the item, and the producer tries again.
Enqueue(p) ==
  LET i == producer[p].i + 1 IN
  /\ kind # "mutex" /\ producer[p].at = "enqueue"
  /\ kind = "array" => Len(queue) < Q_SIZE
  /\ queue' = Append(queue, producer[p].count)
  /\ producer' = [producer EXCEPT
       ![p].i = i,
       ![p].at = IF kind \in {"block", "lockfree"} THEN Loop(kind, i) ELSE "add"]
  /\ UNCHANGED <<kept, flushed, s_count_push, s_count_pop, consumer, taken>>

Flush(p) ==
  /\ producer[p].at = "flush"
  /\ flushed' = Len(queue)
  /\ producer' = [producer EXCEPT ![p].at = Loop(kind, producer[p].i)]
  /\ UNCHANGED <<kept, queue, s_count_push, s_count_pop, consumer, taken>>

Producer(p) == MutexPush(p) \/ AddPush(p) \/ ReadPush(p) \/ Enqueue(p) \/ Flush(p)

-----------------------------------------------------------------------------
\* Consumers.
Readable == IF kind \in {"ypipe", "batch"} THEN flushed ELSE Len(queue)

\* mutexqueue counts the item under s_mutex, the others afterwards.
Dequeue(c) ==
  /\ consumer[c] = "dequeue" /\ Readable > 0
  /\ queue' = Tail(queue) /\ taken' = Append(taken, Head(queue))
  /\ flushed' = IF flushed > 0 THEN flushed - 1 ELSE 0
  /\ s_count_pop' = IF kind = "mutex" THEN s_count_pop + 1 ELSE s_count_pop
  /\ consumer' = [consumer EXCEPT ![c] = IF kind = "mutex" THEN "check" ELSE "add"]
  /\ UNCHANGED <<kept, s_count_push, producer>>
NoData(c) ==
  /\ consumer[c] = "dequeue" /\ Readable = 0
  /\ consumer' = [consumer EXCEPT ![c] = "check"]
  /\ UNCHANGED <<kept, queue, flushed, s_count_push, s_count_pop, producer, taken>>
AddPop(c) ==
  /\ consumer[c] = "add"
  /\ s_count_pop' = s_count_pop + 1
  /\ consumer' = [consumer EXCEPT ![c] = "check"]
  /\ UNCHANGED <<kept, queue, flushed, s_count_push, producer, taken>>
\* Read without a lock, in all the tests.
Check(c) ==
  /\ consumer[c] = "check"
  /\ consumer' = [consumer EXCEPT ![c] = IF s_count_pop >= AllItems THEN "done"
                                         ELSE "dequeue"]
  /\ UNCHANGED <<kept, queue, flushed, s_count_push, s_count_pop, producer, taken>>

Consumer(c) == Dequeue(c) \/ NoData(c) \/ AddPop(c) \/ Check(c)

-----------------------------------------------------------------------------
\* test_queue joins the threads and divides by the milliseconds they took, which may
\* be none; main then resets the counts for the next test.
Joined == /\ \A p \in DOMAIN producer : producer[p].at = "done"
          /\ \A c \in DOMAIN consumer : consumer[c] = "done"
DivideByZero ==
  /\ outcome = "running" /\ Joined
  /\ outcome' = "crashed"
  /\ UNCHANGED <<arguments, round, queue, flushed, s_count_push, s_count_pop, producer,
                 consumer, taken>>
Finish ==
  /\ outcome = "running" /\ Joined /\ round = LastRound
  /\ outcome' = "finished"
  /\ UNCHANGED <<arguments, round, queue, flushed, s_count_push, s_count_pop, producer,
                 consumer, taken>>
NextTest ==
  /\ outcome = "running" /\ Joined /\ round < LastRound
  /\ round' = round + 1
  /\ s_count_push' = 0 /\ s_count_pop' = 0 /\ taken' = <<>>
  /\ producer' = NewProducers(Tests[round + 1]) /\ consumer' = NewConsumers
  /\ UNCHANGED <<arguments, queue, flushed, outcome>>

Main == DivideByZero \/ Finish \/ NextTest

Next == \/ \E p \in DOMAIN producer : Producer(p)
        \/ \E c \in DOMAIN consumer : Consumer(c)
        \/ Main

-----------------------------------------------------------------------------
(* The counters.                                                             *)

Locks == <<"mutex", "atomic", "spin", "atomic_flag">>
Fresh == [t \in Threads |-> [at |-> "loop", i |-> 0, value |-> 0]]
Running == test \in DOMAIN Locks

CounterInit == /\ test = 1 /\ counter = 0 /\ held = FALSE /\ thread = Fresh
               /\ printed = <<>>

At(t, place) == Running /\ thread[t].at = place
Goes(t, place) == thread' = [thread EXCEPT ![t].at = place]
Looping(t) == At(t, "loop") /\ thread[t].i < FOR_LOOP_COUNT

\* lock: sleeps or spins until the lock is free.  The mutex test counts nothing.
Lock(t) == /\ Looping(t) /\ Locks[test] # "atomic" /\ ~held
           /\ held' = TRUE
           /\ Goes(t, IF Locks[test] = "mutex" THEN "unlock" ELSE "load")
           /\ UNCHANGED <<test, counter, printed>>

Load(t) == /\ At(t, "load")
           /\ thread' = [thread EXCEPT ![t].at = "store", ![t].value = counter]
           /\ UNCHANGED <<test, counter, held, printed>>

Store(t) == /\ At(t, "store")
            /\ counter' = thread[t].value + 1
            /\ Goes(t, "unlock")
            /\ UNCHANGED <<test, held, printed>>

Unlock(t) == /\ At(t, "unlock")
             /\ held' = FALSE
             /\ thread' = [thread EXCEPT ![t].at = "loop", ![t].i = @ + 1]
             /\ UNCHANGED <<test, counter, printed>>

\* lxx_atomic_add: the locked xadd, and then the load of what it returns.
Xadd(t) == /\ Looping(t) /\ Locks[test] = "atomic"
           /\ counter' = counter + 1
           /\ Goes(t, "reload")
           /\ UNCHANGED <<test, held, printed>>
Reload(t) == /\ At(t, "reload")
             /\ thread' = [thread EXCEPT ![t].at = "loop", ![t].i = @ + 1, ![t].value = counter]
             /\ UNCHANGED <<test, counter, held, printed>>

Thread(t) == Lock(t) \/ Load(t) \/ Store(t) \/ Unlock(t) \/ Xadd(t) \/ Reload(t)

\* main: test_lock joins the threads; the counter is printed, and 0 for the next test.
Join == /\ Running
        /\ \A t \in Threads : thread[t].at = "loop" /\ thread[t].i = FOR_LOOP_COUNT
        /\ printed' = Append(printed, counter)
        /\ test' = test + 1 /\ counter' = 0 /\ thread' = Fresh
        /\ UNCHANGED held

CounterNext == Join \/ \E t \in Threads : Thread(t)

-----------------------------------------------------------------------------
\* The types of the benchmark.
TypeOK == /\ arguments \in Arguments /\ round \in 1..LastRound
          /\ queue \in Seq(0..AllItems) /\ flushed \in 0..Len(queue)
          /\ s_count_push \in 0..AllItems /\ s_count_pop \in 0..AllItems
          /\ \A p \in DOMAIN producer :
               producer[p] \in [at : {"add", "read", "enqueue", "flush", "done"},
                                i : 0..s_queue_item_num, count : 0..AllItems]
          /\ \A c \in DOMAIN consumer :
               consumer[c] \in {"dequeue", "add", "check", "done"}
          /\ outcome \in {"running", "crashed", "finished"}

\* No consumer leaves while an item is still to come, and a test ends with as many
\* items popped as pushed and the queue empty for the next one (the loops of
\* 4_test_lock_free_queue.cpp).
LeavesAfterLast ==
  /\ (\E c \in DOMAIN consumer : consumer[c] = "done") => Len(taken) = AllItems
  /\ Joined => queue = <<>> /\ s_count_push = AllItems /\ s_count_pop = AllItems

\* The items come out in the order of their numbers, each number once, when they are
\* numbered under the lock or by one producer (the comparison with last_value + 1).
\* With several producers lxx_atomic_add gives a number twice, and the array
\* queue's producers all begin with 0.
NumbersInOrder ==
  LET all == taken \o queue
      base == IF kind \in {"block", "lockfree"} THEN 1 ELSE 0
  IN (kind = "mutex" \/ s_producer_thread_num = 1) =>
       \A k \in DOMAIN all : all[k] = base + k - 1

\* The benchmark is over, or waits for ever for the rest of an incomplete batch.
BenchmarkEnded == \/ outcome # "running"
                  \/ kind = "batch" /\ Items(kind) # s_queue_item_num

\* The registers hold counts, and only a thread between lock and unlock holds the lock.
CounterTypeOK ==
  /\ test \in 1..Len(Locks) + 1 /\ counter \in 0..Cardinality(Threads) * FOR_LOOP_COUNT
  /\ held <=> \E t \in Threads : thread[t].at \in {"load", "store", "unlock"}

\* Each test of the counters prints as many increments as its threads made ("expected" of
\* 2_test_i++_threads.c): none is lost to an interleaving.  The mutex test makes none.
CountsExact == \A k \in DOMAIN printed :
  printed[k] = IF Locks[k] = "mutex" THEN 0 ELSE Cardinality(Threads) * FOR_LOOP_COUNT

\* The tests of the counters end, although neither lock is fair: the loops of the others do.
TestsEnd == ~Running
=============================================================================
