------------------------------- MODULE LogThreads -------------------------------
(***************************************************************************)
(* The threads of muduo_log (Thread.cc) and what they synchronise with: MutexLock  *)
(* with the holder it remembers, Condition, CountDownLatch and BlockingQueue.      *)
(* The main thread starts a thread for each member of Threads, puts items in a      *)
(* queue, and joins a thread or destroys its Thread object, which detaches it; each  *)
(* thread takes its share of the items and ends.                              *)
(*                                                                         *)
(* A critical section is one action where nobody can tell; the latch, which dies   *)
(* with its Thread as soon as start has returned, has all of its steps.          *)
(***************************************************************************)
EXTENDS Naturals, Sequences, FiniteSets

CONSTANTS Threads, Share     \* every thread takes Share items

Main == 0
Nobody == 100
Items == Cardinality(Threads) * Share

VARIABLES
  object,        \* the Thread of each thread: "none", "made", "started", "joined" or
                 \* "destroyed"
  tid_, count_,  \* of each Thread: tid_, and the count of its latch
  holder_,       \* the holder that each latch's mutex remembers; Nobody for 0
  owner,         \* who has the mutex in truth
  asleep,        \* main waits on the condition of this latch, or Nobody
  main,          \* <<where, thread>>
  runner,        \* where each thread is
  queue_, sleepers, \* the queue, and who waits on notEmpty_
  put, taken,    \* items put; history: the items each thread has taken
  order,         \* history: all the items taken, in order
  aborted        \* the process, by a failed assertion or pthread_create

latches == <<tid_, count_, holder_, owner, asleep>>
queue == <<queue_, sleepers, put, taken, order>>
vars == <<object, latches, main, runner, queue, aborted>>

Init == /\ object = [t \in Threads |-> "none"]
        /\ tid_ = [t \in Threads |-> 0] /\ count_ = [t \in Threads |-> 1]
        /\ holder_ = [t \in Threads |-> Nobody] /\ owner = [t \in Threads |-> Nobody]
        /\ asleep = Nobody /\ main = <<"choose", Nobody>>
        /\ runner = [t \in Threads |-> "none"]
        /\ queue_ = <<>> /\ sleepers = {} /\ put = 0
        /\ taken = [t \in Threads |-> <<>>] /\ order = <<>> /\ aborted = FALSE

-----------------------------------------------------------------------------
\* MutexLock::lock and unlock of a latch, with the holder.
Lock(t, who) == /\ owner[t] = Nobody
                /\ owner' = [owner EXCEPT ![t] = who] /\ holder_' = [holder_ EXCEPT ![t] = who]
Unlock(t) == /\ owner' = [owner EXCEPT ![t] = Nobody]
             /\ holder_' = [holder_ EXCEPT ![t] = Nobody]

\* Thread::Thread and start: pthread_create may fail, which is fatal.
Start(t) ==
  /\ main[1] = "choose" /\ object[t] = "none"
  /\ \/ /\ object' = [object EXCEPT ![t] = "started"]
        /\ runner' = [runner EXCEPT ![t] = "tid"] /\ main' = <<"latch", t>> /\ UNCHANGED aborted
     \/ /\ object' = [object EXCEPT ![t] = "made"] /\ aborted' = TRUE /\ UNCHANGED <<runner, main>>
  /\ UNCHANGED <<latches, queue>>

\* CountDownLatch::wait: with the mutex, while the count is positive, Condition::wait,
\* in which the mutex has no holder.
EnterLatch == /\ main[1] = "latch" /\ asleep = Nobody /\ Lock(main[2], Main)
              /\ main' = <<"count", main[2]>>
              /\ UNCHANGED <<object, tid_, count_, asleep, runner, queue, aborted>>
CheckCount == /\ main[1] = "count" /\ Unlock(main[2])
              /\ IF count_[main[2]] > 0 THEN main' = <<"latch", main[2]>> /\ asleep' = main[2]
                 ELSE main' = <<"assert", main[2]>> /\ UNCHANGED asleep
              /\ UNCHANGED <<object, tid_, count_, runner, queue, aborted>>
Spurious == /\ asleep # Nobody /\ asleep' = Nobody
            /\ UNCHANGED <<object, tid_, count_, holder_, owner, main, runner, queue, aborted>>

\* The end of start: assert(tid_ > 0).
Started == /\ main[1] = "assert" /\ aborted' = (tid_[main[2]] = 0)
           /\ main' = <<"choose", Nobody>>
           /\ UNCHANGED <<object, latches, runner, queue>>

\* BlockingQueue::put notifies one of those that wait.
Put == /\ main[1] = "choose" /\ put < Items /\ put' = put + 1
       /\ queue_' = Append(queue_, put')
       /\ IF sleepers = {} THEN UNCHANGED sleepers
          ELSE \E t \in sleepers : sleepers' = sleepers \ {t}
       /\ UNCHANGED <<object, latches, main, runner, taken, order, aborted>>

\* Thread::join, and ~Thread of a thread that was not joined.
Join(t) == /\ main[1] = "choose" /\ object[t] = "started" /\ put = Items
           /\ runner[t] = "ended" /\ object' = [object EXCEPT ![t] = "joined"]
           /\ UNCHANGED <<latches, main, runner, queue, aborted>>
Destroy(t) == /\ main[1] = "choose" /\ object[t] \in {"started", "joined"}
              /\ object' = [object EXCEPT ![t] = "destroyed"]
              /\ aborted' = (holder_[t] # Nobody)          \* ~MutexLock
              /\ UNCHANGED <<latches, main, runner, queue>>

-----------------------------------------------------------------------------
At(t, where, next) == /\ runner[t] = where /\ runner' = [runner EXCEPT ![t] = next]

\* runInThread: the id of the thread, into its Thread.
SetTid(t) == /\ At(t, "tid", "countDown") /\ tid_' = [tid_ EXCEPT ![t] = t]
             /\ UNCHANGED <<object, count_, holder_, owner, asleep, main, queue, aborted>>

\* CountDownLatch::countDown: decrement and notify, all with the mutex.
CountDown(t) == /\ At(t, "countDown", "notify") /\ Lock(t, t)
                /\ count_' = [count_ EXCEPT ![t] = @ - 1]
                /\ UNCHANGED <<object, tid_, asleep, main, queue, aborted>>
NotifyAll(t) == /\ At(t, "notify", "unlock")
                /\ asleep' = IF asleep = t THEN Nobody ELSE asleep
                /\ UNCHANGED <<object, tid_, count_, holder_, owner, main, queue, aborted>>
Leave(t) == /\ At(t, "unlock", "run") /\ Unlock(t)
            /\ UNCHANGED <<object, tid_, count_, asleep, main, queue, aborted>>

\* func_: BlockingQueue::take, which waits while the queue is empty.
Take(t) == /\ runner[t] = "run" /\ t \notin sleepers /\ Len(taken[t]) < Share
           /\ IF queue_ = <<>>
              THEN sleepers' = sleepers \union {t} /\ UNCHANGED <<queue_, taken, order>>
              ELSE /\ taken' = [taken EXCEPT ![t] = Append(@, Head(queue_))]
                   /\ order' = Append(order, Head(queue_))
                   /\ queue_' = Tail(queue_) /\ UNCHANGED sleepers
           /\ UNCHANGED <<object, latches, main, runner, put, aborted>>
SpuriousTake(t) == /\ t \in sleepers /\ sleepers' = sleepers \ {t}
                   /\ UNCHANGED <<object, latches, main, runner, queue_, put, taken, order, aborted>>
End(t) == /\ Len(taken[t]) = Share /\ At(t, "run", "ended")
          /\ UNCHANGED <<object, latches, main, queue, aborted>>

MainStep == EnterLatch \/ CheckCount \/ Started \/ Put \/ \E t \in Threads : Start(t) \/ Join(t)
Runner(t) == SetTid(t) \/ CountDown(t) \/ NotifyAll(t) \/ Leave(t) \/ Take(t) \/ End(t)

Next == /\ ~aborted
        /\ \/ MainStep \/ Spurious
           \/ \E t \in Threads : Destroy(t) \/ Runner(t) \/ SpuriousTake(t)

Spec == Init /\ [][Next]_vars
\* Every thread runs, and a mutex that becomes free again and again is not given to the
\* others for ever.
FairSpec == Spec /\ WF_vars(~aborted /\ MainStep)
                 /\ \A t \in Threads : /\ WF_vars(~aborted /\ Runner(t))
                                      /\ SF_vars(~aborted /\ CountDown(t))

-----------------------------------------------------------------------------
TypeOK ==
  /\ object \in [Threads -> {"none", "made", "started", "joined", "destroyed"}]
  /\ tid_ \in [Threads -> {0} \union Threads] /\ count_ \in [Threads -> {0, 1}]
  /\ {holder_, owner} \subseteq [Threads -> {Nobody, Main} \union Threads]
  /\ asleep \in {Nobody} \union Threads /\ sleepers \subseteq Threads
  /\ main \in {"choose", "latch", "count", "assert"} \X ({Nobody} \union Threads)
  /\ runner \in [Threads -> {"none", "tid", "countDown", "notify", "unlock", "run", "ended"}]
  /\ put \in 0..Items /\ queue_ \in Seq(1..Items) /\ order \in Seq(1..Items)

\* When start returns the thread has its id and has let go of the latch, so that the
\* program may destroy the Thread at once: no thread touches a latch that is gone; the
\* holder of a mutex is its owner; and the assertions of the code hold.
ThreadsStartSafely ==
  /\ \A t \in Threads : object[t] \in {"joined", "destroyed"} => runner[t] \in {"run", "ended"}
  /\ holder_ = owner
  /\ aborted => \E t \in Threads : object[t] = "made"

\* The items come out of the queue in the order in which they were put, each once, and
\* no thread sleeps while there are more items than threads that are awake for them.
ItemsInOrder ==
  /\ order \o queue_ = [i \in 1..put |-> i]
  /\ sleepers # {} =>
       Len(queue_) <= Cardinality({t \in Threads \ sleepers : runner[t] # "ended"})

\* Every thread that is started takes its share and ends, if all of them are started.
AllEnd == aborted \/ \A t \in Threads : runner[t] = "ended"
=============================================================================
