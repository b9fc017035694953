-------------------------- MODULE ArrayLockFreeQueue --------------------------
(***************************************************************************)
(* The multi-producer multi-consumer ring buffer of ArrayLockFreeQueueImp.h *)
(* at the granularity of its accesses to shared memory: one action per load *)
(* of a shared index, per CAS, per slot access and per atomic add.          *)
(*                                                                         *)
(* The machine is sequentially consistent: m_writeIndex, m_readIndex,       *)
(* m_maximumReadIndex and m_count are volatile words, CAS, AtomicAdd and    *)
(* AtomicSub are the __sync builtins (full barriers, atom_opt.h), so on the *)
(* x86 targets of the makefiles no access of interest is reordered.  The    *)
(* indices are 64-bit counters that only grow; they are unbounded naturals  *)
(* here (2^64 operations are out of reach of any run of the program).       *)
(* A local that is tested in the step that loads it is not kept, and a dead  *)
(* one is cleared.                                                           *)
(***************************************************************************)
EXTENDS Integers, Sequences, FiniteSets, TLC

CONSTANTS
  Producers,   \* threads that call enqueue
  Consumers,   \* threads that call dequeue (try_dequeue is the same call)
  Observers,   \* threads that call size
  Values,      \* the elements callers enqueue
  NoElem,      \* the content of a slot or of a local nobody has written yet
  Q_SIZE,      \* template argument: number of slots of m_thequeue
  MaxWrites    \* bound: no enqueue call starts once this many slots were reserved

ASSUME QSizeAssumption == Q_SIZE \in Nat \ {0}
ASSUME BoundAssumption == MaxWrites \in Nat
ASSUME ThreadAssumption ==
  /\ Producers \intersect Consumers = {}
  /\ Producers \intersect Observers = {}
  /\ Consumers \intersect Observers = {}
ASSUME ElemAssumption == NoElem \notin Values

VARIABLES
  m_writeIndex,        \* next index a producer may reserve
  m_readIndex,         \* next index a consumer may take
  m_maximumReadIndex,  \* indices below it are committed
  m_count,             \* number of elements, maintained after the fact
  m_thequeue,          \* the slots
  pc,                  \* where each thread stands in its call
  currentWriteIndex,   \* local of enqueue and of size
  currentReadIndex,    \* local of dequeue
  a_data,              \* argument of enqueue, result of dequeue
  sizeResult,          \* what the last size() of an observer returned
  reserved,            \* history: values in the order their slots were reserved
  taken                \* history: values in the order dequeue calls took them

indices == <<m_writeIndex, m_readIndex, m_maximumReadIndex>>
locals == <<currentWriteIndex, currentReadIndex, a_data>>
history == <<reserved, taken>>
vars == <<indices, m_count, m_thequeue, pc, locals, sizeResult, history>>

Threads == Producers \union Consumers \union Observers
\* Threads of a kind and elements are alike (used only where no liveness is checked).
ThreadSymmetry == Permutations(Producers) \union Permutations(Consumers)
                  \union Permutations(Values)

Slots == 0 .. Q_SIZE - 1
Elems == Values \union {NoElem}

countToIndex(a_count) == a_count % Q_SIZE

\* Mutants: a full test without the "+ 1", an empty test that looks one slot ahead.
LooksFullSameSlot(w, r) == countToIndex(w) = countToIndex(r)
LooksEmptyOneAhead(r, max) == countToIndex(r + 1) = countToIndex(max)

\* The tests that make enqueue return false and dequeue return false.
LooksFull(w, r) == countToIndex(w + 1) = countToIndex(r)
LooksEmpty(r, max) == countToIndex(r) = countToIndex(max)

\* The locals of a call that is over, or that loops back to its first load.
ClearLocals(t) == /\ currentWriteIndex' = [currentWriteIndex EXCEPT ![t] = 0]
                  /\ currentReadIndex' = [currentReadIndex EXCEPT ![t] = 0]
                  /\ a_data' = [a_data EXCEPT ![t] = NoElem]

Goto(t, from, to) == /\ pc[t] = from
                     /\ pc' = [pc EXCEPT ![t] = to]

Init == /\ m_writeIndex = 0
        /\ m_readIndex = 0
        /\ m_maximumReadIndex = 0
        /\ m_count = 0
        /\ m_thequeue = [s \in Slots |-> NoElem]
        /\ pc = [t \in Threads |-> "idle"]
        /\ currentWriteIndex = [t \in Threads |-> 0]
        /\ currentReadIndex = [t \in Threads |-> 0]
        /\ a_data = [t \in Threads |-> NoElem]
        /\ sizeResult = [o \in Observers |-> 0]
        /\ reserved = <<>>
        /\ taken = <<>>

-----------------------------------------------------------------------------
(* enqueue                                                                   *)

BeginEnqueue(p, v) ==
  /\ m_writeIndex < MaxWrites
  /\ Goto(p, "idle", "enqLoadWrite")
  /\ a_data' = [a_data EXCEPT ![p] = v]
  /\ UNCHANGED <<indices, m_count, m_thequeue, currentWriteIndex,
                 currentReadIndex, sizeResult, history>>

EnqLoadWrite(p) ==
  /\ Goto(p, "enqLoadWrite", "enqLoadRead")
  /\ currentWriteIndex' = [currentWriteIndex EXCEPT ![p] = m_writeIndex]
  /\ UNCHANGED <<indices, m_count, m_thequeue, currentReadIndex, a_data,
                 sizeResult, history>>

\* The load of m_readIndex and the test for a full queue.
EnqLoadRead(p) ==
  /\ \/ /\ LooksFull(currentWriteIndex[p], m_readIndex)
        /\ Goto(p, "enqLoadRead", "enqFull")
     \/ /\ ~LooksFull(currentWriteIndex[p], m_readIndex)
        /\ Goto(p, "enqLoadRead", "enqReserve")
  /\ UNCHANGED <<indices, m_count, m_thequeue, locals, sizeResult, history>>

\* The CAS that reserves slot currentWriteIndex; a failed CAS loops.
EnqReserve(p) ==
  /\ \/ /\ m_writeIndex = currentWriteIndex[p]
        /\ Goto(p, "enqReserve", "enqStore")
        /\ m_writeIndex' = currentWriteIndex[p] + 1
        /\ reserved' = Append(reserved, a_data[p])
     \/ /\ m_writeIndex # currentWriteIndex[p]
        /\ Goto(p, "enqReserve", "enqLoadWrite")
        /\ UNCHANGED <<m_writeIndex, reserved>>
  /\ UNCHANGED <<m_readIndex, m_maximumReadIndex, m_count, m_thequeue, locals,
                 sizeResult, taken>>

\* Mutant: the element goes to the slot after the reserved one.
EnqStoreNextSlot(p) ==
  /\ Goto(p, "enqStore", "enqCommit")
  /\ m_thequeue' = [m_thequeue EXCEPT
                      ![countToIndex(currentWriteIndex[p] + 1)] = a_data[p]]
  /\ UNCHANGED <<indices, m_count, locals, sizeResult, history>>

EnqStore(p) ==
  /\ Goto(p, "enqStore", "enqCommit")
  /\ m_thequeue' = [m_thequeue EXCEPT
                      ![countToIndex(currentWriteIndex[p])] = a_data[p]]
  /\ UNCHANGED <<indices, m_count, locals, sizeResult, history>>

\* Mutants: a commit that does not wait for the producers before it, and one that
\* tries its CAS only once.
EnqCommitByAdd(p) ==
  /\ Goto(p, "enqCommit", "enqCount")
  /\ m_maximumReadIndex' = m_maximumReadIndex + 1
  /\ ClearLocals(p)
  /\ UNCHANGED <<m_writeIndex, m_readIndex, m_count, m_thequeue, sizeResult,
                 history>>

EnqCommitOnce(p) ==
  /\ \/ /\ m_maximumReadIndex = currentWriteIndex[p]
        /\ Goto(p, "enqCommit", "enqCount")
        /\ m_maximumReadIndex' = currentWriteIndex[p] + 1
     \/ /\ m_maximumReadIndex # currentWriteIndex[p]
        /\ Goto(p, "enqCommit", "idle")
        /\ UNCHANGED m_maximumReadIndex
  /\ ClearLocals(p)
  /\ UNCHANGED <<m_writeIndex, m_readIndex, m_count, m_thequeue, sizeResult,
                 history>>

\* The CAS that commits the slot, in reservation order.  While it fails the
\* thread yields and tries again, which changes nothing.
EnqCommit(p) ==
  /\ m_maximumReadIndex = currentWriteIndex[p]
  /\ Goto(p, "enqCommit", "enqCount")
  /\ m_maximumReadIndex' = currentWriteIndex[p] + 1
  /\ ClearLocals(p)
  /\ UNCHANGED <<m_writeIndex, m_readIndex, m_count, m_thequeue, sizeResult,
                 history>>

EnqCount(p) ==
  /\ Goto(p, "enqCount", "idle")
  /\ m_count' = m_count + 1
  /\ UNCHANGED <<indices, m_thequeue, locals, sizeResult, history>>

EnqReturnFalse(p) ==
  /\ Goto(p, "enqFull", "idle")
  /\ ClearLocals(p)
  /\ UNCHANGED <<indices, m_count, m_thequeue, sizeResult, history>>

-----------------------------------------------------------------------------
(* dequeue                                                                   *)

\* A call starts with the load of m_readIndex; a failed CAS starts over there.
DeqLoadRead(c) ==
  /\ \/ Goto(c, "idle", "deqLoadMax")
     \/ Goto(c, "deqRetry", "deqLoadMax")
  /\ currentReadIndex' = [currentReadIndex EXCEPT ![c] = m_readIndex]
  /\ UNCHANGED <<indices, m_count, m_thequeue, currentWriteIndex, a_data,
                 sizeResult, history>>

\* The load of m_maximumReadIndex and the test for an empty queue.
DeqLoadMax(c) ==
  /\ \/ /\ LooksEmpty(currentReadIndex[c], m_maximumReadIndex)
        /\ Goto(c, "deqLoadMax", "deqEmpty")
     \/ /\ ~LooksEmpty(currentReadIndex[c], m_maximumReadIndex)
        /\ Goto(c, "deqLoadMax", "deqFetch")
  /\ UNCHANGED <<indices, m_count, m_thequeue, locals, sizeResult, history>>

DeqFetch(c) ==
  /\ Goto(c, "deqFetch", "deqTake")
  /\ a_data' = [a_data EXCEPT
                  ![c] = m_thequeue[countToIndex(currentReadIndex[c])]]
  /\ UNCHANGED <<indices, m_count, m_thequeue, currentWriteIndex,
                 currentReadIndex, sizeResult, history>>

\* Mutant: the element is taken by an atomic add that nothing makes fail.
DeqTakeByAdd(c) ==
  /\ Goto(c, "deqTake", "deqCount")
  /\ m_readIndex' = m_readIndex + 1
  /\ taken' = Append(taken, a_data[c])
  /\ ClearLocals(c)
  /\ UNCHANGED <<m_writeIndex, m_maximumReadIndex, m_count, m_thequeue,
                 sizeResult, reserved>>

\* The CAS that takes the element.
DeqTake(c) ==
  /\ \/ /\ m_readIndex = currentReadIndex[c]
        /\ Goto(c, "deqTake", "deqCount")
        /\ m_readIndex' = currentReadIndex[c] + 1
        /\ taken' = Append(taken, a_data[c])
     \/ /\ m_readIndex # currentReadIndex[c]
        /\ Goto(c, "deqTake", "deqRetry")
        /\ UNCHANGED <<m_readIndex, taken>>
  /\ ClearLocals(c)
  /\ UNCHANGED <<m_writeIndex, m_maximumReadIndex, m_count, m_thequeue,
                 sizeResult, reserved>>

DeqCount(c) ==
  /\ Goto(c, "deqCount", "idle")
  /\ m_count' = m_count - 1
  /\ UNCHANGED <<indices, m_thequeue, locals, sizeResult, history>>

DeqReturnFalse(c) ==
  /\ Goto(c, "deqEmpty", "idle")
  /\ ClearLocals(c)
  /\ UNCHANGED <<indices, m_count, m_thequeue, sizeResult, history>>

-----------------------------------------------------------------------------
(* size                                                                      *)

SizeLoadWrite(o) ==
  /\ Goto(o, "idle", "sizeLoadRead")
  /\ currentWriteIndex' = [currentWriteIndex EXCEPT ![o] = m_writeIndex]
  /\ UNCHANGED <<indices, m_count, m_thequeue, currentReadIndex, a_data,
                 sizeResult, history>>

\* Mutant: equal indices count as a full lap.
SizeOfStrict(w, r) == IF w > r THEN w - r ELSE Q_SIZE + w - r

\* What size() computes from its two loads (a negative number stands for its
\* value modulo 2^64, the width of QUEUE_INT).
SizeOf(w, r) == IF w >= r THEN w - r ELSE Q_SIZE + w - r

SizeLoadRead(o) ==
  /\ Goto(o, "sizeLoadRead", "idle")
  /\ sizeResult' = [sizeResult EXCEPT
                      ![o] = SizeOf(currentWriteIndex[o], m_readIndex)]
  /\ ClearLocals(o)
  /\ UNCHANGED <<indices, m_count, m_thequeue, history>>

-----------------------------------------------------------------------------
EnqueueStep(p) ==
  \/ \E v \in Values : BeginEnqueue(p, v)
  \/ EnqLoadWrite(p)
  \/ EnqLoadRead(p)
  \/ EnqReserve(p)
  \/ EnqStore(p)
  \/ EnqCommit(p)
  \/ EnqCount(p)
  \/ EnqReturnFalse(p)

\* What a producer does once it is inside a call.
InsideEnqueue(p) == pc[p] # "idle" /\ EnqueueStep(p)

DequeueStep(c) ==
  \/ DeqLoadRead(c)
  \/ DeqLoadMax(c)
  \/ DeqFetch(c)
  \/ DeqTake(c)
  \/ DeqCount(c)
  \/ DeqReturnFalse(c)

SizeStep(o) == SizeLoadWrite(o) \/ SizeLoadRead(o)

Next == \/ \E p \in Producers : EnqueueStep(p)
        \/ \E c \in Consumers : DequeueStep(c)
        \/ \E o \in Observers : SizeStep(o)

Spec == Init /\ [][Next]_vars

\* Threads are preemptively scheduled: a thread inside a call, and a consumer
\* in its polling loop, keeps taking steps.  Nobody is obliged to enqueue.
Fairness == /\ \A p \in Producers : WF_vars(InsideEnqueue(p))
            /\ \A c \in Consumers : WF_vars(DequeueStep(c))

FairSpec == Spec /\ Fairness

-----------------------------------------------------------------------------
(* Properties                                                                *)

PCs == {"idle", "enqLoadWrite", "enqLoadRead", "enqReserve", "enqStore",
        "enqCommit", "enqCount", "enqFull", "deqLoadMax", "deqFetch",
        "deqTake", "deqRetry", "deqCount", "deqEmpty", "sizeLoadRead"}

\* Type invariant of the ring, the threads' locals and the histories.
TypeOK ==
  /\ m_writeIndex \in Nat
  /\ m_readIndex \in Nat
  /\ m_maximumReadIndex \in Nat
  /\ m_count \in Int
  /\ m_thequeue \in [Slots -> Elems]
  /\ pc \in [Threads -> PCs]
  /\ currentWriteIndex \in [Threads -> Nat]
  /\ currentReadIndex \in [Threads -> Nat]
  /\ a_data \in [Threads -> Elems]
  /\ sizeResult \in [Observers -> Int]
  /\ reserved \in Seq(Elems)
  /\ taken \in Seq(Elems)

\* Index w is less than one lap ahead of index r.
InLap(w, r) == w < r + Q_SIZE

\* The three indices never pass each other although every thread tests them
\* through stale copies: consumers stay behind the committed indices, those
\* behind the reserved ones, and producers less than one lap ahead of
\* consumers (one slot always stays free).
IndexOrder ==
  /\ m_readIndex <= m_maximumReadIndex
  /\ m_maximumReadIndex <= m_writeIndex
  /\ InLap(m_writeIndex, m_readIndex)

\* No element is lost, duplicated, torn or overtaken: the n-th successful
\* dequeue returns the element of the n-th successful reservation, whatever
\* was stored into the slots between the fetch and the CAS of dequeue.
FifoDelivery ==
  /\ Len(taken) <= Len(reserved)
  /\ \A n \in 1 .. Len(taken) : taken[n] = reserved[n]

\* A thread that reserved an index and has not committed it yet.
Owns(p, i) == pc[p] \in {"enqStore", "enqCommit"} /\ currentWriteIndex[p] = i

\* Every index between the committed and the reserved ones belongs to exactly
\* one producer that is about to store or to commit it: no hole can stop the
\* commits for good and no slot has two writers.
ReservedSlotsOwned ==
  /\ \A i \in m_maximumReadIndex .. m_writeIndex - 1 :
       \E p \in Producers : Owns(p, i)
  /\ \A p \in Producers : pc[p] \in {"enqStore", "enqCommit"} =>
       /\ currentWriteIndex[p] \in m_maximumReadIndex .. m_writeIndex - 1
       /\ \A q \in Producers \ {p} : ~Owns(q, currentWriteIndex[p])

\* What the locals of an enqueue in progress know: a stale write index is never
\* ahead; a CAS that is about to succeed has a free slot; a reserved slot is
\* filled with the element it was reserved for.
ProducerOk(p) ==
  /\ pc[p] \in {"enqLoadRead", "enqReserve"}
       => currentWriteIndex[p] <= m_writeIndex
  /\ (pc[p] = "enqReserve" /\ currentWriteIndex[p] = m_writeIndex)
       => InLap(m_writeIndex + 1, m_readIndex)
  /\ pc[p] \in {"enqLoadWrite", "enqLoadRead", "enqReserve", "enqStore", "enqCommit"}
       => a_data[p] \in Values
  /\ pc[p] \in {"enqStore", "enqCommit"}
       => a_data[p] = reserved[currentWriteIndex[p] + 1]
  /\ pc[p] = "enqCommit"
       => m_thequeue[countToIndex(currentWriteIndex[p])]
            = reserved[currentWriteIndex[p] + 1]

ProducerInv == \A p \in Producers : ProducerOk(p)

\* What the locals of a dequeue in progress know: a stale read index is never
\* ahead, it points to a committed element once the test for empty has passed,
\* and the element fetched is the right one unless the CAS is going to fail.
ConsumerOk(c) ==
  /\ pc[c] \in {"deqLoadMax", "deqFetch", "deqTake"}
       => currentReadIndex[c] <= m_readIndex
  /\ pc[c] \in {"deqFetch", "deqTake"}
       => currentReadIndex[c] < m_maximumReadIndex
  /\ (pc[c] = "deqTake" /\ currentReadIndex[c] = m_readIndex)
       => a_data[c] = reserved[currentReadIndex[c] + 1]

ConsumerInv == \A c \in Consumers : ConsumerOk(c)

\* The committed slots hold the elements they were reserved for, and the
\* histories have the length the indices say.
CommittedInv ==
  /\ \A i \in m_readIndex .. m_maximumReadIndex - 1 :
       m_thequeue[countToIndex(i)] = reserved[i + 1]
  /\ Len(reserved) = m_writeIndex
  /\ Len(taken) = m_readIndex
  /\ \A n \in 1 .. m_writeIndex : reserved[n] \in Values

\* The inductive invariant that IndexOrder and FifoDelivery follow from.
IInv == /\ TypeOK
        /\ IndexOrder
        /\ FifoDelivery
        /\ ReservedSlotsOwned
        /\ ProducerInv
        /\ ConsumerInv
        /\ CommittedInv

\* m_count is adjusted after the index moved: it lags behind the indices by
\* exactly the calls that moved one and have not adjusted it (it may even be
\* negative), and is exact when no such call is in progress.
CountLag ==
  m_count = (m_maximumReadIndex - m_readIndex)
            - Cardinality({p \in Producers : pc[p] = "enqCount"})
            + Cardinality({c \in Consumers : pc[c] = "deqCount"})

\* size() loads m_writeIndex before m_readIndex, without a snapshot: what it
\* returns is still within the capacity unless consumers pass the loaded write
\* index by more than a whole lap between the two loads.
SizeWithinCapacity ==
  \A o \in Observers :
    (pc[o] = "sizeLoadRead" /\ m_readIndex <= currentWriteIndex[o] + Q_SIZE)
      => SizeOf(currentWriteIndex[o], m_readIndex) \in 0 .. Q_SIZE - 1

\* What the two counts of the queue may say.
CountsHonest == CountLag /\ SizeWithinCapacity

\* The elements a user would see in the queue: the committed slots, oldest first.
Contents == [n \in 1 .. m_maximumReadIndex - m_readIndex |->
               m_thequeue[countToIndex(m_readIndex + n - 1)]]

Fifo == INSTANCE BoundedFifo
          WITH Capacity <- Q_SIZE - 1, queue <- Contents, delivered <- taken

\* The ring implements a FIFO of capacity Q_SIZE - 1: a commit puts, the CAS on
\* m_readIndex gets, and no other step (a store into a slot in particular) is
\* visible.
ImplementsFifo == Fifo!Spec

\* A producer that reserved a slot waits for the producers before it to commit,
\* and does commit as long as every thread is scheduled.
ReservationCommits ==
  \A p \in Producers : pc[p] = "enqStore" ~> pc[p] = "enqCount"

\* A committed element is eventually taken by the polling consumers, however
\* often their CASes fail against each other.
CommittedIsTaken ==
  \A i \in 0 .. MaxWrites : m_maximumReadIndex > i ~> m_readIndex > i
=============================================================================
