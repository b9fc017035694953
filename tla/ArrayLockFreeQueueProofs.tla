----------------------- MODULE ArrayLockFreeQueueProofs -----------------------
(***************************************************************************)
(* Proofs about ArrayLockFreeQueue for every set of threads, every set of    *)
(* elements, every Q_SIZE and every bound on the number of enqueue calls.    *)
(***************************************************************************)
EXTENDS ArrayLockFreeQueueAnswers, SequenceTheorems, FiniteSetTheorems, TLAPS

-----------------------------------------------------------------------------
(* Slots: what countToIndex does to the counters.                             *)

\* Division with remainder, as the provers know it.
LEMMA DivisionWithRemainder ==
  ASSUME NEW a \in Nat, NEW q \in Nat \ {0}
  PROVE  /\ a % q \in 0 .. (q - 1)
         /\ a \div q \in Int
         /\ a = q * (a \div q) + (a % q)
  OBVIOUS

\* Quotient and remainder are determined by the dividend.
LEMMA RemainderUnique ==
  ASSUME NEW q \in Nat \ {0}, NEW k \in Int, NEW l \in Int,
         NEW r \in 0 .. (q - 1), NEW s \in 0 .. (q - 1),
         q * k + r = q * l + s
  PROVE  r = s
<1>1. q * (k - l) = s - r
  OBVIOUS
<1>2. CASE k - l >= 1
  <2>1. q * (k - l) >= q
    BY <1>2
  <2> QED BY <2>1, <1>1
<1>3. CASE k - l <= -1
  <2>1. q * (k - l) <= -q
    BY <1>3
  <2> QED BY <2>1, <1>1
<1>4. CASE k = l
  BY <1>4, <1>1
<1> QED BY <1>2, <1>3, <1>4

\* One lap further is the same slot: countToIndex has period Q_SIZE.
LEMMA SlotPeriodic ==
  ASSUME NEW a \in Nat
  PROVE  countToIndex(a + Q_SIZE) = countToIndex(a)
<1> DEFINE k == a \div Q_SIZE
           r == a % Q_SIZE
           l == (a + Q_SIZE) \div Q_SIZE
           s == (a + Q_SIZE) % Q_SIZE
<1>1. a = Q_SIZE * k + r /\ k \in Int /\ r \in 0 .. (Q_SIZE - 1)
  BY DivisionWithRemainder, QSizeAssumption
<1>2. a + Q_SIZE = Q_SIZE * l + s /\ l \in Int /\ s \in 0 .. (Q_SIZE - 1)
  <2>1. a + Q_SIZE \in Nat
    BY QSizeAssumption
  <2> QED BY <2>1, DivisionWithRemainder, QSizeAssumption
<1> HIDE DEF k, r, l, s
<1>3. Q_SIZE * (k + 1) + r = Q_SIZE * l + s
  BY <1>1, <1>2, QSizeAssumption
<1>4. r = s
  BY <1>1, <1>2, <1>3, RemainderUnique, QSizeAssumption
<1> QED BY <1>4 DEF r, s, countToIndex

\* Indices less than a lap apart have different slots.
LEMMA SlotInjective ==
  ASSUME NEW a \in Nat, NEW b \in Nat, a < b, b < a + Q_SIZE
  PROVE  countToIndex(a) # countToIndex(b)
<1> DEFINE k == a \div Q_SIZE
           r == a % Q_SIZE
           l == b \div Q_SIZE
           s == b % Q_SIZE
<1> SUFFICES ASSUME r = s PROVE FALSE
  BY DEF countToIndex
<1>1. a = Q_SIZE * k + r /\ k \in Int /\ r \in 0 .. (Q_SIZE - 1)
  BY DivisionWithRemainder, QSizeAssumption
<1>2. b = Q_SIZE * l + s /\ l \in Int /\ s \in 0 .. (Q_SIZE - 1)
  BY DivisionWithRemainder, QSizeAssumption
<1> HIDE DEF k, r, l, s
<1>3. b - a = Q_SIZE * (l - k)
  BY <1>1, <1>2, QSizeAssumption
<1>4. CASE l - k >= 1
  <2>1. Q_SIZE * (l - k) >= Q_SIZE
    BY <1>4, <1>1, <1>2, QSizeAssumption
  <2> QED BY <2>1, <1>3, QSizeAssumption
<1>5. CASE l - k <= 0
  <2>1. Q_SIZE * (l - k) <= 0
    BY <1>5, <1>1, <1>2, QSizeAssumption
  <2> QED BY <2>1, <1>3
<1> QED BY <1>4, <1>5, <1>1, <1>2

\* countToIndex names a slot of the array.
LEMMA SlotInRange ==
  ASSUME NEW a \in Nat
  PROVE  countToIndex(a) \in Slots
BY DivisionWithRemainder, QSizeAssumption DEF countToIndex, Slots

\* Advancing the reader keeps an index in the lap.
LEMMA LapMonotone ==
  ASSUME NEW w \in Nat, NEW r \in Nat, NEW n \in Nat, r <= n, InLap(w, r)
  PROVE  InLap(w, n)
BY QSizeAssumption DEF InLap

-----------------------------------------------------------------------------
(* Type correctness.                                                          *)

\* Every step of the ring preserves the type invariant.
LEMMA TypeStep == TypeOK /\ [Next]_vars => TypeOK'
<1> SUFFICES ASSUME TypeOK, [Next]_vars PROVE TypeOK'
  OBVIOUS
<1>e. NoElem \in Elems /\ Values \subseteq Elems
  BY DEF Elems
<1> USE <1>e DEF TypeOK, PCs, Goto, ClearLocals, indices, locals, history
<1>1. ASSUME NEW p \in Producers, EnqueueStep(p) PROVE TypeOK'
  <2> p \in Threads
    BY DEF Threads
  <2>1. ASSUME NEW v \in Values, BeginEnqueue(p, v) PROVE TypeOK'
    BY <2>1 DEF BeginEnqueue
  <2>2. CASE EnqLoadWrite(p)
    BY <2>2 DEF EnqLoadWrite
  <2>3. CASE EnqLoadRead(p)
    BY <2>3 DEF EnqLoadRead
  <2>4. CASE EnqReserve(p)
    <3>1. Append(reserved, a_data[p]) \in Seq(Elems)
      OBVIOUS
    <3>2. reserved' \in Seq(Elems)
      BY <2>4, <3>1 DEF EnqReserve
    <3>3. m_writeIndex' \in Nat
      BY <2>4 DEF EnqReserve
    <3>4. pc' \in [Threads -> PCs]
      BY <2>4 DEF EnqReserve
    <3> QED BY <2>4, <3>2, <3>3, <3>4 DEF EnqReserve
  <2>5. CASE EnqStore(p)
    BY <2>5 DEF EnqStore
  <2>6. CASE EnqCommit(p)
    BY <2>6 DEF EnqCommit
  <2>7. CASE EnqCount(p)
    BY <2>7 DEF EnqCount
  <2>8. CASE EnqReturnFalse(p)
    BY <2>8 DEF EnqReturnFalse
  <2> QED BY <1>1, <2>1, <2>2, <2>3, <2>4, <2>5, <2>6, <2>7, <2>8 DEF EnqueueStep
<1>2. ASSUME NEW c \in Consumers, DequeueStep(c) PROVE TypeOK'
  <2> c \in Threads
    BY DEF Threads
  <2>1. CASE DeqLoadRead(c)
    BY <2>1 DEF DeqLoadRead
  <2>2. CASE DeqLoadMax(c)
    BY <2>2 DEF DeqLoadMax
  <2>3. CASE DeqFetch(c)
    <3>1. countToIndex(currentReadIndex[c]) \in Slots
      BY SlotInRange
    <3> QED BY <2>3, <3>1 DEF DeqFetch
  <2>4. CASE DeqTake(c)
    <3>1. Append(taken, a_data[c]) \in Seq(Elems)
      OBVIOUS
    <3>2. taken' \in Seq(Elems)
      BY <2>4, <3>1 DEF DeqTake
    <3>3. m_readIndex' \in Nat
      BY <2>4 DEF DeqTake
    <3>4. pc' \in [Threads -> PCs]
      BY <2>4 DEF DeqTake
    <3> QED BY <2>4, <3>2, <3>3, <3>4 DEF DeqTake
  <2>5. CASE DeqCount(c)
    BY <2>5 DEF DeqCount
  <2>6. CASE DeqReturnFalse(c)
    BY <2>6 DEF DeqReturnFalse
  <2> QED BY <1>2, <2>1, <2>2, <2>3, <2>4, <2>5, <2>6 DEF DequeueStep
<1>3. ASSUME NEW o \in Observers, SizeStep(o) PROVE TypeOK'
  <2> o \in Threads
    BY DEF Threads
  <2>1. CASE SizeLoadWrite(o)
    BY <2>1 DEF SizeLoadWrite
  <2>2. CASE SizeLoadRead(o)
    BY <2>2, QSizeAssumption DEF SizeLoadRead, SizeOf
  <2> QED BY <1>3, <2>1, <2>2 DEF SizeStep
<1>4. CASE UNCHANGED vars
  BY <1>4 DEF vars
<1> QED BY <1>1, <1>2, <1>3, <1>4 DEF Next

\* Type correctness of the ring.
THEOREM TypeCorrect == Spec => []TypeOK
<1>1. Init => TypeOK
  BY DEF Init, TypeOK, PCs, Elems, Slots
<1> QED BY <1>1, TypeStep, PTL DEF Spec

-----------------------------------------------------------------------------
(* The inductive invariant.  Three frame lemmas say what disturbs its parts   *)
(* about a producer, about a consumer and about the reservations.             *)

\* What thread t keeps in its locals and where it stands.
SameLocals(t) == /\ pc'[t] = pc[t]
                 /\ currentWriteIndex'[t] = currentWriteIndex[t]
                 /\ currentReadIndex'[t] = currentReadIndex[t]
                 /\ a_data'[t] = a_data[t]

Owner(p) == pc[p] \in {"enqStore", "enqCommit"}

\* What a producer knows survives a step of another thread that leaves the
\* reservations and the slots alone; m_readIndex may advance.
LEMMA ProducerFrame ==
  ASSUME TypeOK, NEW q \in Producers, ProducerOk(q), SameLocals(q),
         m_readIndex' \in Nat, m_readIndex' >= m_readIndex,
         UNCHANGED <<m_writeIndex, m_thequeue, reserved>>
  PROVE  ProducerOk(q)'
<1>1. currentWriteIndex[q] \in Nat
  BY DEF TypeOK, Threads
<1>2. InLap(m_writeIndex + 1, m_readIndex) => InLap(m_writeIndex + 1, m_readIndex')
  <2>1. m_writeIndex + 1 \in Nat /\ m_readIndex \in Nat /\ m_readIndex <= m_readIndex'
    BY DEF TypeOK
  <2> QED BY <2>1, LapMonotone
<1>3. countToIndex(currentWriteIndex[q])' = countToIndex(currentWriteIndex[q])
  BY DEF countToIndex, SameLocals
<1> QED BY <1>1, <1>2, <1>3 DEF ProducerOk, SameLocals

\* What a consumer knows survives a step of another thread that leaves
\* m_readIndex alone, commits more or reserves more.
LEMMA ConsumerFrame ==
  ASSUME TypeOK, IndexOrder, CommittedInv, NEW d \in Consumers, ConsumerOk(d),
         SameLocals(d), UNCHANGED m_readIndex,
         m_maximumReadIndex' \in Nat, m_maximumReadIndex' >= m_maximumReadIndex,
         \A n \in 1 .. Len(reserved) : reserved'[n] = reserved[n]
  PROVE  ConsumerOk(d)'
<1>1. currentReadIndex[d] \in Nat
  BY DEF TypeOK, Threads
<1>2. currentReadIndex[d] <= m_readIndex /\ currentReadIndex[d] < m_maximumReadIndex
        => currentReadIndex[d] + 1 \in 1 .. Len(reserved)
  BY <1>1 DEF CommittedInv, IndexOrder, TypeOK
<1>3. currentReadIndex[d] < m_maximumReadIndex => currentReadIndex[d] < m_maximumReadIndex'
  BY <1>1 DEF TypeOK
<1> QED BY <1>1, <1>2, <1>3 DEF ConsumerOk, SameLocals

\* The reservations keep their owners in a step that neither reserves nor commits.
LEMMA OwnershipFrame ==
  ASSUME ReservedSlotsOwned, UNCHANGED <<m_writeIndex, m_maximumReadIndex>>,
         \A q \in Producers :
           /\ Owner(q)' <=> Owner(q)
           /\ Owner(q) => currentWriteIndex'[q] = currentWriteIndex[q]
  PROVE  ReservedSlotsOwned'
<1>1. \A q \in Producers : \A i : Owns(q, i)' <=> Owns(q, i)
  BY DEF Owns, Owner
<1>2. \A i \in (m_maximumReadIndex .. m_writeIndex - 1)' :
        \E q \in Producers : Owns(q, i)'
  BY <1>1 DEF ReservedSlotsOwned
<1>3. ASSUME NEW q \in Producers, pc'[q] \in {"enqStore", "enqCommit"}
      PROVE  /\ currentWriteIndex'[q] \in (m_maximumReadIndex .. m_writeIndex - 1)'
             /\ \A r \in Producers \ {q} : ~Owns(r, currentWriteIndex[q])'
  BY <1>1, <1>3 DEF ReservedSlotsOwned, Owns, Owner
<1> QED BY <1>2, <1>3 DEF ReservedSlotsOwned

\* A step of thread t that touches nothing shared preserves the invariant if t
\* knows what it should afterwards and neither gets nor gives up a reservation.
LEMMA LocalStep ==
  ASSUME IInv, TypeOK', NEW t \in Threads,
         UNCHANGED <<indices, m_thequeue, history>>,
         \A s \in Threads \ {t} : SameLocals(s),
         t \in Producers =>
           /\ ProducerOk(t)'
           /\ Owner(t)' <=> Owner(t)
           /\ Owner(t) => currentWriteIndex'[t] = currentWriteIndex[t],
         t \in Consumers => ConsumerOk(t)'
  PROVE  IInv'
<1> USE DEF indices, history
<1>1. IndexOrder' /\ FifoDelivery'
  BY DEF IInv, IndexOrder, FifoDelivery
<1>2. CommittedInv'
  BY DEF IInv, CommittedInv
<1>3. ReservedSlotsOwned'
  <2>1. \A q \in Producers :
           /\ Owner(q)' <=> Owner(q)
           /\ Owner(q) => currentWriteIndex'[q] = currentWriteIndex[q]
    BY DEF SameLocals, Owner, Threads
  <2> QED BY <2>1, OwnershipFrame DEF IInv
<1>4. ProducerInv'
  <2> SUFFICES ASSUME NEW q \in Producers, q # t PROVE ProducerOk(q)'
    BY DEF ProducerInv
  <2>1. SameLocals(q) /\ ProducerOk(q) /\ TypeOK
    BY DEF Threads, IInv, ProducerInv
  <2>2. m_readIndex' \in Nat /\ m_readIndex' >= m_readIndex
    BY DEF TypeOK
  <2> QED BY <2>1, <2>2, ProducerFrame
<1>5. ConsumerInv'
  <2> SUFFICES ASSUME NEW d \in Consumers, d # t PROVE ConsumerOk(d)'
    BY DEF ConsumerInv
  <2>1. SameLocals(d) /\ ConsumerOk(d) /\ TypeOK /\ IndexOrder /\ CommittedInv
    BY DEF Threads, IInv, ConsumerInv
  <2>2. m_maximumReadIndex' \in Nat /\ m_maximumReadIndex' >= m_maximumReadIndex
    BY DEF TypeOK
  <2> QED BY <2>1, <2>2, ConsumerFrame
<1> QED BY <1>1, <1>2, <1>3, <1>4, <1>5 DEF IInv

-----------------------------------------------------------------------------
(* The steps of enqueue.                                                      *)

\* Steps of enqueue that only move the thread itself: the call begins, the two
\* loads, the count and the answer FALSE.
LEMMA EnqueueLocalSteps ==
  ASSUME IInv, TypeOK', NEW p \in Producers,
         \/ \E v \in Values : BeginEnqueue(p, v)
         \/ EnqLoadWrite(p)
         \/ EnqLoadRead(p)
         \/ EnqCount(p)
         \/ EnqReturnFalse(p)
  PROVE  IInv'
<1> p \in Threads /\ p \notin Consumers
  BY ThreadAssumption DEF Threads
<1> USE DEF Goto, indices, locals, history, ClearLocals
<1>t. TypeOK /\ IndexOrder /\ ProducerOk(p)
  BY DEF IInv, ProducerInv
<1>1. ASSUME NEW v \in Values, BeginEnqueue(p, v) PROVE IInv'
  <2>1. ProducerOk(p)'
    BY <1>1, <1>t DEF BeginEnqueue, ProducerOk, TypeOK
  <2>2. \A s \in Threads \ {p} : SameLocals(s)
    BY <1>1, <1>t DEF BeginEnqueue, SameLocals, TypeOK
  <2>3. ~Owner(p) /\ ~Owner(p)'
    BY <1>1, <1>t DEF BeginEnqueue, Owner, TypeOK
  <2> QED BY <1>1, <2>1, <2>2, <2>3, LocalStep DEF BeginEnqueue
<1>2. CASE EnqLoadWrite(p)
  <2>1. ProducerOk(p)'
    BY <1>2, <1>t DEF EnqLoadWrite, ProducerOk, TypeOK
  <2>2. \A s \in Threads \ {p} : SameLocals(s)
    BY <1>2, <1>t DEF EnqLoadWrite, SameLocals, TypeOK
  <2>3. ~Owner(p) /\ ~Owner(p)'
    BY <1>2, <1>t DEF EnqLoadWrite, Owner, TypeOK
  <2> QED BY <1>2, <2>1, <2>2, <2>3, LocalStep DEF EnqLoadWrite
<1>3. CASE EnqLoadRead(p)
  <2>1. ProducerOk(p)'
    <3>1. CASE LooksFull(currentWriteIndex[p], m_readIndex)
      BY <1>3, <1>t, <3>1 DEF EnqLoadRead, ProducerOk, TypeOK
    <3>2. CASE ~LooksFull(currentWriteIndex[p], m_readIndex)
      <4>1. m_writeIndex \in Nat /\ m_readIndex \in Nat
        BY <1>t DEF TypeOK
      <4>2. currentWriteIndex[p] = m_writeIndex => InLap(m_writeIndex + 1, m_readIndex)
        <5> SUFFICES ASSUME currentWriteIndex[p] = m_writeIndex
                     PROVE  InLap(m_writeIndex + 1, m_readIndex)
          OBVIOUS
        <5>1. m_writeIndex + 1 # m_readIndex + Q_SIZE
          BY <3>2, <4>1, SlotPeriodic DEF LooksFull
        <5> QED BY <1>t, <4>1, <5>1, QSizeAssumption DEF IndexOrder, InLap
      <4>3. /\ pc'[p] = "enqReserve" /\ pc[p] = "enqLoadRead"
            /\ currentWriteIndex'[p] = currentWriteIndex[p] /\ a_data'[p] = a_data[p]
            /\ UNCHANGED <<m_writeIndex, m_readIndex>>
        BY <1>3, <1>t, <3>2 DEF EnqLoadRead, TypeOK
      <4> QED BY <1>t, <4>2, <4>3 DEF ProducerOk
    <3> QED BY <3>1, <3>2
  <2>2. \A s \in Threads \ {p} : SameLocals(s)
    BY <1>3, <1>t DEF EnqLoadRead, SameLocals, TypeOK
  <2>3. ~Owner(p) /\ ~Owner(p)'
    BY <1>3, <1>t DEF EnqLoadRead, Owner, TypeOK
  <2> QED BY <1>3, <2>1, <2>2, <2>3, LocalStep DEF EnqLoadRead
<1>4. CASE EnqCount(p)
  <2>1. ProducerOk(p)'
    BY <1>4, <1>t DEF EnqCount, ProducerOk, TypeOK
  <2>2. \A s \in Threads \ {p} : SameLocals(s)
    BY <1>4, <1>t DEF EnqCount, SameLocals, TypeOK
  <2>3. ~Owner(p) /\ ~Owner(p)'
    BY <1>4, <1>t DEF EnqCount, Owner, TypeOK
  <2> QED BY <1>4, <2>1, <2>2, <2>3, LocalStep DEF EnqCount
<1>5. CASE EnqReturnFalse(p)
  <2>1. ProducerOk(p)'
    BY <1>5, <1>t DEF EnqReturnFalse, ProducerOk, TypeOK
  <2>2. \A s \in Threads \ {p} : SameLocals(s)
    BY <1>5, <1>t DEF EnqReturnFalse, SameLocals, TypeOK
  <2>3. ~Owner(p) /\ ~Owner(p)'
    BY <1>5, <1>t DEF EnqReturnFalse, Owner, TypeOK
  <2> QED BY <1>5, <2>1, <2>2, <2>3, LocalStep DEF EnqReturnFalse
<1> QED BY <1>1, <1>2, <1>3, <1>4, <1>5

\* The CAS on m_writeIndex: it reserves a slot inside the lap, or changes nothing.
LEMMA EnqReserveStep ==
  ASSUME IInv, TypeOK', NEW p \in Producers, EnqReserve(p)
  PROVE  IInv'
<1> p \in Threads /\ p \notin Consumers
  BY ThreadAssumption DEF Threads
<1> USE DEF Goto, indices, locals, history
<1>t. TypeOK /\ IndexOrder /\ ProducerOk(p) /\ CommittedInv
  BY DEF IInv, ProducerInv
<1>s. \A s \in Threads \ {p} : SameLocals(s)
  BY <1>t DEF EnqReserve, SameLocals, TypeOK
<1>1. CASE m_writeIndex # currentWriteIndex[p]
  <2>1. ProducerOk(p)'
    BY <1>1, <1>t DEF EnqReserve, ProducerOk, TypeOK
  <2>2. ~Owner(p) /\ ~Owner(p)'
    BY <1>1, <1>t DEF EnqReserve, Owner, TypeOK
  <2> QED BY <1>1, <1>s, <2>1, <2>2, LocalStep DEF EnqReserve
<1>2. CASE m_writeIndex = currentWriteIndex[p]
  <2>1. /\ pc[p] = "enqReserve" /\ pc'[p] = "enqStore"
        /\ m_writeIndex' = m_writeIndex + 1
        /\ reserved' = Append(reserved, a_data[p])
        /\ UNCHANGED <<m_readIndex, m_maximumReadIndex, m_thequeue, taken,
                       currentWriteIndex, currentReadIndex, a_data>>
    BY <1>2, <1>t DEF EnqReserve, TypeOK
  <2>2. /\ m_writeIndex \in Nat /\ m_readIndex \in Nat /\ m_maximumReadIndex \in Nat
        /\ m_maximumReadIndex <= m_writeIndex /\ m_readIndex <= m_maximumReadIndex
        /\ reserved \in Seq(Elems) /\ a_data[p] \in Elems /\ Len(reserved) = m_writeIndex
    BY <1>t DEF TypeOK, IndexOrder, CommittedInv
  <2>3. /\ Len(reserved') = m_writeIndex + 1
        /\ \A n \in 1 .. m_writeIndex : reserved'[n] = reserved[n]
        /\ reserved'[m_writeIndex + 1] = a_data[p]
    BY <2>1, <2>2
  <2>4. IndexOrder'
    <3>1. InLap(m_writeIndex + 1, m_readIndex)
      BY <1>2, <1>t, <2>1 DEF ProducerOk
    <3>2. InLap(m_writeIndex, m_readIndex)'
      BY <3>1, <2>1 DEF InLap
    <3> QED BY <2>1, <2>2, <3>2 DEF IndexOrder
  <2>5. FifoDelivery'
    <3>1. taken \in Seq(Elems) /\ Len(taken) \in Nat
      BY <1>t DEF TypeOK
    <3> QED BY <2>1, <2>2, <2>3, <3>1 DEF IInv, FifoDelivery
  <2>6. CommittedInv'
    <3>1. \A i \in m_readIndex .. m_maximumReadIndex - 1 :
            i + 1 \in 1 .. m_writeIndex
      BY <2>2
    <3>2. \A i \in m_readIndex .. m_maximumReadIndex - 1 :
            m_thequeue[countToIndex(i)] = reserved'[i + 1]
      BY <1>t, <2>3, <3>1 DEF CommittedInv
    <3>3. a_data[p] \in Values
      BY <1>t, <2>1 DEF ProducerOk
    <3>4. \A n \in 1 .. m_writeIndex + 1 : reserved'[n] \in Values
      BY <1>t, <2>2, <2>3, <3>3 DEF CommittedInv
    <3>5. Len(reserved)' = m_writeIndex' /\ Len(taken)' = m_readIndex'
      BY <1>t, <2>1, <2>3 DEF CommittedInv
    <3> QED BY <2>1, <3>2, <3>4, <3>5 DEF CommittedInv, countToIndex
  <2>7. ReservedSlotsOwned'
    <3>1. ~Owner(p) /\ \A i : i = m_writeIndex => Owns(p, i)'
      BY <1>2, <2>1 DEF Owns, Owner
    <3>2. \A q \in Producers \ {p}, i \in Int : Owns(q, i)' <=> Owns(q, i)
      BY <1>s DEF Owns, SameLocals, Threads
    <3>3. \A i \in m_maximumReadIndex .. m_writeIndex - 1 :
            \E q \in Producers \ {p} : Owns(q, i)'
      BY <3>1, <3>2, <2>2 DEF IInv, ReservedSlotsOwned, Owns, Owner
    <3>4. \A i \in m_maximumReadIndex .. m_writeIndex :
            \E q \in Producers : Owns(q, i)'
      <4>1. \A i \in m_maximumReadIndex .. m_writeIndex :
              i \in m_maximumReadIndex .. m_writeIndex - 1 \/ i = m_writeIndex
        BY <2>2
      <4> QED BY <3>1, <3>3, <4>1
    <3>5. ASSUME NEW q \in Producers, pc'[q] \in {"enqStore", "enqCommit"}
          PROVE  /\ currentWriteIndex'[q] \in m_maximumReadIndex .. m_writeIndex
                 /\ \A r \in Producers \ {q} : ~Owns(r, currentWriteIndex[q])'
      <4>1. currentWriteIndex[q] \in Nat
        BY <1>t DEF TypeOK, Threads
      <4>2. CASE q = p
        <5>1. \A r \in Producers \ {p} : ~Owns(r, m_writeIndex)
          BY <2>2 DEF IInv, ReservedSlotsOwned, Owns
        <5> QED BY <1>2, <2>1, <2>2, <3>2, <4>2, <5>1
      <4>3. CASE q # p
        <5>1. /\ pc[q] \in {"enqStore", "enqCommit"}
              /\ currentWriteIndex'[q] = currentWriteIndex[q]
          BY <1>s, <3>5, <4>3 DEF SameLocals, Threads
        <5>2. /\ currentWriteIndex[q] \in m_maximumReadIndex .. m_writeIndex - 1
              /\ \A r \in Producers \ {q} : ~Owns(r, currentWriteIndex[q])
          BY <5>1 DEF IInv, ReservedSlotsOwned
        <5>3. currentWriteIndex[q] # m_writeIndex
          BY <5>2, <2>2
        <5>4. ~Owns(p, currentWriteIndex[q])'
          BY <1>2, <2>1, <5>1, <5>3 DEF Owns
        <5> QED BY <2>2, <3>2, <4>1, <4>3, <5>1, <5>2, <5>4
      <4> QED BY <4>2, <4>3
    <3>6. (m_maximumReadIndex .. m_writeIndex - 1)' = m_maximumReadIndex .. m_writeIndex
      BY <2>1, <2>2
    <3> QED BY <3>4, <3>5, <3>6 DEF ReservedSlotsOwned
  <2>8. ProducerInv'
    <3> SUFFICES ASSUME NEW q \in Producers PROVE ProducerOk(q)'
      BY DEF ProducerInv
    <3>1. currentWriteIndex[q] \in Nat /\ ProducerOk(q)
      BY <1>t DEF TypeOK, Threads, IInv, ProducerInv
    <3>2. CASE q = p
      BY <1>2, <2>1, <2>3, <3>1, <3>2 DEF ProducerOk
    <3>3. CASE q # p
      <4>1. SameLocals(q)
        BY <1>s, <3>3 DEF Threads
      <4>2. Owner(q) => currentWriteIndex[q] + 1 \in 1 .. m_writeIndex
        BY <2>2, <3>1 DEF IInv, ReservedSlotsOwned, Owner
      <4>3. currentWriteIndex[q] <= m_writeIndex =>
              /\ currentWriteIndex[q] <= m_writeIndex'
              /\ currentWriteIndex[q] # m_writeIndex'
        BY <2>1, <2>2, <3>1
      <4>4. pc[q] = "enqReserve" => currentWriteIndex[q] # m_writeIndex'
        BY <3>1, <4>3 DEF ProducerOk
      <4> QED BY <2>1, <2>3, <3>1, <4>1, <4>2, <4>3, <4>4
              DEF ProducerOk, SameLocals, Owner, countToIndex
    <3> QED BY <3>2, <3>3
  <2>9. ConsumerInv'
    <3> SUFFICES ASSUME NEW d \in Consumers PROVE ConsumerOk(d)'
      BY DEF ConsumerInv
    <3>1. SameLocals(d) /\ ConsumerOk(d)
      BY <1>s DEF Threads, IInv, ConsumerInv
    <3> QED BY <1>t, <2>1, <2>2, <2>3, <3>1, ConsumerFrame
  <2> QED BY <2>4, <2>5, <2>6, <2>7, <2>8, <2>9 DEF IInv
<1> QED BY <1>1, <1>2

\* The store into the reserved slot: no committed slot and no slot of another
\* producer is hit, because all of them lie within one lap.
LEMMA EnqStoreStep ==
  ASSUME IInv, TypeOK', NEW p \in Producers, EnqStore(p)
  PROVE  IInv'
<1> p \in Threads /\ p \notin Consumers
  BY ThreadAssumption DEF Threads
<1> USE DEF Goto, indices, locals, history
<1> DEFINE w == currentWriteIndex[p]
<1>t. TypeOK /\ IndexOrder /\ ProducerOk(p) /\ CommittedInv /\ ReservedSlotsOwned
  BY DEF IInv, ProducerInv
<1>s. \A s \in Threads \ {p} : SameLocals(s)
  BY <1>t DEF EnqStore, SameLocals, TypeOK
<1>1. /\ pc[p] = "enqStore" /\ pc'[p] = "enqCommit"
      /\ m_thequeue' = [m_thequeue EXCEPT ![countToIndex(w)] = a_data[p]]
      /\ UNCHANGED <<m_writeIndex, m_readIndex, m_maximumReadIndex, reserved, taken,
                     currentWriteIndex, currentReadIndex, a_data>>
  BY <1>t DEF EnqStore, TypeOK
<1>2. /\ m_writeIndex \in Nat /\ m_readIndex \in Nat /\ m_maximumReadIndex \in Nat
      /\ m_readIndex <= m_maximumReadIndex
      /\ m_writeIndex < m_readIndex + Q_SIZE
      /\ w \in Nat /\ w \in m_maximumReadIndex .. m_writeIndex - 1
  BY <1>t, <1>1 DEF TypeOK, IndexOrder, InLap, ReservedSlotsOwned
<1>3. /\ m_thequeue'[countToIndex(w)] = reserved[w + 1]
      /\ a_data[p] = reserved[w + 1]
  <2>1. a_data[p] = reserved[w + 1]
    BY <1>t, <1>1 DEF ProducerOk
  <2>2. countToIndex(w) \in Slots
    BY <1>2, SlotInRange
  <2> QED BY <1>t, <1>1, <2>1, <2>2 DEF TypeOK
<1>4. ASSUME NEW i \in m_readIndex .. m_writeIndex - 1, i # w
      PROVE  m_thequeue'[countToIndex(i)] = m_thequeue[countToIndex(i)]
  <2>1. i \in Nat
    BY <1>2
  <2>2. CASE i < w
    BY <1>1, <1>2, <1>t, <2>1, <2>2, SlotInjective, SlotInRange, QSizeAssumption DEF TypeOK
  <2>3. CASE w < i
    BY <1>1, <1>2, <1>t, <2>1, <2>3, SlotInjective, SlotInRange, QSizeAssumption DEF TypeOK
  <2> QED BY <1>4, <1>2, <2>1, <2>2, <2>3
<1> HIDE DEF w
<1>5. IndexOrder' /\ FifoDelivery'
  BY <1>1, <1>t DEF IndexOrder, IInv, FifoDelivery, InLap
<1>6. CommittedInv'
  <2>1. \A i \in m_readIndex .. m_maximumReadIndex - 1 :
          i \in m_readIndex .. m_writeIndex - 1 /\ i # w
    BY <1>2
  <2>2. \A i \in m_readIndex .. m_maximumReadIndex - 1 :
          m_thequeue'[countToIndex(i)] = reserved[i + 1]
    BY <1>4, <1>t, <2>1 DEF CommittedInv
  <2> QED BY <1>t, <1>1, <2>2 DEF CommittedInv, countToIndex
<1>7. ReservedSlotsOwned'
  <2>1. \A q \in Producers :
          /\ Owner(q)' <=> Owner(q)
          /\ Owner(q) => currentWriteIndex'[q] = currentWriteIndex[q]
    BY <1>1, <1>s DEF SameLocals, Owner, Threads
  <2> QED BY <1>t, <1>1, <2>1, OwnershipFrame
<1>8. ProducerInv'
  <2> SUFFICES ASSUME NEW q \in Producers PROVE ProducerOk(q)'
    BY DEF ProducerInv
  <2>1. currentWriteIndex[q] \in Nat /\ ProducerOk(q)
    BY <1>t DEF TypeOK, Threads, IInv, ProducerInv
  <2>2. CASE q = p
    BY <1>1, <1>3, <2>1, <2>2 DEF ProducerOk, w, countToIndex
  <2>3. CASE q # p
    <3>1. SameLocals(q)
      BY <1>s, <2>3 DEF Threads
    <3>2. pc[q] = "enqCommit" =>
            /\ currentWriteIndex[q] \in m_maximumReadIndex .. m_writeIndex - 1
            /\ currentWriteIndex[q] # w
      BY <1>t, <1>1, <2>3 DEF ReservedSlotsOwned, Owns, w
    <3>3. pc[q] = "enqCommit" =>
            m_thequeue'[countToIndex(currentWriteIndex[q])]
              = m_thequeue[countToIndex(currentWriteIndex[q])]
      BY <1>2, <1>4, <3>2
    <3>4. pc[q] = "enqCommit" =>
            m_thequeue'[countToIndex(currentWriteIndex[q])]
              = reserved[currentWriteIndex[q] + 1]
      BY <2>1, <3>3 DEF ProducerOk
    <3> QED BY <1>1, <2>1, <3>1, <3>4 DEF ProducerOk, SameLocals, countToIndex
  <2> QED BY <2>2, <2>3
<1>9. ConsumerInv'
  <2> SUFFICES ASSUME NEW d \in Consumers PROVE ConsumerOk(d)'
    BY DEF ConsumerInv
  <2>1. SameLocals(d) /\ ConsumerOk(d)
    BY <1>s DEF Threads, IInv, ConsumerInv
  <2> QED BY <1>t, <1>1, <1>2, <2>1, ConsumerFrame
<1> QED BY <1>5, <1>6, <1>7, <1>8, <1>9 DEF IInv

\* The CAS on m_maximumReadIndex: the slot handed to the consumers is the one
\* its producer has filled, and the other reservations keep their owners.
LEMMA EnqCommitStep ==
  ASSUME IInv, TypeOK', NEW p \in Producers, EnqCommit(p)
  PROVE  IInv'
<1> p \in Threads /\ p \notin Consumers
  BY ThreadAssumption DEF Threads
<1> USE DEF Goto, indices, locals, history, ClearLocals
<1>t. TypeOK /\ IndexOrder /\ ProducerOk(p) /\ CommittedInv /\ ReservedSlotsOwned
  BY DEF IInv, ProducerInv
<1>s. \A s \in Threads \ {p} : SameLocals(s)
  BY <1>t DEF EnqCommit, SameLocals, TypeOK
<1>1. /\ pc[p] = "enqCommit" /\ pc'[p] = "enqCount"
      /\ currentWriteIndex[p] = m_maximumReadIndex
      /\ m_maximumReadIndex' = m_maximumReadIndex + 1
      /\ UNCHANGED <<m_writeIndex, m_readIndex, m_thequeue, reserved, taken>>
  BY <1>t DEF EnqCommit, TypeOK
<1>2. /\ m_writeIndex \in Nat /\ m_readIndex \in Nat /\ m_maximumReadIndex \in Nat
      /\ m_readIndex <= m_maximumReadIndex
      /\ m_maximumReadIndex < m_writeIndex
  BY <1>t, <1>1 DEF TypeOK, IndexOrder, ReservedSlotsOwned
<1>3. IndexOrder' /\ FifoDelivery'
  BY <1>1, <1>2, <1>t DEF IndexOrder, IInv, FifoDelivery, InLap
<1>4. CommittedInv'
  <2>1. \A i \in m_readIndex .. m_maximumReadIndex :
          i \in m_readIndex .. m_maximumReadIndex - 1 \/ i = m_maximumReadIndex
    BY <1>2
  <2>2. m_thequeue[countToIndex(m_maximumReadIndex)] = reserved[m_maximumReadIndex + 1]
    BY <1>t, <1>1 DEF ProducerOk
  <2>3. \A i \in m_readIndex .. m_maximumReadIndex :
          m_thequeue[countToIndex(i)] = reserved[i + 1]
    BY <1>t, <2>1, <2>2 DEF CommittedInv
  <2>4. (m_readIndex .. m_maximumReadIndex - 1)' = m_readIndex .. m_maximumReadIndex
    BY <1>1, <1>2
  <2> QED BY <1>t, <1>1, <2>3, <2>4 DEF CommittedInv, countToIndex
<1>5. ReservedSlotsOwned'
  <2>1. \A q \in Producers \ {p}, i \in Int : Owns(q, i)' <=> Owns(q, i)
    BY <1>s DEF Owns, SameLocals, Threads
  <2>2. \A i \in Int : ~Owns(p, i)'
    BY <1>1 DEF Owns
  <2>3. \A i \in m_maximumReadIndex + 1 .. m_writeIndex - 1 : ~Owns(p, i)
    BY <1>1, <1>2 DEF Owns
  <2>4. \A i \in m_maximumReadIndex + 1 .. m_writeIndex - 1 :
          \E q \in Producers : Owns(q, i)
    BY <1>2, <1>t DEF ReservedSlotsOwned
  <2>5. \A i \in m_maximumReadIndex + 1 .. m_writeIndex - 1 :
          \E q \in Producers : Owns(q, i)'
    BY <1>2, <2>1, <2>3, <2>4
  <2>6. ASSUME NEW q \in Producers, pc'[q] \in {"enqStore", "enqCommit"}
        PROVE  /\ currentWriteIndex'[q] \in m_maximumReadIndex + 1 .. m_writeIndex - 1
               /\ \A r \in Producers \ {q} : ~Owns(r, currentWriteIndex[q])'
    <3>1. q # p
      BY <1>1, <2>6
    <3>2. /\ pc[q] \in {"enqStore", "enqCommit"}
          /\ currentWriteIndex'[q] = currentWriteIndex[q]
      BY <1>s, <2>6, <3>1 DEF SameLocals, Threads
    <3>3. /\ currentWriteIndex[q] \in m_maximumReadIndex .. m_writeIndex - 1
          /\ \A r \in Producers \ {q} : ~Owns(r, currentWriteIndex[q])
      BY <1>t, <3>2 DEF ReservedSlotsOwned
    <3>4. currentWriteIndex[q] # m_maximumReadIndex
      BY <1>1, <3>1, <3>3 DEF Owns
    <3>5. currentWriteIndex[q] \in Int
      BY <1>2, <3>3
    <3>6. ASSUME NEW r \in Producers \ {q}
          PROVE  ~Owns(r, currentWriteIndex[q])'
      <4>1. CASE r = p
        BY <1>1, <4>1 DEF Owns
      <4>2. CASE r # p
        BY <1>s, <3>2, <3>3, <4>2 DEF Owns, SameLocals, Threads
      <4> QED BY <4>1, <4>2
    <3>7. currentWriteIndex[q] \in m_maximumReadIndex + 1 .. m_writeIndex - 1
      BY <1>2, <3>3, <3>4
    <3> QED BY <3>2, <3>6, <3>7
  <2>7. (m_maximumReadIndex .. m_writeIndex - 1)'
          = m_maximumReadIndex + 1 .. m_writeIndex - 1
    BY <1>1
  <2> QED BY <2>5, <2>6, <2>7 DEF ReservedSlotsOwned
<1>6. ProducerInv'
  <2> SUFFICES ASSUME NEW q \in Producers PROVE ProducerOk(q)'
    BY DEF ProducerInv
  <2>1. CASE q = p
    BY <1>1, <2>1 DEF ProducerOk
  <2>2. CASE q # p
    <3>1. SameLocals(q) /\ ProducerOk(q)
      BY <1>s, <2>2 DEF Threads, IInv, ProducerInv
    <3> QED BY <1>t, <1>1, <1>2, <3>1, ProducerFrame
  <2> QED BY <2>1, <2>2
<1>7. ConsumerInv'
  <2> SUFFICES ASSUME NEW d \in Consumers PROVE ConsumerOk(d)'
    BY DEF ConsumerInv
  <2>1. SameLocals(d) /\ ConsumerOk(d)
    BY <1>s DEF Threads, IInv, ConsumerInv
  <2>2. m_maximumReadIndex' \in Nat /\ m_maximumReadIndex' >= m_maximumReadIndex
    BY <1>1, <1>2
  <2> QED BY <1>t, <1>1, <1>2, <2>1, <2>2, ConsumerFrame
<1> QED BY <1>3, <1>4, <1>5, <1>6, <1>7 DEF IInv

-----------------------------------------------------------------------------
(* The steps of dequeue and of size.                                          *)

\* Steps of dequeue that only move the thread itself: the two loads, the fetch
\* of the slot, a failed CAS, the count and the answer FALSE.
LEMMA DequeueLocalSteps ==
  ASSUME IInv, TypeOK', NEW c \in Consumers,
         \/ DeqLoadRead(c)
         \/ DeqLoadMax(c)
         \/ DeqFetch(c)
         \/ DeqTake(c) /\ m_readIndex # currentReadIndex[c]
         \/ DeqCount(c)
         \/ DeqReturnFalse(c)
  PROVE  IInv'
<1> c \in Threads /\ c \notin Producers
  BY ThreadAssumption DEF Threads
<1> USE DEF Goto, indices, locals, history, ClearLocals
<1>t. TypeOK /\ IndexOrder /\ ConsumerOk(c) /\ CommittedInv
  BY DEF IInv, ConsumerInv
<1>1. CASE DeqLoadRead(c)
  <2>1. ConsumerOk(c)'
    BY <1>1, <1>t DEF DeqLoadRead, ConsumerOk, TypeOK
  <2>2. \A s \in Threads \ {c} : SameLocals(s)
    BY <1>1, <1>t DEF DeqLoadRead, SameLocals, TypeOK
  <2> QED BY <1>1, <2>1, <2>2, LocalStep DEF DeqLoadRead
<1>2. CASE DeqLoadMax(c)
  <2>1. ConsumerOk(c)'
    <3>1. CASE LooksEmpty(currentReadIndex[c], m_maximumReadIndex)
      BY <1>2, <1>t, <3>1 DEF DeqLoadMax, ConsumerOk, TypeOK
    <3>2. CASE ~LooksEmpty(currentReadIndex[c], m_maximumReadIndex)
      <4>1. currentReadIndex[c] # m_maximumReadIndex
        BY <3>2 DEF LooksEmpty
      <4>2. /\ pc[c] = "deqLoadMax" /\ pc'[c] = "deqFetch"
            /\ currentReadIndex'[c] = currentReadIndex[c]
            /\ UNCHANGED <<m_readIndex, m_maximumReadIndex>>
        BY <1>2, <1>t, <3>2 DEF DeqLoadMax, TypeOK
      <4>3. /\ currentReadIndex[c] \in Nat /\ m_readIndex \in Nat
            /\ m_maximumReadIndex \in Nat /\ m_readIndex <= m_maximumReadIndex
        BY <1>t DEF TypeOK, IndexOrder
      <4>4. currentReadIndex[c] < m_maximumReadIndex
        BY <1>t, <4>1, <4>2, <4>3 DEF ConsumerOk
      <4> QED BY <1>t, <4>2, <4>4 DEF ConsumerOk
    <3> QED BY <3>1, <3>2
  <2>2. \A s \in Threads \ {c} : SameLocals(s)
    BY <1>2, <1>t DEF DeqLoadMax, SameLocals, TypeOK
  <2> QED BY <1>2, <2>1, <2>2, LocalStep DEF DeqLoadMax
<1>3. CASE DeqFetch(c)
  <2>1. ConsumerOk(c)'
    <3>1. /\ pc[c] = "deqFetch" /\ pc'[c] = "deqTake"
          /\ currentReadIndex'[c] = currentReadIndex[c]
          /\ a_data'[c] = m_thequeue[countToIndex(currentReadIndex[c])]
          /\ UNCHANGED <<m_readIndex, m_maximumReadIndex, reserved>>
      BY <1>3, <1>t DEF DeqFetch, TypeOK
    <3>2. currentReadIndex[c] = m_readIndex =>
            m_thequeue[countToIndex(currentReadIndex[c])]
              = reserved[currentReadIndex[c] + 1]
      <4> SUFFICES ASSUME currentReadIndex[c] = m_readIndex
                   PROVE  m_thequeue[countToIndex(m_readIndex)] = reserved[m_readIndex + 1]
        OBVIOUS
      <4>1. m_readIndex < m_maximumReadIndex
        BY <1>t, <3>1 DEF ConsumerOk
      <4>2. m_readIndex \in m_readIndex .. m_maximumReadIndex - 1
        BY <1>t, <4>1 DEF TypeOK
      <4> QED BY <1>t, <4>2 DEF CommittedInv
    <3> QED BY <1>t, <3>1, <3>2 DEF ConsumerOk
  <2>2. \A s \in Threads \ {c} : SameLocals(s)
    BY <1>3, <1>t DEF DeqFetch, SameLocals, TypeOK
  <2> QED BY <1>3, <2>1, <2>2, LocalStep DEF DeqFetch
<1>4. CASE DeqTake(c) /\ m_readIndex # currentReadIndex[c]
  <2>1. ConsumerOk(c)'
    BY <1>4, <1>t DEF DeqTake, ConsumerOk, TypeOK
  <2>2. \A s \in Threads \ {c} : SameLocals(s)
    BY <1>4, <1>t DEF DeqTake, SameLocals, TypeOK
  <2> QED BY <1>4, <2>1, <2>2, LocalStep DEF DeqTake
<1>5. CASE DeqCount(c)
  <2>1. ConsumerOk(c)'
    BY <1>5, <1>t DEF DeqCount, ConsumerOk, TypeOK
  <2>2. \A s \in Threads \ {c} : SameLocals(s)
    BY <1>5, <1>t DEF DeqCount, SameLocals, TypeOK
  <2> QED BY <1>5, <2>1, <2>2, LocalStep DEF DeqCount
<1>6. CASE DeqReturnFalse(c)
  <2>1. ConsumerOk(c)'
    BY <1>6, <1>t DEF DeqReturnFalse, ConsumerOk, TypeOK
  <2>2. \A s \in Threads \ {c} : SameLocals(s)
    BY <1>6, <1>t DEF DeqReturnFalse, SameLocals, TypeOK
  <2> QED BY <1>6, <2>1, <2>2, LocalStep DEF DeqReturnFalse
<1> QED BY <1>1, <1>2, <1>3, <1>4, <1>5, <1>6

\* The CAS on m_readIndex: the element taken is the next one in the order of the
\* reservations.
LEMMA DeqTakeStep ==
  ASSUME IInv, TypeOK', NEW c \in Consumers, DeqTake(c), m_readIndex = currentReadIndex[c]
  PROVE  IInv'
<1> c \in Threads /\ c \notin Producers
  BY ThreadAssumption DEF Threads
<1> USE DEF Goto, indices, locals, history, ClearLocals
<1>t. TypeOK /\ IndexOrder /\ ConsumerOk(c) /\ CommittedInv /\ FifoDelivery
  BY DEF IInv, ConsumerInv
<1>s. \A s \in Threads \ {c} : SameLocals(s)
  BY <1>t DEF DeqTake, SameLocals, TypeOK
<1>1. /\ pc[c] = "deqTake" /\ pc'[c] = "deqCount"
      /\ m_readIndex' = m_readIndex + 1
      /\ taken' = Append(taken, a_data[c])
      /\ UNCHANGED <<m_writeIndex, m_maximumReadIndex, m_thequeue, reserved>>
  BY <1>t DEF DeqTake, TypeOK
<1>2. /\ m_writeIndex \in Nat /\ m_readIndex \in Nat /\ m_maximumReadIndex \in Nat
      /\ m_readIndex < m_maximumReadIndex /\ m_maximumReadIndex <= m_writeIndex
      /\ a_data[c] = reserved[m_readIndex + 1] /\ a_data[c] \in Elems
      /\ taken \in Seq(Elems) /\ Len(taken) = m_readIndex /\ Len(reserved) = m_writeIndex
  BY <1>t, <1>1 DEF TypeOK, IndexOrder, ConsumerOk, CommittedInv
<1>3. /\ Len(taken') = m_readIndex + 1
      /\ \A n \in 1 .. m_readIndex : taken'[n] = taken[n]
      /\ taken'[m_readIndex + 1] = a_data[c]
  BY <1>1, <1>2
<1>4. IndexOrder'
  <2>1. InLap(m_writeIndex, m_readIndex + 1)
    BY <1>t, <1>2, LapMonotone DEF IndexOrder
  <2>2. InLap(m_writeIndex, m_readIndex)'
    BY <1>1, <2>1 DEF InLap
  <2> QED BY <1>1, <1>2, <2>2 DEF IndexOrder
<1>5. FifoDelivery'
  <2>1. \A n \in 1 .. m_readIndex : taken'[n] = reserved[n]
    BY <1>t, <1>2, <1>3 DEF FifoDelivery
  <2>2. taken'[m_readIndex + 1] = reserved[m_readIndex + 1]
    BY <1>2, <1>3
  <2>3. \A n \in 1 .. m_readIndex + 1 : n \in 1 .. m_readIndex \/ n = m_readIndex + 1
    BY <1>2
  <2>4. \A n \in 1 .. m_readIndex + 1 : taken'[n] = reserved[n]
    BY <2>1, <2>2, <2>3
  <2>5. /\ 1 .. Len(taken') = 1 .. m_readIndex + 1
        /\ Len(taken') <= Len(reserved) /\ reserved' = reserved
    BY <1>1, <1>2, <1>3
  <2> QED BY <2>4, <2>5 DEF FifoDelivery
<1>6. CommittedInv'
  <2>1. \A i \in m_readIndex + 1 .. m_maximumReadIndex - 1 :
          m_thequeue[countToIndex(i)] = reserved[i + 1]
    BY <1>t, <1>2 DEF CommittedInv
  <2>2. (m_readIndex .. m_maximumReadIndex - 1)' = m_readIndex + 1 .. m_maximumReadIndex - 1
    BY <1>1
  <2> QED BY <1>t, <1>1, <1>3, <2>1, <2>2 DEF CommittedInv, countToIndex
<1>7. ReservedSlotsOwned'
  <2>1. \A q \in Producers :
          /\ Owner(q)' <=> Owner(q)
          /\ Owner(q) => currentWriteIndex'[q] = currentWriteIndex[q]
    BY <1>s DEF SameLocals, Owner, Threads
  <2> QED BY <1>1, <2>1, OwnershipFrame DEF IInv
<1>8. ProducerInv'
  <2> SUFFICES ASSUME NEW q \in Producers PROVE ProducerOk(q)'
    BY DEF ProducerInv
  <2>1. SameLocals(q) /\ ProducerOk(q)
    BY <1>s DEF Threads, IInv, ProducerInv
  <2>2. m_readIndex' \in Nat /\ m_readIndex' >= m_readIndex
    BY <1>1, <1>2
  <2> QED BY <1>t, <1>1, <2>1, <2>2, ProducerFrame
<1>9. ConsumerInv'
  <2> SUFFICES ASSUME NEW d \in Consumers PROVE ConsumerOk(d)'
    BY DEF ConsumerInv
  <2>1. CASE d = c
    BY <1>1, <2>1 DEF ConsumerOk
  <2>2. CASE d # c
    <3>1. SameLocals(d) /\ ConsumerOk(d) /\ currentReadIndex[d] \in Nat
      BY <1>s, <1>t, <2>2 DEF Threads, IInv, ConsumerInv, TypeOK
    <3>2. currentReadIndex[d] <= m_readIndex =>
            /\ currentReadIndex[d] <= m_readIndex'
            /\ currentReadIndex[d] # m_readIndex'
      BY <1>1, <1>2, <3>1
    <3>3. pc[d] = "deqTake" => currentReadIndex[d] # m_readIndex'
      BY <3>1, <3>2 DEF ConsumerOk
    <3> QED BY <1>1, <3>1, <3>2, <3>3 DEF ConsumerOk, SameLocals
  <2> QED BY <2>1, <2>2
<1> QED BY <1>4, <1>5, <1>6, <1>7, <1>8, <1>9 DEF IInv

\* size only moves the observer.
LEMMA SizeSteps ==
  ASSUME IInv, TypeOK', NEW o \in Observers, SizeStep(o)
  PROVE  IInv'
<1> o \in Threads /\ o \notin Producers /\ o \notin Consumers
  BY ThreadAssumption DEF Threads
<1> USE DEF Goto, indices, locals, history, ClearLocals
<1>1. TypeOK
  BY DEF IInv
<1>2. \A s \in Threads \ {o} : SameLocals(s)
  BY <1>1 DEF SizeStep, SizeLoadWrite, SizeLoadRead, SameLocals, TypeOK
<1>3. UNCHANGED <<indices, m_thequeue, history>>
  BY DEF SizeStep, SizeLoadWrite, SizeLoadRead
<1> QED BY <1>2, <1>3, LocalStep

-----------------------------------------------------------------------------
(* The theorems.                                                              *)

\* Every step of the ring preserves the inductive invariant.
LEMMA InvStep == IInv /\ [Next]_vars => IInv'
<1> SUFFICES ASSUME IInv, [Next]_vars PROVE IInv'
  OBVIOUS
<1>1. TypeOK'
  BY TypeStep DEF IInv
<1>2. ASSUME NEW p \in Producers, EnqueueStep(p) PROVE IInv'
  BY <1>1, <1>2, EnqueueLocalSteps, EnqReserveStep, EnqStoreStep, EnqCommitStep
     DEF EnqueueStep
<1>3. ASSUME NEW c \in Consumers, DequeueStep(c) PROVE IInv'
  BY <1>1, <1>3, DequeueLocalSteps, DeqTakeStep DEF DequeueStep
<1>4. ASSUME NEW o \in Observers, SizeStep(o) PROVE IInv'
  BY <1>1, <1>4, SizeSteps
<1>5. CASE UNCHANGED vars
  BY <1>5 DEF vars, indices, locals, history, IInv, TypeOK, IndexOrder, InLap,
     FifoDelivery, ReservedSlotsOwned, Owns, ProducerInv, ProducerOk, ConsumerInv,
     ConsumerOk, CommittedInv, countToIndex
<1> QED BY <1>2, <1>3, <1>4, <1>5 DEF Next

\* The inductive invariant holds initially.
LEMMA InvInit == Init => IInv
<1> SUFFICES ASSUME Init PROVE IInv
  OBVIOUS
<1>1. TypeOK
  BY DEF Init, TypeOK, PCs, Elems, Slots
<1>2. IndexOrder /\ FifoDelivery /\ CommittedInv
  BY QSizeAssumption DEF Init, IndexOrder, InLap, FifoDelivery, CommittedInv
<1>3. ReservedSlotsOwned /\ ProducerInv /\ ConsumerInv
  BY DEF Init, ReservedSlotsOwned, ProducerInv, ProducerOk, ConsumerInv, ConsumerOk, Threads
<1> QED BY <1>1, <1>2, <1>3 DEF IInv

\* The inductive invariant of the ring holds for every number of threads, every
\* Q_SIZE and every bound.
THEOREM Invariance == Spec => []IInv
BY InvInit, InvStep, PTL DEF Spec

\* The indices never pass each other: the ring neither overflows nor hands out
\* an uncommitted slot.
THEOREM IndexSafety == Spec => []IndexOrder
<1>1. IInv => IndexOrder
  BY DEF IInv
<1> QED BY <1>1, Invariance, PTL

\* The n-th successful dequeue returns the element of the n-th reservation.
THEOREM FifoSafety == Spec => []FifoDelivery
<1>1. IInv => FifoDelivery
  BY DEF IInv
<1> QED BY <1>1, Invariance, PTL

\* Every reserved, uncommitted index has exactly one producer that will commit it.
THEOREM OwnershipSafety == Spec => []ReservedSlotsOwned
<1>1. IInv => ReservedSlotsOwned
  BY DEF IInv
<1> QED BY <1>1, Invariance, PTL

-----------------------------------------------------------------------------
(* Refinement: ImplementsFifo from the inductive invariant.  The committed    *)
(* slots hold a segment of the history of reservations; on that segment a     *)
(* commit is an Append and the CAS of dequeue a Head and a Tail.              *)

\* The segment of the reservations that is committed and not yet taken.
Committed == SubSeq(reserved, m_readIndex + 1, m_maximumReadIndex)

\* Slots that hold the reservations r+1 .. m, read in order, are that segment.
LEMMA SlotsAreSegment ==
  ASSUME NEW r \in Nat, NEW m \in Nat, r <= m, NEW slots, NEW s,
         \A i \in r .. m - 1 : slots[countToIndex(i)] = s[i + 1]
  PROVE  [n \in 1 .. m - r |-> slots[countToIndex(r + n - 1)]] = SubSeq(s, r + 1, m)
<1>1. ASSUME NEW n \in 1 .. m - r
      PROVE  slots[countToIndex(r + n - 1)] = s[r + n]
  <2> DEFINE i == r + n - 1
  <2>1. i \in r .. m - 1 /\ i + 1 = r + n
    OBVIOUS
  <2> HIDE DEF i
  <2>2. slots[countToIndex(i)] = s[r + n]
    BY <2>1
  <2> QED BY <2>2 DEF i
<1>2. SubSeq(s, r + 1, m) = [n \in 1 .. m - r |-> s[r + n]]
  OBVIOUS
<1> QED BY <1>1, <1>2

\* What the users see in the ring is the committed segment ...
LEMMA ContentsAreCommitted == IInv => Contents = Committed
<1> SUFFICES ASSUME IInv PROVE Contents = Committed
  OBVIOUS
<1>1. /\ m_readIndex \in Nat
      /\ m_maximumReadIndex \in Nat
      /\ m_readIndex <= m_maximumReadIndex
      /\ \A i \in m_readIndex .. m_maximumReadIndex - 1 :
           m_thequeue[countToIndex(i)] = reserved[i + 1]
  BY DEF IInv, TypeOK, IndexOrder, CommittedInv
<1> QED BY <1>1, SlotsAreSegment DEF Contents, Committed

\* ... also in the next state.
LEMMA ContentsAreCommittedNext == IInv' => Contents' = Committed'
<1> SUFFICES ASSUME IInv' PROVE Contents' = Committed'
  OBVIOUS
<1> DEFINE r == m_readIndex'
           m == m_maximumReadIndex'
           slots == m_thequeue'
           s == reserved'
<1>1. /\ r \in Nat /\ m \in Nat /\ r <= m
      /\ \A i \in r .. m - 1 : slots[countToIndex(i)] = s[i + 1]
  BY DEF IInv, TypeOK, IndexOrder, CommittedInv, countToIndex
<1>2. Contents' = [n \in 1 .. m - r |-> slots[countToIndex(r + n - 1)]]
  BY DEF Contents, countToIndex
<1>3. Committed' = SubSeq(s, r + 1, m)
  BY DEF Committed
<1> HIDE DEF r, m, slots, s
<1>4. [n \in 1 .. m - r |-> slots[countToIndex(r + n - 1)]] = SubSeq(s, r + 1, m)
  BY <1>1, SlotsAreSegment
<1> QED BY <1>2, <1>3, <1>4

\* What the invariant says of the segment: it lies inside the reservations and
\* all of these are elements.
LEMMA SegmentBounds ==
  ASSUME IInv
  PROVE  /\ reserved \in Seq(Values)
         /\ Len(reserved) = m_writeIndex
         /\ m_writeIndex \in Nat /\ m_readIndex \in Nat /\ m_maximumReadIndex \in Nat
         /\ m_readIndex <= m_maximumReadIndex
         /\ m_maximumReadIndex <= m_writeIndex
<1>1. /\ reserved \in Seq(Elems) /\ Len(reserved) = m_writeIndex
      /\ \A n \in 1 .. m_writeIndex : reserved[n] \in Values
  BY DEF IInv, TypeOK, CommittedInv
<1>2. reserved \in Seq(Values)
  BY <1>1
<1> QED BY <1>1, <1>2 DEF IInv, TypeOK, IndexOrder

\* A step that moves neither end of the segment, and appends to the reservations
\* at most, changes nothing a user sees.
LEMMA InvisibleStep ==
  ASSUME IInv, IInv', UNCHANGED <<m_readIndex, m_maximumReadIndex, taken>>,
         reserved' = reserved \/ \E v : reserved' = Append(reserved, v)
  PROVE  UNCHANGED <<Contents, taken>>
<1> DEFINE lo == m_readIndex + 1
           hi == m_maximumReadIndex
<1>1. /\ reserved \in Seq(Values) /\ lo \in Nat \ {0} /\ hi \in Nat
      /\ hi <= Len(reserved)
  BY SegmentBounds
<1>2. Committed' = SubSeq(reserved', lo, hi)
  BY DEF Committed
<1>3. \A n \in lo .. hi : reserved'[n] = reserved[n]
  BY <1>1
<1> HIDE DEF lo, hi
<1>4. SubSeq(reserved', lo, hi) = SubSeq(reserved, lo, hi)
  BY <1>1, <1>3
<1>5. Committed' = Committed
  BY <1>2, <1>4 DEF Committed, lo, hi
<1> QED BY <1>5, ContentsAreCommitted, ContentsAreCommittedNext

\* A commit puts the element of the oldest uncommitted reservation.
LEMMA CommitPuts ==
  ASSUME IInv, IInv', NEW p \in Producers, EnqCommit(p)
  PROVE  \E v \in Values : Fifo!Put(v)
<1> DEFINE v == reserved[m_maximumReadIndex + 1]
<1>1. /\ reserved \in Seq(Values) /\ Len(reserved) = m_writeIndex
      /\ m_writeIndex \in Nat /\ m_readIndex \in Nat /\ m_maximumReadIndex \in Nat
      /\ m_readIndex <= m_maximumReadIndex
  BY SegmentBounds
<1>2. /\ m_maximumReadIndex' = m_maximumReadIndex + 1
      /\ m_readIndex' = m_readIndex /\ reserved' = reserved /\ taken' = taken
  BY DEF EnqCommit, history
<1>3. m_maximumReadIndex < m_writeIndex
  <2>1. p \in Threads
    BY DEF Threads
  <2>2. pc[p] = "enqCommit" /\ currentWriteIndex[p] = m_maximumReadIndex
    BY DEF EnqCommit, Goto
  <2>3. currentWriteIndex[p] \in m_maximumReadIndex .. m_writeIndex - 1
    BY <2>2 DEF IInv, ReservedSlotsOwned
  <2> QED BY <1>1, <2>2, <2>3
<1>4. v \in Values
  BY <1>1, <1>3
<1>5. Len(Contents) < Q_SIZE - 1
  <2>1. m_writeIndex < m_readIndex + Q_SIZE
    BY DEF IInv, IndexOrder, InLap
  <2>2. Len(Contents) = m_maximumReadIndex - m_readIndex
    BY <1>1 DEF Contents
  <2> QED BY <1>1, <1>3, <2>1, <2>2, QSizeAssumption
<1>6. SubSeq(reserved, m_readIndex + 1, m_maximumReadIndex + 1)
        = Append(SubSeq(reserved, m_readIndex + 1, m_maximumReadIndex), v)
  BY <1>1, <1>3
<1>7. Committed' = Append(Committed, v)
  <2>1. Committed' = SubSeq(reserved', m_readIndex' + 1, m_maximumReadIndex')
    BY DEF Committed
  <2>2. Committed' = SubSeq(reserved, m_readIndex + 1, m_maximumReadIndex + 1)
    BY <1>2, <2>1
  <2> QED BY <1>6, <2>2 DEF Committed
<1>8. Contents' = Append(Contents, v)
  BY <1>7, ContentsAreCommitted, ContentsAreCommittedNext
<1>9. Fifo!Put(v)
  BY <1>2, <1>5, <1>8 DEF Fifo!Put
<1> QED BY <1>4, <1>9

\* The successful CAS of dequeue gets the oldest element.
LEMMA TakeGets ==
  ASSUME IInv, IInv', NEW c \in Consumers, DeqTake(c),
         m_readIndex = currentReadIndex[c]
  PROVE  Fifo!Get
<1>1. /\ reserved \in Seq(Values) /\ Len(reserved) = m_writeIndex
      /\ m_writeIndex \in Nat /\ m_readIndex \in Nat /\ m_maximumReadIndex \in Nat
      /\ m_maximumReadIndex <= m_writeIndex
  BY SegmentBounds
<1>2. /\ m_maximumReadIndex' = m_maximumReadIndex
      /\ m_readIndex' = m_readIndex + 1 /\ reserved' = reserved
      /\ taken' = Append(taken, a_data[c])
  BY DEF DeqTake
<1>3. pc[c] = "deqTake"
  BY DEF DeqTake, Goto
<1>4. m_readIndex < m_maximumReadIndex /\ a_data[c] = reserved[m_readIndex + 1]
  BY <1>3 DEF IInv, ConsumerInv, ConsumerOk
<1>5. /\ m_readIndex + 1 \in 1 .. Len(reserved)
      /\ m_maximumReadIndex \in (m_readIndex + 1) .. Len(reserved)
  BY <1>1, <1>4
<1>6. /\ Head(Committed) = reserved[m_readIndex + 1]
      /\ Tail(Committed) = SubSeq(reserved, (m_readIndex + 1) + 1, m_maximumReadIndex)
  BY <1>1, <1>5, HeadTailOfSubSeq DEF Committed
<1>7. Committed # <<>>
  <2>1. Len(Committed) = m_maximumReadIndex - m_readIndex
    BY <1>1, <1>4 DEF Committed
  <2> QED BY <1>1, <1>4, <2>1
<1>8. Committed' = Tail(Committed)
  <2>1. Committed' = SubSeq(reserved', m_readIndex' + 1, m_maximumReadIndex')
    BY DEF Committed
  <2> QED BY <1>2, <1>6, <2>1
<1>9. Contents = Committed /\ Contents' = Committed'
  BY ContentsAreCommitted, ContentsAreCommittedNext
<1>10. taken' = Append(taken, Head(Contents)) /\ Contents' = Tail(Contents) /\ Contents # <<>>
  BY <1>2, <1>4, <1>6, <1>7, <1>8, <1>9
<1> QED BY <1>10 DEF Fifo!Get

\* Every step of the ring is a step of the FIFO or invisible.
LEMMA RefinementStep ==
  IInv /\ IInv' /\ [Next]_vars => [Fifo!Next]_<<Contents, taken>>
<1> SUFFICES ASSUME IInv, IInv', [Next]_vars
             PROVE  Fifo!Next \/ UNCHANGED <<Contents, taken>>
  OBVIOUS
<1> USE DEF indices, history
<1>1. ASSUME NEW p \in Producers, EnqueueStep(p)
      PROVE  Fifo!Next \/ UNCHANGED <<Contents, taken>>
  <2>1. CASE EnqCommit(p)
    BY <2>1, CommitPuts DEF Fifo!Next
  <2>2. CASE EnqReserve(p)
    <3>1. /\ UNCHANGED <<m_readIndex, m_maximumReadIndex, taken>>
          /\ reserved' = reserved \/ reserved' = Append(reserved, a_data[p])
      BY <2>2 DEF EnqReserve
    <3> QED BY <3>1, InvisibleStep
  <2>3. CASE ~EnqCommit(p) /\ ~EnqReserve(p)
    <3>1. UNCHANGED <<m_readIndex, m_maximumReadIndex, taken, reserved>>
      BY <1>1, <2>3 DEF EnqueueStep, BeginEnqueue, EnqLoadWrite, EnqLoadRead,
         EnqStore, EnqCount, EnqReturnFalse
    <3> QED BY <3>1, InvisibleStep
  <2> QED BY <2>1, <2>2, <2>3
<1>2. ASSUME NEW c \in Consumers, DequeueStep(c)
      PROVE  Fifo!Next \/ UNCHANGED <<Contents, taken>>
  <2>1. CASE DeqTake(c) /\ m_readIndex = currentReadIndex[c]
    BY <2>1, TakeGets DEF Fifo!Next
  <2>2. CASE DeqTake(c) /\ m_readIndex # currentReadIndex[c]
    <3>1. UNCHANGED <<m_readIndex, m_maximumReadIndex, taken, reserved>>
      BY <2>2 DEF DeqTake
    <3> QED BY <3>1, InvisibleStep
  <2>3. CASE ~DeqTake(c)
    <3>1. UNCHANGED <<m_readIndex, m_maximumReadIndex, taken, reserved>>
      BY <1>2, <2>3 DEF DequeueStep, DeqLoadRead, DeqLoadMax, DeqFetch, DeqCount,
         DeqReturnFalse
    <3> QED BY <3>1, InvisibleStep
  <2> QED BY <2>1, <2>2, <2>3
<1>3. ASSUME NEW o \in Observers, SizeStep(o)
      PROVE  UNCHANGED <<Contents, taken>>
  <2>1. UNCHANGED <<m_readIndex, m_maximumReadIndex, taken, reserved>>
    BY <1>3 DEF SizeStep, SizeLoadWrite, SizeLoadRead
  <2> QED BY <2>1, InvisibleStep
<1>4. CASE UNCHANGED vars
  BY <1>4, InvisibleStep DEF vars
<1> QED BY <1>1, <1>2, <1>3, <1>4 DEF Next

\* The empty ring is the empty FIFO.
LEMMA RefinementInit == Init => Fifo!Init
BY DEF Init, Fifo!Init, Contents

\* The ring implements a FIFO of capacity Q_SIZE - 1: enqueue and dequeue, with
\* their separate reserve, store, commit, fetch and take accesses, look atomic.
THEOREM FifoRefinement == Spec => ImplementsFifo
BY RefinementInit, RefinementStep, Invariance, PTL DEF Spec, ImplementsFifo, Fifo!Spec

-----------------------------------------------------------------------------
(* The counts: CountsHonest.  m_count lags behind the indices by the calls    *)
(* that moved one and have not adjusted it, and those are finitely many       *)
(* although the threads need not be.                                          *)

Committing == {p \in Producers : pc[p] = "enqCount"}
Taking == {c \in Consumers : pc[c] = "deqCount"}

\* A stale write index of size() is never ahead.
ObserverInv ==
  \A o \in Observers : pc[o] = "sizeLoadRead" => currentWriteIndex[o] <= m_writeIndex

CountInv == /\ IsFiniteSet(Committing)
            /\ IsFiniteSet(Taking)
            /\ CountLag
            /\ ObserverInv

\* One thread enters or leaves a finite set.
LEMMA OneIn ==
  ASSUME NEW S, IsFiniteSet(S), NEW T, NEW t, t \notin S, T = S \union {t}
  PROVE  IsFiniteSet(T) /\ Cardinality(T) = Cardinality(S) + 1 /\ Cardinality(S) \in Nat
BY FS_AddElement, FS_CardinalityType

LEMMA OneOut ==
  ASSUME NEW S, IsFiniteSet(S), NEW T, NEW t, t \in S, T = S \ {t}
  PROVE  IsFiniteSet(T) /\ Cardinality(T) = Cardinality(S) - 1 /\ Cardinality(S) \in Nat
BY FS_RemoveElement, FS_CardinalityType

\* What a stale write index knows survives a step that leaves the observers alone.
LEMMA ObserverFrame ==
  ASSUME TypeOK, ObserverInv, m_writeIndex' \in Nat, m_writeIndex' >= m_writeIndex,
         \A o \in Observers : pc'[o] = pc[o] /\ currentWriteIndex'[o] = currentWriteIndex[o]
  PROVE  ObserverInv'
BY DEF ObserverInv, TypeOK, Threads

\* A step that moves thread t between two places where nothing is to be
\* counted, and moves neither end of the queue, changes nothing CountLag sees.
LEMMA CountFrame ==
  ASSUME CountInv, NEW t \in Threads,
         \A s \in Threads \ {t} : pc'[s] = pc[s],
         {pc[t], pc'[t]} \intersect {"enqCount", "deqCount"} = {},
         UNCHANGED <<m_count, m_readIndex, m_maximumReadIndex>>
  PROVE  IsFiniteSet(Committing)' /\ IsFiniteSet(Taking)' /\ CountLag'
<1>1. Committing' = Committing
  BY DEF Committing, Threads
<1>2. Taking' = Taking
  BY DEF Taking, Threads
<1> QED BY <1>1, <1>2 DEF CountInv, CountLag, Committing, Taking

\* The steps of enqueue: a commit makes one more call pending, the atomic add on
\* m_count settles it.
LEMMA EnqueueCounts ==
  ASSUME IInv, CountInv, NEW p \in Producers, EnqueueStep(p)
  PROVE  CountInv'
<1> p \in Threads /\ p \notin Consumers /\ p \notin Observers
  BY ThreadAssumption DEF Threads
<1> USE DEF Goto, indices, locals, ClearLocals
<1>t. TypeOK /\ TypeOK'
  BY InvStep DEF IInv, Next
<1>s. \A s \in Threads \ {p} : pc'[s] = pc[s] /\ currentWriteIndex'[s] = currentWriteIndex[s]
  BY <1>t DEF TypeOK, EnqueueStep, BeginEnqueue, EnqLoadWrite, EnqLoadRead, EnqReserve,
     EnqStore, EnqCommit, EnqCount, EnqReturnFalse
<1>o. ObserverInv'
  <2>1. m_writeIndex' \in Nat /\ m_writeIndex' >= m_writeIndex
    BY <1>t DEF TypeOK, EnqueueStep, BeginEnqueue, EnqLoadWrite, EnqLoadRead, EnqReserve,
       EnqStore, EnqCommit, EnqCount, EnqReturnFalse
  <2>2. \A o \in Observers : o \in Threads \ {p}
    BY DEF Threads
  <2> QED BY <1>t, <1>s, <2>1, <2>2, ObserverFrame DEF CountInv
<1>c. Taking' = Taking
  BY <1>s DEF Taking, Threads
<1>n. /\ m_readIndex \in Nat /\ m_maximumReadIndex \in Nat /\ m_count \in Int
      /\ IsFiniteSet(Committing) /\ IsFiniteSet(Taking)
      /\ m_count = (m_maximumReadIndex - m_readIndex) - Cardinality(Committing)
                   + Cardinality(Taking)
  BY <1>t DEF TypeOK, CountInv, CountLag, Committing, Taking
<1>k. Cardinality(Taking) \in Nat
  BY <1>n, FS_CardinalityType
<1>1. CASE EnqCommit(p)
  <2>1. /\ pc[p] = "enqCommit" /\ pc'[p] = "enqCount"
        /\ m_maximumReadIndex' = m_maximumReadIndex + 1
        /\ m_count' = m_count /\ m_readIndex' = m_readIndex
    BY <1>1, <1>t DEF EnqCommit, TypeOK
  <2>2. p \notin Committing /\ Committing' = Committing \union {p}
    BY <1>s, <2>1 DEF Committing, Threads
  <2>3. /\ IsFiniteSet(Committing') /\ Cardinality(Committing') = Cardinality(Committing) + 1
        /\ Cardinality(Committing) \in Nat
    BY <1>n, <2>2, OneIn
  <2>4. m_count' = (m_maximumReadIndex' - m_readIndex') - Cardinality(Committing')
                   + Cardinality(Taking')
    BY <1>c, <1>n, <1>k, <2>1, <2>3
  <2> QED BY <1>c, <1>n, <1>o, <2>3, <2>4 DEF CountInv, CountLag, Committing, Taking
<1>2. CASE EnqCount(p)
  <2>1. /\ pc[p] = "enqCount" /\ pc'[p] = "idle" /\ m_count' = m_count + 1
        /\ m_maximumReadIndex' = m_maximumReadIndex /\ m_readIndex' = m_readIndex
    BY <1>2, <1>t DEF EnqCount, TypeOK
  <2>2. p \in Committing /\ Committing' = Committing \ {p}
    BY <1>s, <2>1 DEF Committing, Threads
  <2>3. /\ IsFiniteSet(Committing') /\ Cardinality(Committing') = Cardinality(Committing) - 1
        /\ Cardinality(Committing) \in Nat
    BY <1>n, <2>2, OneOut
  <2>4. m_count' = (m_maximumReadIndex' - m_readIndex') - Cardinality(Committing')
                   + Cardinality(Taking')
    BY <1>c, <1>n, <1>k, <2>1, <2>3
  <2> QED BY <1>c, <1>n, <1>o, <2>3, <2>4 DEF CountInv, CountLag, Committing, Taking
<1>3. CASE ~EnqCommit(p) /\ ~EnqCount(p)
  <2>1. /\ {pc[p], pc'[p]} \intersect {"enqCount", "deqCount"} = {}
        /\ UNCHANGED <<m_count, m_readIndex, m_maximumReadIndex>>
    BY <1>3, <1>t DEF TypeOK, EnqueueStep, BeginEnqueue, EnqLoadWrite, EnqLoadRead,
       EnqReserve, EnqStore, EnqReturnFalse
  <2>2. IsFiniteSet(Committing)' /\ IsFiniteSet(Taking)' /\ CountLag'
    BY <1>s, <2>1, CountFrame
  <2> QED BY <1>o, <2>2 DEF CountInv
<1> QED BY <1>1, <1>2, <1>3

\* The steps of dequeue: the successful CAS makes one more call pending, the
\* atomic subtraction settles it.
LEMMA DequeueCounts ==
  ASSUME IInv, CountInv, NEW c \in Consumers, DequeueStep(c)
  PROVE  CountInv'
<1> c \in Threads /\ c \notin Producers /\ c \notin Observers
  BY ThreadAssumption DEF Threads
<1> USE DEF Goto, indices, locals, ClearLocals
<1>t. TypeOK /\ TypeOK'
  BY InvStep DEF IInv, Next
<1>s. \A s \in Threads \ {c} : pc'[s] = pc[s] /\ currentWriteIndex'[s] = currentWriteIndex[s]
  BY <1>t DEF TypeOK, DequeueStep, DeqLoadRead, DeqLoadMax, DeqFetch, DeqTake, DeqCount,
     DeqReturnFalse
<1>o. ObserverInv'
  <2>1. m_writeIndex' = m_writeIndex
    BY DEF DequeueStep, DeqLoadRead, DeqLoadMax, DeqFetch, DeqTake, DeqCount, DeqReturnFalse
  <2>2. \A o \in Observers : o \in Threads \ {c}
    BY DEF Threads
  <2>3. m_writeIndex' \in Nat /\ m_writeIndex' >= m_writeIndex
    BY <1>t, <2>1 DEF TypeOK
  <2> QED BY <1>t, <1>s, <2>2, <2>3, ObserverFrame DEF CountInv
<1>c. Committing' = Committing
  BY <1>s DEF Committing, Threads
<1>n. /\ m_readIndex \in Nat /\ m_maximumReadIndex \in Nat /\ m_count \in Int
      /\ IsFiniteSet(Committing) /\ IsFiniteSet(Taking)
      /\ m_count = (m_maximumReadIndex - m_readIndex) - Cardinality(Committing)
                   + Cardinality(Taking)
  BY <1>t DEF TypeOK, CountInv, CountLag, Committing, Taking
<1>k. Cardinality(Committing) \in Nat
  BY <1>n, FS_CardinalityType
<1>1. CASE DeqTake(c) /\ m_readIndex = currentReadIndex[c]
  <2>1. /\ pc[c] = "deqTake" /\ pc'[c] = "deqCount"
        /\ m_readIndex' = m_readIndex + 1
        /\ m_count' = m_count /\ m_maximumReadIndex' = m_maximumReadIndex
    BY <1>1, <1>t DEF DeqTake, TypeOK
  <2>2. c \notin Taking /\ Taking' = Taking \union {c}
    BY <1>s, <2>1 DEF Taking, Threads
  <2>3. /\ IsFiniteSet(Taking') /\ Cardinality(Taking') = Cardinality(Taking) + 1
        /\ Cardinality(Taking) \in Nat
    BY <1>n, <2>2, OneIn
  <2>4. m_count' = (m_maximumReadIndex' - m_readIndex') - Cardinality(Committing')
                   + Cardinality(Taking')
    BY <1>c, <1>n, <1>k, <2>1, <2>3
  <2> QED BY <1>c, <1>n, <1>o, <2>3, <2>4 DEF CountInv, CountLag, Committing, Taking
<1>2. CASE DeqCount(c)
  <2>1. /\ pc[c] = "deqCount" /\ pc'[c] = "idle" /\ m_count' = m_count - 1
        /\ m_maximumReadIndex' = m_maximumReadIndex /\ m_readIndex' = m_readIndex
    BY <1>2, <1>t DEF DeqCount, TypeOK
  <2>2. c \in Taking /\ Taking' = Taking \ {c}
    BY <1>s, <2>1 DEF Taking, Threads
  <2>3. /\ IsFiniteSet(Taking') /\ Cardinality(Taking') = Cardinality(Taking) - 1
        /\ Cardinality(Taking) \in Nat
    BY <1>n, <2>2, OneOut
  <2>4. m_count' = (m_maximumReadIndex' - m_readIndex') - Cardinality(Committing')
                   + Cardinality(Taking')
    BY <1>c, <1>n, <1>k, <2>1, <2>3
  <2> QED BY <1>c, <1>n, <1>o, <2>3, <2>4 DEF CountInv, CountLag, Committing, Taking
<1>3. CASE (DeqTake(c) /\ m_readIndex # currentReadIndex[c]) \/ (~DeqTake(c) /\ ~DeqCount(c))
  <2>1. /\ {pc[c], pc'[c]} \intersect {"enqCount", "deqCount"} = {}
        /\ UNCHANGED <<m_count, m_readIndex, m_maximumReadIndex>>
    BY <1>3, <1>t DEF TypeOK, DequeueStep, DeqLoadRead, DeqLoadMax, DeqFetch, DeqTake,
       DeqReturnFalse
  <2>2. IsFiniteSet(Committing)' /\ IsFiniteSet(Taking)' /\ CountLag'
    BY <1>s, <2>1, CountFrame
  <2> QED BY <1>o, <2>2 DEF CountInv
<1> QED BY <1>1, <1>2, <1>3

\* Every step keeps the counts honest.
LEMMA CountStep == IInv /\ CountInv /\ [Next]_vars => CountInv'
<1> SUFFICES ASSUME IInv, CountInv, [Next]_vars PROVE CountInv'
  OBVIOUS
<1>1. ASSUME NEW o \in Observers, SizeStep(o) PROVE CountInv'
  <2> o \in Threads /\ o \notin Producers /\ o \notin Consumers
    BY ThreadAssumption DEF Threads
  <2> USE DEF Goto, indices, locals, ClearLocals
  <2>1. /\ \A s \in Threads \ {o} : /\ pc'[s] = pc[s]
                                    /\ currentWriteIndex'[s] = currentWriteIndex[s]
        /\ {pc[o], pc'[o]} \intersect {"enqCount", "deqCount"} = {}
        /\ UNCHANGED <<m_count, m_writeIndex, m_readIndex, m_maximumReadIndex>>
        /\ pc'[o] = "sizeLoadRead" => currentWriteIndex'[o] = m_writeIndex
    BY <1>1 DEF SizeStep, SizeLoadWrite, SizeLoadRead, IInv, TypeOK
  <2>2. IsFiniteSet(Committing)' /\ IsFiniteSet(Taking)' /\ CountLag'
    BY <2>1, CountFrame
  <2>3. ObserverInv'
    BY <2>1 DEF ObserverInv, CountInv, IInv, TypeOK, Threads
  <2> QED BY <2>2, <2>3 DEF CountInv
<1>2. CASE UNCHANGED vars
  BY <1>2 DEF vars, indices, locals, CountInv, Committing, Taking, CountLag, ObserverInv
<1> QED BY <1>1, <1>2, EnqueueCounts, DequeueCounts DEF Next

\* Initially no call is in progress and the queue is empty.
LEMMA CountInit == Init => CountInv
<1> SUFFICES ASSUME Init PROVE CountInv
  OBVIOUS
<1>1. Committing = {} /\ Taking = {}
  BY DEF Init, Committing, Taking, Threads
<1>2. /\ IsFiniteSet(Committing) /\ Cardinality(Committing) = 0
      /\ IsFiniteSet(Taking) /\ Cardinality(Taking) = 0
  BY <1>1, FS_EmptySet
<1>3. CountLag
  BY <1>2 DEF Init, CountLag, Committing, Taking
<1>4. ObserverInv
  BY DEF Init, ObserverInv, Threads
<1> QED BY <1>2, <1>3, <1>4 DEF CountInv

\* What size() returns is within the capacity, unless the readers passed the
\* write index it loaded by more than a lap.
LEMMA SizeFits == IInv /\ CountInv => SizeWithinCapacity
<1> SUFFICES ASSUME IInv, CountInv, NEW o \in Observers, pc[o] = "sizeLoadRead",
                    m_readIndex <= currentWriteIndex[o] + Q_SIZE
             PROVE  SizeOf(currentWriteIndex[o], m_readIndex) \in 0 .. Q_SIZE - 1
  BY DEF SizeWithinCapacity
<1>1. /\ m_readIndex \in Nat /\ m_writeIndex \in Nat /\ currentWriteIndex[o] \in Nat
      /\ m_writeIndex < m_readIndex + Q_SIZE
  BY DEF IInv, TypeOK, IndexOrder, InLap, Threads
<1>2. currentWriteIndex[o] <= m_writeIndex
  BY DEF CountInv, ObserverInv
<1> QED BY <1>1, <1>2, QSizeAssumption DEF SizeOf

\* Both counts of the queue say what they may: m_count is off by the calls in
\* progress and by nothing else, size() stays within the capacity.
THEOREM CountsSafety == Spec => []CountsHonest
<1>1. IInv /\ CountInv => CountsHonest
  BY SizeFits DEF CountInv, CountsHonest
<1>2. Spec => [](IInv /\ CountInv)
  BY InvInit, InvStep, CountInit, CountStep, PTL DEF Spec
<1> QED BY <1>1, <1>2, PTL

-----------------------------------------------------------------------------
(* The answers: AnswersExcused.  Between its two loads a call either still    *)
(* holds the current index or has witnessed that another thread moved it.     *)

\* A producer between its loads.
WriteIndexExcused ==
  \A p \in Producers : pc[p] = "enqLoadRead" =>
    currentWriteIndex[p] = m_writeIndex \/ "reserved by another" \in witnessed[p]

\* A consumer between its loads.
ReadIndexExcused ==
  \A c \in Consumers : pc[c] = "deqLoadMax" =>
    currentReadIndex[c] = m_readIndex \/ "taken by another" \in witnessed[c]

AnswersInv == WriteIndexExcused /\ ReadIndexExcused /\ AnswersExcused

\* With current indices the two tests mean what they should: within a lap, equal
\* slots are equal indices.
LEMMA FullTestExact ==
  ASSUME IInv, LooksFull(m_writeIndex, m_readIndex)
  PROVE  Full
<1>1. /\ m_writeIndex \in Nat /\ m_readIndex \in Nat
      /\ m_readIndex <= m_writeIndex /\ m_writeIndex < m_readIndex + Q_SIZE
  BY DEF IInv, TypeOK, IndexOrder, InLap
<1>2. CASE m_writeIndex + 1 < m_readIndex + Q_SIZE
  <2>1. countToIndex(m_readIndex) # countToIndex(m_writeIndex + 1)
    BY <1>1, <1>2, SlotInjective
  <2> QED BY <2>1 DEF LooksFull
<1> QED BY <1>1, <1>2, QSizeAssumption DEF Full

LEMMA EmptyTestExact ==
  ASSUME IInv, LooksEmpty(m_readIndex, m_maximumReadIndex)
  PROVE  Empty
<1>1. /\ m_readIndex \in Nat /\ m_maximumReadIndex \in Nat /\ m_readIndex <= m_maximumReadIndex
      /\ m_maximumReadIndex < m_readIndex + Q_SIZE
  BY QSizeAssumption DEF IInv, TypeOK, IndexOrder, InLap
<1>2. CASE m_readIndex < m_maximumReadIndex
  <2>1. countToIndex(m_readIndex) # countToIndex(m_maximumReadIndex)
    BY <1>1, <1>2, SlotInjective
  <2> QED BY <2>1 DEF LooksEmpty
<1> QED BY <1>1, <1>2 DEF Empty

\* What the history variable records for a thread inside a call.
LEMMA Witnesses ==
  ASSUME Record, NEW t \in Threads, pc'[t] # "idle"
  PROVE  /\ witnessed[t] \subseteq witnessed'[t]
         /\ Full => "full" \in witnessed'[t]
         /\ Empty => "empty" \in witnessed'[t]
         /\ m_writeIndex' # m_writeIndex /\ pc'[t] = pc[t]
              => "reserved by another" \in witnessed'[t]
         /\ m_readIndex' # m_readIndex /\ pc'[t] = pc[t]
              => "taken by another" \in witnessed'[t]
<1>1. witnessed'[t] = witnessed[t] \union Seen(t)
  BY DEF Record
<1> QED BY <1>1 DEF Seen, Facts

\* A step moves a producer, or leaves it where it stands.
LEMMA ProducerMoves ==
  ASSUME TypeOK, Next, NEW p \in Producers
  PROVE  \/ EnqueueStep(p)
         \/ pc'[p] = pc[p] /\ currentWriteIndex'[p] = currentWriteIndex[p]
<1> USE ThreadAssumption DEF TypeOK, Threads, Goto, locals, ClearLocals
<1>1. ASSUME NEW q \in Producers, EnqueueStep(q), q # p
      PROVE  pc'[p] = pc[p] /\ currentWriteIndex'[p] = currentWriteIndex[p]
  BY <1>1 DEF EnqueueStep, BeginEnqueue, EnqLoadWrite, EnqLoadRead, EnqReserve, EnqStore,
     EnqCommit, EnqCount, EnqReturnFalse
<1>2. ASSUME NEW c \in Consumers, DequeueStep(c)
      PROVE  pc'[p] = pc[p] /\ currentWriteIndex'[p] = currentWriteIndex[p]
  BY <1>2 DEF DequeueStep, DeqLoadRead, DeqLoadMax, DeqFetch, DeqTake, DeqCount,
     DeqReturnFalse
<1>3. ASSUME NEW o \in Observers, SizeStep(o)
      PROVE  pc'[p] = pc[p] /\ currentWriteIndex'[p] = currentWriteIndex[p]
  BY <1>3 DEF SizeStep, SizeLoadWrite, SizeLoadRead
<1> QED BY <1>1, <1>2, <1>3 DEF Next

\* The same of a consumer.
LEMMA ConsumerMoves ==
  ASSUME TypeOK, Next, NEW c \in Consumers
  PROVE  \/ DequeueStep(c)
         \/ pc'[c] = pc[c] /\ currentReadIndex'[c] = currentReadIndex[c]
<1> USE ThreadAssumption DEF TypeOK, Threads, Goto, locals, ClearLocals
<1>1. ASSUME NEW p \in Producers, EnqueueStep(p)
      PROVE  pc'[c] = pc[c] /\ currentReadIndex'[c] = currentReadIndex[c]
  BY <1>1 DEF EnqueueStep, BeginEnqueue, EnqLoadWrite, EnqLoadRead, EnqReserve, EnqStore,
     EnqCommit, EnqCount, EnqReturnFalse
<1>2. ASSUME NEW d \in Consumers, DequeueStep(d), d # c
      PROVE  pc'[c] = pc[c] /\ currentReadIndex'[c] = currentReadIndex[c]
  BY <1>2 DEF DequeueStep, DeqLoadRead, DeqLoadMax, DeqFetch, DeqTake, DeqCount,
     DeqReturnFalse
<1>3. ASSUME NEW o \in Observers, SizeStep(o)
      PROVE  pc'[c] = pc[c] /\ currentReadIndex'[c] = currentReadIndex[c]
  BY <1>3 DEF SizeStep, SizeLoadWrite, SizeLoadRead
<1> QED BY <1>1, <1>2, <1>3 DEF Next

\* How a producer gets between its loads and to the answer FALSE.
LEMMA EnqueueAnswers ==
  ASSUME IInv, AnswersInv, AnswersNext, NEW p \in Producers
  PROVE  /\ pc'[p] = "enqLoadRead" =>
              \/ currentWriteIndex'[p] = m_writeIndex'
              \/ "reserved by another" \in witnessed'[p]
         /\ pc'[p] = "enqFull" =>
              witnessed'[p] \intersect {"full", "reserved by another"} # {}
<1> p \in Threads
  BY DEF Threads
<1>t. TypeOK /\ Next /\ Record
  BY DEF IInv, AnswersNext
<1>a. /\ pc[p] = "enqLoadRead" =>
           currentWriteIndex[p] = m_writeIndex \/ "reserved by another" \in witnessed[p]
      /\ pc[p] = "enqFull" =>
           witnessed[p] \intersect {"full", "reserved by another"} # {}
  BY DEF AnswersInv, WriteIndexExcused, AnswersExcused, FullAnswerExcused
<1>1. CASE pc'[p] = pc[p] /\ currentWriteIndex'[p] = currentWriteIndex[p]
  <2>1. CASE pc[p] = "enqLoadRead"
    BY <1>t, <1>a, <1>1, <2>1, Witnesses
  <2>2. CASE pc[p] = "enqFull"
    BY <1>t, <1>a, <1>1, <2>2, Witnesses
  <2> QED BY <1>1, <2>1, <2>2
<1>2. CASE EnqueueStep(p)
  <2>1. pc'[p] = "enqLoadRead" => currentWriteIndex'[p] = m_writeIndex'
    BY <1>t, <1>2 DEF TypeOK, Goto, indices, EnqueueStep, BeginEnqueue, EnqLoadWrite,
       EnqLoadRead, EnqReserve, EnqStore, EnqCommit, EnqCount, EnqReturnFalse
  <2>2. pc'[p] = "enqFull" =>
          pc[p] = "enqLoadRead" /\ LooksFull(currentWriteIndex[p], m_readIndex)
    BY <1>t, <1>2 DEF TypeOK, Goto, EnqueueStep, BeginEnqueue, EnqLoadWrite,
       EnqLoadRead, EnqReserve, EnqStore, EnqCommit, EnqCount, EnqReturnFalse
  <2>3. ASSUME pc'[p] = "enqFull"
        PROVE  witnessed'[p] \intersect {"full", "reserved by another"} # {}
    <3>1. CASE currentWriteIndex[p] = m_writeIndex
      <4>1. Full
        BY <2>2, <2>3, <3>1, FullTestExact
      <4> QED BY <1>t, <2>3, <4>1, Witnesses
    <3>2. CASE "reserved by another" \in witnessed[p]
      BY <1>t, <2>3, <3>2, Witnesses
    <3> QED BY <1>a, <2>2, <2>3, <3>1, <3>2
  <2> QED BY <2>1, <2>3
<1> QED BY <1>t, <1>1, <1>2, ProducerMoves

\* How a consumer gets there.
LEMMA DequeueAnswers ==
  ASSUME IInv, AnswersInv, AnswersNext, NEW c \in Consumers
  PROVE  /\ pc'[c] = "deqLoadMax" =>
              \/ currentReadIndex'[c] = m_readIndex'
              \/ "taken by another" \in witnessed'[c]
         /\ pc'[c] = "deqEmpty" =>
              witnessed'[c] \intersect {"empty", "taken by another"} # {}
<1> c \in Threads
  BY DEF Threads
<1>t. TypeOK /\ Next /\ Record
  BY DEF IInv, AnswersNext
<1>a. /\ pc[c] = "deqLoadMax" =>
           currentReadIndex[c] = m_readIndex \/ "taken by another" \in witnessed[c]
      /\ pc[c] = "deqEmpty" =>
           witnessed[c] \intersect {"empty", "taken by another"} # {}
  BY DEF AnswersInv, ReadIndexExcused, AnswersExcused, EmptyAnswerExcused
<1>1. CASE pc'[c] = pc[c] /\ currentReadIndex'[c] = currentReadIndex[c]
  <2>1. CASE pc[c] = "deqLoadMax"
    BY <1>t, <1>a, <1>1, <2>1, Witnesses
  <2>2. CASE pc[c] = "deqEmpty"
    BY <1>t, <1>a, <1>1, <2>2, Witnesses
  <2> QED BY <1>1, <2>1, <2>2
<1>2. CASE DequeueStep(c)
  <2>1. pc'[c] = "deqLoadMax" => currentReadIndex'[c] = m_readIndex'
    BY <1>t, <1>2 DEF TypeOK, Goto, indices, DequeueStep, DeqLoadRead, DeqLoadMax,
       DeqFetch, DeqTake, DeqCount, DeqReturnFalse
  <2>2. pc'[c] = "deqEmpty" =>
          pc[c] = "deqLoadMax" /\ LooksEmpty(currentReadIndex[c], m_maximumReadIndex)
    BY <1>t, <1>2 DEF TypeOK, Goto, DequeueStep, DeqLoadRead, DeqLoadMax,
       DeqFetch, DeqTake, DeqCount, DeqReturnFalse
  <2>3. ASSUME pc'[c] = "deqEmpty"
        PROVE  witnessed'[c] \intersect {"empty", "taken by another"} # {}
    <3>1. CASE currentReadIndex[c] = m_readIndex
      <4>1. Empty
        BY <2>2, <2>3, <3>1, EmptyTestExact
      <4> QED BY <1>t, <2>3, <4>1, Witnesses
    <3>2. CASE "taken by another" \in witnessed[c]
      BY <1>t, <2>3, <3>2, Witnesses
    <3> QED BY <1>a, <2>2, <2>3, <3>1, <3>2
  <2> QED BY <2>1, <2>3
<1> QED BY <1>t, <1>1, <1>2, ConsumerMoves

\* Every step keeps the answers excused.
LEMMA AnswersStep == IInv /\ AnswersInv /\ [AnswersNext]_answerVars => AnswersInv'
<1> SUFFICES ASSUME IInv, AnswersInv, [AnswersNext]_answerVars PROVE AnswersInv'
  OBVIOUS
<1> USE DEF AnswersInv, WriteIndexExcused, ReadIndexExcused, AnswersExcused,
        FullAnswerExcused, EmptyAnswerExcused
<1>1. CASE AnswersNext
  BY <1>1, EnqueueAnswers, DequeueAnswers
<1>2. CASE UNCHANGED answerVars
  BY <1>2 DEF answerVars, vars, indices, locals
<1> QED BY <1>1, <1>2

\* A refused enqueue found the queue full or lost a race for its place, a refused
\* dequeue found it empty or lost its element, for any number of threads.
THEOREM AnswersSafety == AnswersSpec => []AnswersExcused
<1>1. AnswersInit => IInv /\ AnswersInv
  <2> SUFFICES ASSUME AnswersInit PROVE IInv /\ AnswersInv
    OBVIOUS
  <2>1. IInv
    BY InvInit DEF AnswersInit
  <2>2. \A t \in Threads : pc[t] = "idle"
    BY DEF AnswersInit, Init
  <2> QED BY <2>1, <2>2 DEF AnswersInv, WriteIndexExcused, ReadIndexExcused,
          AnswersExcused, FullAnswerExcused, EmptyAnswerExcused, Threads
<1>2. [AnswersNext]_answerVars => [Next]_vars
  BY DEF AnswersNext, answerVars
<1>3. IInv /\ AnswersInv /\ [AnswersNext]_answerVars => IInv' /\ AnswersInv'
  BY <1>2, InvStep, AnswersStep
<1>4. AnswersInv => AnswersExcused
  BY DEF AnswersInv
<1> QED BY <1>1, <1>3, <1>4, PTL DEF AnswersSpec
=============================================================================
