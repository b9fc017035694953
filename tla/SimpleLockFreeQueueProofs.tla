----------------------- MODULE SimpleLockFreeQueueProofs -----------------------
(***************************************************************************)
(* Proofs about SimpleLockFreeQueue for every set of threads and every bound *)
(* on the nodes and on the enqueues: items are claimed once and in order, no *)
(* node is lost or used twice, and the destructor destroys each one once.    *)
(*                                                                         *)
(* The invariant speaks of three things the program does not store, so it    *)
(* asserts that they exist: the free list as a sequence, the current version *)
(* of each node and the place each node is in.                               *)
(***************************************************************************)
EXTENDS SimpleLockFreeQueue, FiniteSetTheorems, SequenceTheorems, WellFoundedInduction, TLAPS

-----------------------------------------------------------------------------
(* The invariant.                                                            *)

Cells == Nodes \X Nat

\* The places of a node.
InList(k) == <<"list", k>>
InFree(k) == <<"free", k>>
With(t) == <<"with", t>>

\* The k-th node of the free list, counted from its end.
FreeAt(free, k) == IF k = 0 THEN Null ELSE free[k]

\* A node that is in nobody's list.
Holding(t) == pc[t] \in {"enqConstruct", "enqTail", "deqTakeMoved", "deqFree",
                         "deqFreeLink", "deqPush"}

\* Index i of a node in use is its current one.
Current(i, ver) == i \in Cells /\ NodeOf(i) < nextNode /\ i[2] = ver[NodeOf(i)]

\* Every index that was ever enqueued differs from the others, and is not newer
\* than the current one of its node.
OrderOk(ver) ==
  /\ order \in Seq(Cells)
  /\ \A k \in DOMAIN order :
       /\ NodeOf(order[k]) < nextNode
       /\ order[k][2] <= ver[NodeOf(order[k])]
       /\ \A l \in DOMAIN order : order[k] = order[l] => k = l

\* The free list is the sequence free, from its last element to its first.
FreeOk(free) ==
  /\ free \in Seq(Cells)
  /\ freeListHead = FreeAt(free, Len(free))
  /\ \A k \in 1 .. Len(free) : next[NodeOf(free[k])] = FreeAt(free, k - 1)

\* Every node in use has its place and its current index there.
PlacesOk(free, ver, place) ==
  /\ ver \in [Nodes -> Nat] /\ DOMAIN place = Nodes
  /\ \A k \in First .. Len(order) :
       Current(order[k], ver) /\ place[NodeOf(order[k])] = InList(k)
  /\ \A k \in 1 .. Len(free) :
       Current(free[k], ver) /\ place[NodeOf(free[k])] = InFree(k)
  /\ \A t \in Threads : Holding(t) =>
       Current(nodeIdx[t], ver) /\ place[NodeOf(nodeIdx[t])] = With(t)
  /\ \A n \in 1 .. nextNode - 1 :
       \/ \E k \in First .. Len(order) : NodeOf(order[k]) = n
       \/ \E k \in 1 .. Len(free) : NodeOf(free[k]) = n
       \/ \E t \in Threads : Holding(t) /\ NodeOf(nodeIdx[t]) = n

\* A free list head that was loaded at some time: if it is still current, it is
\* in the free list.
Stale(s, free, ver) ==
  /\ s \in Cells /\ NodeOf(s) < nextNode /\ s[2] <= ver[NodeOf(s)]
  /\ s[2] = ver[NodeOf(s)] => \E k \in 1 .. Len(free) : free[k] = s

\* What the locals of an enqueue know.
ProducerOk(p, free, ver) ==
  /\ pc[p] = "enqFree" => seen[p] = Null \/ Stale(seen[p], free, ver)
  /\ pc[p] = "enqPop" =>
       /\ Stale(seen[p], free, ver)
       /\ (\E k \in 1 .. Len(free) : free[k] = seen[p]) => link[p] = next[NodeOf(seen[p])]
  /\ pc[p] \in {"enqConstruct", "enqTail"} => \A k \in DOMAIN order : order[k] # nodeIdx[p]
  /\ pc[p] = "enqTail" => next[NodeOf(nodeIdx[p])] = Null
  /\ pc[p] = "enqLink" =>
       /\ \E k \in First .. Len(order) - 1 :
            /\ seen[p] = order[k] /\ nodeIdx[p] = order[k + 1]
            /\ next[NodeOf(order[k])] = Null
       /\ \A q \in Producers : pc[q] = "enqLink" /\ seen[q] = seen[p] => q = p

\* What the locals of a dequeue know: the node is one that was the head; while it
\* still is, the link that was loaded is right.
ConsumerOk(c) ==
  /\ pc[c] \in {"deqNext", "deqMark", "deqMove"} => \E j \in 1 .. First : nodeIdx[c] = order[j]
  /\ pc[c] = "deqMove" =>
       /\ link[c] # Null
       /\ nodeIdx[c] = order[First] => /\ First < Len(order) /\ link[c] = order[First + 1]
                                       /\ next[NodeOf(order[First])] # Null
  /\ pc[c] = "deqPush" => next[NodeOf(nodeIdx[c])] = seen[c]

\* The inductive invariant, with its witnesses.
Whole(free, ver, place) ==
  /\ TypeOK /\ ClaimsInOrder /\ ListIntact
  /\ OrderOk(ver) /\ FreeOk(free) /\ PlacesOk(free, ver, place)
  /\ \A p \in Producers : ProducerOk(p, free, ver)
  /\ \A c \in Consumers : ConsumerOk(c)

IInv == \E free, ver, place : Whole(free, ver, place)

SameLocals(t) == /\ pc'[t] = pc[t]
                 /\ nodeIdx'[t] = nodeIdx[t]
                 /\ consumed'[t] = consumed[t]
                 /\ seen'[t] = seen[t]
                 /\ link'[t] = link[t]

-----------------------------------------------------------------------------
(* Type correctness.                                                         *)

\* What TypeOK says of one thread and of the null index.
LEMMA ThreadTypes ==
  ASSUME TypeOK, NEW t \in Threads
  PROVE  /\ pc[t] \in PCs /\ consumed[t] \in BOOLEAN
         /\ nodeIdx[t] \in Indices /\ seen[t] \in Indices /\ link[t] \in Indices
         /\ \A i \in Indices : i # Null => i \in Cells /\ NodeOf(i) \in Nodes /\ i[2] \in Nat
BY DEF TypeOK, Indices, Cells, NodeOf

\* Cleared locals are well typed.
LEMMA ClearTypes ==
  ASSUME TypeOK, NEW t \in Threads, ClearLocals(t)
  PROVE  /\ nodeIdx' \in [Threads -> Indices] /\ seen' \in [Threads -> Indices]
         /\ link' \in [Threads -> Indices] /\ consumed' \in [Threads -> BOOLEAN]
BY DEF TypeOK, ClearLocals, Indices

\* So is pc after a jump.
LEMMA GotoTypes ==
  ASSUME TypeOK, NEW t \in Threads, NEW from, NEW to \in PCs, Goto(t, from, to)
  PROVE  pc' \in [Threads -> PCs]
BY DEF TypeOK, Goto

\* Every step of enqueue preserves the type invariant.
LEMMA EnqueueTypes ==
  ASSUME NEW free, NEW ver, NEW place, Whole(free, ver, place),
         NEW p \in Producers, EnqueueStep(p)
  PROVE  TypeOK'
<1> p \in Threads
  BY DEF Threads
<1>t. TypeOK /\ ProducerOk(p, free, ver)
  BY DEF Whole
<1>n. Null \in Indices /\ Nodes \X Nat \subseteq Indices
  BY DEF Indices
<1>i. nodeIdx[p] \in Indices /\ seen[p] \in Indices /\ link[p] \in Indices
  BY <1>t, ThreadTypes
<1>h. Holding(p) => nodeIdx[p] \in Nodes \X Nat
  BY DEF Whole, PlacesOk, Current, Cells
<1> USE <1>n, <1>i DEF TypeOK, PCs, Goto, ClearLocals, ends, nodes, locals, history
<1>1. CASE EnqLoadFree(p)
  BY <1>1, <1>t DEF EnqLoadFree
<1>2. CASE EnqNewNode(p)
  <2>1. nextNode \in Nodes /\ <<nextNode, 0>> \in Nodes \X Nat
    BY <1>2, <1>t, NodesAssumption DEF EnqNewNode, Nodes
  <2>2. nextNode' \in 2 .. MaxNodes + 1
    BY <1>2, <1>t, NodesAssumption DEF EnqNewNode
  <2> QED BY <1>2, <1>t, <2>1, <2>2 DEF EnqNewNode
<1>3. CASE EnqLoadFreeNext(p)
  <2>1. NodeOf(seen[p]) \in Nodes
    BY <1>3, <1>t, ThreadTypes DEF EnqLoadFreeNext
  <2> QED BY <1>3, <1>t, <2>1 DEF EnqLoadFreeNext
<1>4. CASE EnqPop(p)
  <2>1. seen[p] \in Nodes \X Nat
    BY <1>4, <1>t DEF EnqPop, ProducerOk, Stale, Cells
  <2>2. <<seen[p][1], seen[p][2] + 1>> \in Nodes \X Nat
    BY <2>1
  <2>3. pc' \in [Threads -> PCs]
    BY <1>4, <1>t DEF EnqPop
  <2>4. freeListHead' \in Indices /\ link' \in [Threads -> Indices]
        /\ seen' \in [Threads -> Indices] /\ nodeIdx' \in [Threads -> Indices]
    <3>1. <<seen[p][1], seen[p][2] + 1>> \in Indices
      BY <2>2
    <3>2. CASE freeListHead = seen[p]
      <4> DEFINE again == <<seen[p][1], seen[p][2] + 1>>
      <4>1. /\ nodeIdx' = [nodeIdx EXCEPT ![p] = again]
            /\ seen' = [seen EXCEPT ![p] = Null]
            /\ link' = [link EXCEPT ![p] = Null]
            /\ freeListHead' = link[p]
        BY <1>4, <3>2 DEF EnqPop
      <4> HIDE DEF again
      <4>2. again \in Indices
        BY <3>1 DEF again
      <4> QED BY <1>t, <4>1, <4>2
    <3>3. CASE freeListHead # seen[p]
      BY <1>4, <1>t, <3>3 DEF EnqPop
    <3> QED BY <3>2, <3>3
  <2> HIDE DEF Goto, PCs
  <2> QED BY <1>4, <1>t, <2>3, <2>4 DEF EnqPop
<1>5. CASE EnqConstruct(p)
  BY <1>5, <1>t DEF EnqConstruct
<1>6. CASE EnqMoveTail(p)
  <2>1. nodeIdx[p] \in Nodes \X Nat
    BY <1>6, <1>h DEF EnqMoveTail, Holding
  <2>2. Append(order, nodeIdx[p]) \in Seq(Indices)
    BY <1>t
  <2> QED BY <1>6, <1>t, <2>1, <2>2 DEF EnqMoveTail
<1>7. CASE EnqLink(p)
  <2>1. ClearLocals(p)
    BY <1>7 DEF EnqLink
  <2>2. pc' \in [Threads -> PCs]
    BY <1>7, <1>t, GotoTypes DEF EnqLink
  <2>3. next' \in [Nodes -> Indices]
    BY <1>7, <1>t DEF EnqLink
  <2> HIDE DEF ClearLocals, Goto, PCs
  <2> QED BY <1>7, <1>t, <2>1, <2>2, <2>3, ClearTypes DEF EnqLink
<1> QED BY <1>1, <1>2, <1>3, <1>4, <1>5, <1>6, <1>7 DEF EnqueueStep

\* Every step of dequeue preserves the type invariant.
LEMMA DequeueTypes ==
  ASSUME NEW free, NEW ver, NEW place, Whole(free, ver, place),
         NEW c \in Consumers, DequeueStep(c)
  PROVE  TypeOK'
<1> c \in Threads
  BY DEF Threads
<1>t. TypeOK /\ ConsumerOk(c)
  BY DEF Whole
<1>n. Null \in Indices /\ Nodes \X Nat \subseteq Indices
  BY DEF Indices
<1>i. nodeIdx[c] \in Indices /\ seen[c] \in Indices /\ link[c] \in Indices
  BY <1>t, ThreadTypes
<1> USE <1>n, <1>i DEF TypeOK, PCs, Goto, ClearLocals, ends, nodes, locals, history
<1>1. CASE DeqLoadHead(c)
  BY <1>1, <1>t DEF DeqLoadHead
<1>2. CASE DeqLoadNext(c)
  <2>1. pc[c] = "deqNext"
    BY <1>2 DEF DeqLoadNext
  <2>2. \E j \in 1 .. First : nodeIdx[c] = order[j]
    BY <1>t, <2>1 DEF ConsumerOk
  <2>3. nodeIdx[c] \in Cells
    BY <2>2 DEF Whole, OrderOk, ListIntact, First
  <2>4. next[NodeOf(nodeIdx[c])] \in Indices
    BY <1>t, <2>3 DEF Cells, NodeOf
  <2>5. pc' \in [Threads -> PCs]
    BY <1>2, <1>t DEF DeqLoadNext
  <2>6. /\ nodeIdx' \in [Threads -> Indices] /\ seen' \in [Threads -> Indices]
        /\ link' \in [Threads -> Indices] /\ consumed' \in [Threads -> BOOLEAN]
    <3>1. CASE ClearLocals(c)
      BY <1>t, <3>1, ClearTypes
    <3>2. CASE ~ClearLocals(c)
      <4> HIDE DEF ClearLocals, Goto
      <4> QED BY <1>2, <1>t, <2>4, <3>2 DEF DeqLoadNext
    <3> QED BY <3>1, <3>2
  <2>7. UNCHANGED <<nextNode, ends, freeListHead, nodes, history>>
    BY <1>2 DEF DeqLoadNext
  <2> HIDE DEF Goto, PCs, ClearLocals
  <2> QED BY <1>t, <2>5, <2>6, <2>7
<1>3. CASE DeqMark(c)
  <2>1. Append(claims, head) \in Seq(Indices)
    BY <1>t
  <2>c. pc' \in [Threads -> PCs]
    BY <1>3, <1>t DEF DeqMark
  <2>l. /\ nodeIdx' \in [Threads -> Indices] /\ seen' \in [Threads -> Indices]
        /\ link' \in [Threads -> Indices] /\ consumed' \in [Threads -> BOOLEAN]
    <3>1. CASE ClearLocals(c)
      BY <1>t, <3>1, ClearTypes
    <3>2. CASE ~ClearLocals(c)
      <4> HIDE DEF ClearLocals, Goto
      <4> QED BY <1>3, <1>t, <3>2 DEF DeqMark
    <3> QED BY <3>1, <3>2
  <2> HIDE DEF Goto, PCs, ClearLocals
  <2> QED BY <1>3, <1>t, <2>c, <2>l, <2>1 DEF DeqMark
<1>4. CASE DeqTakeMarked(c)
  <2>c. pc' \in [Threads -> PCs]
    BY <1>4, <1>t DEF DeqTakeMarked, Receive
  <2>l. /\ nodeIdx' \in [Threads -> Indices] /\ seen' \in [Threads -> Indices]
        /\ link' \in [Threads -> Indices] /\ consumed' \in [Threads -> BOOLEAN]
    <3>1. CASE ClearLocals(c)
      BY <1>t, <3>1, ClearTypes
    <3>2. CASE ~ClearLocals(c)
      <4> HIDE DEF ClearLocals, Goto
      <4> QED BY <1>4, <1>t, <3>2 DEF DeqTakeMarked, Receive
    <3> QED BY <3>1, <3>2
  <2> HIDE DEF Goto, PCs, ClearLocals
  <2> QED BY <1>4, <1>t, <2>c, <2>l DEF DeqTakeMarked, Receive
<1>5. CASE DeqMove(c)
  <2>1. link[c] \in Nodes \X Nat
    BY <1>5, <1>t DEF DeqMove, ConsumerOk, Indices
  <2>2. Append(claims, head) \in Seq(Indices)
    BY <1>t
  <2>c. pc' \in [Threads -> PCs]
    BY <1>5, <1>t DEF DeqMove
  <2>l. /\ nodeIdx' \in [Threads -> Indices] /\ seen' \in [Threads -> Indices]
        /\ link' \in [Threads -> Indices] /\ consumed' \in [Threads -> BOOLEAN]
    <3>1. CASE ClearLocals(c)
      BY <1>t, <3>1, ClearTypes
    <3>2. CASE ~ClearLocals(c)
      <4> HIDE DEF ClearLocals, Goto
      <4> QED BY <1>5, <1>t, <3>2 DEF DeqMove
    <3> QED BY <3>1, <3>2
  <2> HIDE DEF Goto, PCs, ClearLocals
  <2> QED BY <1>5, <1>t, <2>c, <2>l, <2>1, <2>2 DEF DeqMove
<1>6. CASE DeqTakeMoved(c)
  BY <1>6, <1>t DEF DeqTakeMoved, Receive
<1>7. CASE DeqLoadFree(c)
  BY <1>7, <1>t DEF DeqLoadFree
<1>8. CASE DeqFreeLink(c)
  BY <1>8, <1>t DEF DeqFreeLink
<1>9. CASE DeqPush(c)
  <2>c. pc' \in [Threads -> PCs]
    BY <1>9, <1>t DEF DeqPush
  <2>l. /\ nodeIdx' \in [Threads -> Indices] /\ seen' \in [Threads -> Indices]
        /\ link' \in [Threads -> Indices] /\ consumed' \in [Threads -> BOOLEAN]
    <3>1. CASE ClearLocals(c)
      BY <1>t, <3>1, ClearTypes
    <3>2. CASE ~ClearLocals(c)
      <4> HIDE DEF ClearLocals, Goto
      <4> QED BY <1>9, <1>t, <3>2 DEF DeqPush
    <3> QED BY <3>1, <3>2
  <2> HIDE DEF Goto, PCs, ClearLocals
  <2> QED BY <1>9, <1>t, <2>c, <2>l DEF DeqPush
<1> QED BY <1>1, <1>2, <1>3, <1>4, <1>5, <1>6, <1>7, <1>8, <1>9 DEF DequeueStep

-----------------------------------------------------------------------------
(* Steps that only move the thread itself.                                   *)

\* The list, the free list and the links.
Lists == <<nextNode, head, tail, freeListHead, next, order>>
Shared == <<Lists, headConsumed, claims>>

\* A step of thread t that leaves the lists alone preserves the invariant if t
\* knows what it should afterwards and neither gets nor gives up a node.
LEMMA LocalStep ==
  ASSUME NEW free, NEW ver, NEW place, Whole(free, ver, place), TypeOK', NEW t \in Threads,
         UNCHANGED Lists, First' = First, ClaimsInOrder',
         \A s \in Threads \ {t} : SameLocals(s),
         Holding(t)' <=> Holding(t),
         Holding(t) => nodeIdx'[t] = nodeIdx[t],
         pc[t] # "enqLink", pc'[t] # "enqLink",
         t \in Producers => ProducerOk(t, free, ver)',
         t \in Consumers => ConsumerOk(t)'
  PROVE  Whole(free, ver, place)'
<1> USE DEF Lists
<1>1. First' = First
  OBVIOUS
<1>2. OrderOk(ver)' /\ FreeOk(free)'
  BY DEF Whole, OrderOk, FreeOk
<1>3. ListIntact'
  <2>1. ASSUME NEW k \in First .. Len(order) - 1
        PROVE  \/ next'[NodeOf(order[k])] = order[k + 1]
               \/ /\ next'[NodeOf(order[k])] = Null
                  /\ \E p \in Producers : /\ pc'[p] = "enqLink"
                                          /\ seen'[p] = order[k]
                                          /\ nodeIdx'[p] = order[k + 1]
    BY DEF Whole, ListIntact, SameLocals, Threads
  <2> QED BY <1>1, <2>1 DEF Whole, ListIntact
<1>4. PlacesOk(free, ver, place)'
  <2>1. \A s \in Threads : /\ Holding(s)' <=> Holding(s)
                           /\ Holding(s) => nodeIdx'[s] = nodeIdx[s]
    BY DEF SameLocals, Holding
  <2> QED BY <1>1, <2>1 DEF Whole, PlacesOk, Current
<1>5. ASSUME NEW q \in Producers PROVE ProducerOk(q, free, ver)'
  <2>1. CASE q = t
    BY <2>1
  <2>2. CASE q # t
    <3>1. SameLocals(q) /\ ProducerOk(q, free, ver)
      BY <2>2 DEF Whole, Threads
    <3>2. \A r \in Producers : pc'[r] = "enqLink" => SameLocals(r)
      BY DEF Threads
    <3>3. Stale(seen[q], free, ver)' <=> Stale(seen[q], free, ver)
      BY <3>1 DEF SameLocals, Stale
    <3>4. pc[q] = "enqLink" =>
            \A r \in Producers : pc'[r] = "enqLink" /\ seen'[r] = seen'[q] => r = q
      BY <3>1, <3>2 DEF ProducerOk, SameLocals
    <3> QED BY <1>1, <3>1, <3>3, <3>4 DEF ProducerOk, SameLocals
  <2> QED BY <2>1, <2>2
<1>6. ASSUME NEW d \in Consumers PROVE ConsumerOk(d)'
  <2>1. CASE d = t
    BY <2>1
  <2>2. CASE d # t
    <3>1. SameLocals(d) /\ ConsumerOk(d)
      BY <2>2 DEF Whole, Threads
    <3> QED BY <1>1, <3>1 DEF ConsumerOk, SameLocals
  <2> QED BY <2>1, <2>2
<1> QED BY <1>2, <1>3, <1>4, <1>5, <1>6 DEF Whole

\* What a step that leaves the shared state alone leaves alone.
LEMMA SharedFrame ==
  ASSUME NEW free, NEW ver, NEW place, Whole(free, ver, place), UNCHANGED Shared
  PROVE  UNCHANGED Lists /\ First' = First /\ ClaimsInOrder'
BY DEF Whole, Shared, Lists, First, ClaimsInOrder

\* What the load of freeListHead yields.
LEMMA HeadIsStale ==
  ASSUME NEW free, NEW ver, NEW place, Whole(free, ver, place)
  PROVE  freeListHead = Null \/ Stale(freeListHead, free, ver)
<1>1. CASE free = <<>>
  BY <1>1 DEF Whole, FreeOk, FreeAt
<1>2. CASE free # <<>>
  <2>1. Len(free) \in 1 .. Len(free) /\ freeListHead = free[Len(free)]
    BY <1>2 DEF Whole, FreeOk, FreeAt
  <2>2. Current(free[Len(free)], ver)
    BY <2>1 DEF Whole, PlacesOk
  <2>3. ver[NodeOf(free[Len(free)])] \in Nat
    BY <2>2 DEF Whole, PlacesOk, Current, Cells, NodeOf
  <2> QED BY <2>1, <2>2, <2>3 DEF Stale, Current
<1> QED BY <1>1, <1>2

\* Steps of enqueue that only move the thread itself: the loads of freeListHead
\* and of a link, and a failed CAS.
LEMMA EnqueueLocalSteps ==
  ASSUME NEW free, NEW ver, NEW place, Whole(free, ver, place), TypeOK', NEW p \in Producers,
         \/ EnqLoadFree(p)
         \/ EnqLoadFreeNext(p)
         \/ EnqPop(p) /\ freeListHead # seen[p]
  PROVE  Whole(free, ver, place)'
<1> p \in Threads /\ p \notin Consumers
  BY ThreadsAssumption DEF Threads
<1> USE DEF Goto, ends, nodes, history
<1>t. TypeOK /\ ProducerOk(p, free, ver)
  BY DEF Whole
<1>s. /\ UNCHANGED Shared
      /\ \A s \in Threads \ {p} : SameLocals(s)
  BY <1>t DEF TypeOK, EnqLoadFree, EnqLoadFreeNext, EnqPop, Shared, Lists, SameLocals
<1>h. /\ ~Holding(p) /\ ~Holding(p)'
      /\ pc[p] # "enqLink" /\ pc'[p] # "enqLink"
  BY <1>t DEF TypeOK, EnqLoadFree, EnqLoadFreeNext, EnqPop, Holding
<1>n. UNCHANGED <<nextNode, next, freeListHead>>
  BY <1>s DEF Shared, Lists
<1>1. CASE EnqLoadFree(p) \/ (EnqPop(p) /\ freeListHead # seen[p])
  <2>1. pc'[p] = "enqFree" /\ seen'[p] = freeListHead
    BY <1>t, <1>1 DEF TypeOK, EnqLoadFree, EnqPop
  <2>2. seen'[p] = Null \/ Stale(seen[p], free, ver)'
    BY <1>n, <2>1, HeadIsStale DEF Stale
  <2>3. ProducerOk(p, free, ver)'
    BY <2>1, <2>2 DEF ProducerOk
  <2> QED BY <1>s, <1>h, <2>3, SharedFrame, LocalStep
<1>2. CASE EnqLoadFreeNext(p)
  <2>1. /\ pc[p] = "enqFree" /\ pc'[p] = "enqPop" /\ seen[p] # Null /\ seen' = seen
        /\ link'[p] = next[NodeOf(seen[p])]
    BY <1>t, <1>2 DEF TypeOK, EnqLoadFreeNext
  <2>2. Stale(seen[p], free, ver)'
    BY <1>t, <1>n, <2>1 DEF ProducerOk, Stale
  <2>3. ProducerOk(p, free, ver)'
    BY <1>n, <2>1, <2>2 DEF ProducerOk
  <2> QED BY <1>s, <1>h, <2>3, SharedFrame, LocalStep
<1> QED BY <1>1, <1>2

\* What a consumer that loaded the head knows of the order.
LEMMA LoadedIndex ==
  ASSUME NEW free, NEW ver, NEW place, Whole(free, ver, place), NEW j \in 1 .. First
  PROVE  /\ First \in 1 .. Len(order) /\ head = order[First] /\ j \in DOMAIN order
         /\ order[j] \in Cells /\ order[j] # Null
         /\ order[j] = head => j = First
<1>1. First \in 1 .. Len(order) /\ head = order[First]
  BY DEF Whole, ListIntact, OrderOk
<1>2. First \in Int
  BY <1>1
<1>3. j \in DOMAIN order /\ First \in DOMAIN order
  BY <1>1, <1>2 DEF Whole, OrderOk
<1>4. order[j] \in Cells
  BY <1>3 DEF Whole, OrderOk
<1>5. order[j] = head => j = First
  BY <1>1, <1>3 DEF Whole, OrderOk
<1> QED BY <1>1, <1>3, <1>4, <1>5 DEF Cells, Null, Nodes

\* Steps of dequeue that only move the thread itself: the loads, the moves of
\* an item, a failed CAS and the answer FALSE.
LEMMA DequeueLocalSteps ==
  ASSUME NEW free, NEW ver, NEW place, Whole(free, ver, place), TypeOK', NEW c \in Consumers,
         \/ DeqLoadHead(c)
         \/ DeqLoadNext(c)
         \/ DeqMark(c) /\ (head # nodeIdx[c] \/ headConsumed)
         \/ DeqTakeMarked(c)
         \/ DeqMove(c) /\ (head # nodeIdx[c] \/ headConsumed # consumed[c])
         \/ DeqTakeMoved(c)
         \/ DeqLoadFree(c)
         \/ DeqPush(c) /\ freeListHead # seen[c]
  PROVE  Whole(free, ver, place)'
<1> c \in Threads /\ c \notin Producers
  BY ThreadsAssumption DEF Threads
<1> USE DEF Goto, ends, nodes, history, locals, ClearLocals
<1>t. TypeOK /\ ConsumerOk(c)
  BY DEF Whole
<1>s. UNCHANGED Shared
  BY <1>t DEF TypeOK, DeqLoadHead, DeqLoadNext, DeqMark, DeqTakeMarked, DeqMove,
     DeqTakeMoved, DeqLoadFree, DeqPush, Receive, Shared, Lists
<1>o. \A s \in Threads \ {c} : SameLocals(s)
  BY <1>t DEF TypeOK, DeqLoadHead, DeqLoadNext, DeqMark, DeqTakeMarked, DeqMove,
     DeqTakeMoved, DeqLoadFree, DeqPush, SameLocals
<1>h. /\ Holding(c)' <=> Holding(c)
      /\ Holding(c) => nodeIdx'[c] = nodeIdx[c]
      /\ pc[c] # "enqLink" /\ pc'[c] # "enqLink"
  BY <1>t DEF TypeOK, DeqLoadHead, DeqLoadNext, DeqMark, DeqTakeMarked, DeqMove,
     DeqTakeMoved, DeqLoadFree, DeqPush, Holding
<1>n. UNCHANGED <<nextNode, next, freeListHead, head, order>> /\ First' = First
  BY <1>s DEF Shared, Lists, First
<1>k. First \in 1 .. First /\ First \in 1 .. Len(order) /\ head = order[First]
  BY DEF Whole, ListIntact, OrderOk
<1>1. CASE DeqLoadHead(c)
  <2>1. pc'[c] = "deqNext" /\ nodeIdx'[c] = order[First]
    BY <1>t, <1>1, <1>k DEF TypeOK, DeqLoadHead
  <2>2. ConsumerOk(c)'
    BY <1>n, <1>k, <2>1 DEF ConsumerOk
  <2> QED BY <1>s, <1>o, <1>h, <2>2, SharedFrame, LocalStep
<1>2. CASE DeqLoadNext(c)
  <2>1. pc'[c] \in {"idle", "deqMark", "deqMove"} /\ pc[c] = "deqNext"
    BY <1>t, <1>2 DEF TypeOK, DeqLoadNext
  <2>2. ASSUME pc'[c] \in {"deqMark", "deqMove"}
        PROVE  nodeIdx'[c] = nodeIdx[c]
    BY <1>t, <1>2, <2>2 DEF TypeOK, DeqLoadNext
  <2>3. ASSUME pc'[c] = "deqMove"
        PROVE  link'[c] = next[NodeOf(nodeIdx[c])] /\ link'[c] # Null
    BY <1>t, <1>2, <2>3 DEF TypeOK, DeqLoadNext
  <2>4. ASSUME pc'[c] = "deqMove", nodeIdx[c] = order[First]
        PROVE  /\ First < Len(order) /\ link'[c] = order[First + 1]
               /\ next[NodeOf(order[First])] # Null
    <3>1. next[NodeOf(order[First])] # Null
      BY <2>3, <2>4
    <3>2. First # Len(order)
      BY <1>k, <3>1 DEF Whole, ListIntact
    <3>3. First \in First .. Len(order) - 1
      BY <1>k, <3>2
    <3> QED BY <2>3, <2>4, <3>1, <3>3 DEF Whole, ListIntact
  <2>5. ConsumerOk(c)'
    BY <1>t, <1>n, <2>1, <2>2, <2>3, <2>4 DEF ConsumerOk
  <2> QED BY <1>s, <1>o, <1>h, <2>5, SharedFrame, LocalStep
<1>3. CASE DeqTakeMarked(c) \/ DeqTakeMoved(c) \/ DeqLoadFree(c)
  <2>1. pc'[c] \in {"idle", "deqFree", "deqFreeLink"}
    BY <1>t, <1>3 DEF TypeOK, DeqTakeMarked, DeqTakeMoved, DeqLoadFree
  <2>2. ConsumerOk(c)'
    BY <2>1 DEF ConsumerOk
  <2> QED BY <1>s, <1>o, <1>h, <2>2, SharedFrame, LocalStep
<1>4. CASE \/ DeqMark(c) /\ (head # nodeIdx[c] \/ headConsumed)
           \/ DeqMove(c) /\ (head # nodeIdx[c] \/ headConsumed # consumed[c])
           \/ DeqPush(c) /\ freeListHead # seen[c]
  <2>1. pc'[c] \in {"deqAgain", "deqFreeLink"}
    BY <1>t, <1>4 DEF TypeOK, DeqMark, DeqMove, DeqPush
  <2>2. ConsumerOk(c)'
    BY <2>1 DEF ConsumerOk
  <2> QED BY <1>s, <1>o, <1>h, <2>2, SharedFrame, LocalStep
<1> QED BY <1>1, <1>2, <1>3, <1>4

-----------------------------------------------------------------------------
(* Steps that store a link.                                                   *)

\* A node has one place, so the nodes of the list, of the free list and of the
\* threads differ.
LEMMA NodesApart ==
  ASSUME NEW free, NEW ver, NEW place, Whole(free, ver, place)
  PROVE  /\ \A k, l \in First .. Len(order) :
              NodeOf(order[k]) = NodeOf(order[l]) => k = l
         /\ \A k, l \in 1 .. Len(free) : NodeOf(free[k]) = NodeOf(free[l]) => k = l
         /\ \A k \in First .. Len(order), l \in 1 .. Len(free) :
              NodeOf(order[k]) # NodeOf(free[l])
         /\ \A t \in Threads : Holding(t) =>
              /\ \A k \in First .. Len(order) : NodeOf(order[k]) # NodeOf(nodeIdx[t])
              /\ \A k \in 1 .. Len(free) : NodeOf(free[k]) # NodeOf(nodeIdx[t])
              /\ \A u \in Threads :
                   Holding(u) /\ NodeOf(nodeIdx[u]) = NodeOf(nodeIdx[t]) => u = t
<1>1. \A k, l : /\ InList(k) # InFree(l) /\ InList(k) # With(l) /\ InFree(k) # With(l)
                /\ InList(k) = InList(l) => k = l
                /\ InFree(k) = InFree(l) => k = l
                /\ With(k) = With(l) => k = l
  BY DEF InList, InFree, With
<1>2. /\ \A k \in First .. Len(order) : place[NodeOf(order[k])] = InList(k)
      /\ \A k \in 1 .. Len(free) : place[NodeOf(free[k])] = InFree(k)
      /\ \A t \in Threads : Holding(t) => place[NodeOf(nodeIdx[t])] = With(t)
  BY DEF Whole, PlacesOk
<1> HIDE DEF InList, InFree, With
<1>3. /\ \A k, l \in First .. Len(order) :
           NodeOf(order[k]) = NodeOf(order[l]) => k = l
      /\ \A k, l \in 1 .. Len(free) : NodeOf(free[k]) = NodeOf(free[l]) => k = l
      /\ \A k \in First .. Len(order), l \in 1 .. Len(free) :
           NodeOf(order[k]) # NodeOf(free[l])
  <2>1. ASSUME NEW k \in First .. Len(order), NEW l \in First .. Len(order),
               NodeOf(order[k]) = NodeOf(order[l])
        PROVE  k = l
    <3>1. InList(k) = InList(l)
      BY <1>2, <2>1
    <3> QED BY <1>1, <3>1
  <2>2. ASSUME NEW k \in 1 .. Len(free), NEW l \in 1 .. Len(free),
               NodeOf(free[k]) = NodeOf(free[l])
        PROVE  k = l
    <3>1. InFree(k) = InFree(l)
      BY <1>2, <2>2
    <3> QED BY <1>1, <3>1
  <2>3. ASSUME NEW k \in First .. Len(order), NEW l \in 1 .. Len(free),
               NodeOf(order[k]) = NodeOf(free[l])
        PROVE  FALSE
    <3>1. InList(k) = InFree(l)
      BY <1>2, <2>3
    <3> QED BY <1>1, <3>1
  <2> QED BY <2>1, <2>2, <2>3
<1>4. ASSUME NEW t \in Threads, Holding(t)
      PROVE  /\ \A k \in First .. Len(order) : NodeOf(order[k]) # NodeOf(nodeIdx[t])
             /\ \A k \in 1 .. Len(free) : NodeOf(free[k]) # NodeOf(nodeIdx[t])
             /\ \A u \in Threads :
                  Holding(u) /\ NodeOf(nodeIdx[u]) = NodeOf(nodeIdx[t]) => u = t
  BY <1>1, <1>2, <1>4
<1> QED BY <1>3, <1>4

\* A thread stores the link of a node that it holds.
LEMMA HeldWrite ==
  ASSUME NEW free, NEW ver, NEW place, Whole(free, ver, place), TypeOK', NEW t \in Threads,
         UNCHANGED <<nextNode, head, headConsumed, tail, freeListHead, order, claims>>,
         \A s \in Threads \ {t} : SameLocals(s),
         Holding(t), Holding(t)', nodeIdx'[t] = nodeIdx[t],
         NEW x, next' = [next EXCEPT ![NodeOf(nodeIdx[t])] = x],
         t \in Producers => ProducerOk(t, free, ver)',
         t \in Consumers => ConsumerOk(t)'
  PROVE  Whole(free, ver, place)'
<1> DEFINE n == NodeOf(nodeIdx[t])
<1>1. First' = First
  BY DEF First
<1>2. ClaimsInOrder' /\ OrderOk(ver)'
  BY DEF Whole, ClaimsInOrder, OrderOk
<1>3. \A m : m # n => next'[m] = next[m]
  BY DEF Whole, TypeOK
<1>4. /\ \A k \in First .. Len(order) : NodeOf(order[k]) # n
      /\ \A k \in 1 .. Len(free) : NodeOf(free[k]) # n
      /\ \A u \in Threads \ {t} : Holding(u) => NodeOf(nodeIdx[u]) # n
  BY NodesApart
<1> HIDE DEF n
<1>f. First \in 1 .. Len(order) /\ Len(order) \in Nat
  BY DEF Whole, ListIntact, OrderOk
<1>l. pc[t] # "enqLink" /\ pc'[t] # "enqLink"
  BY DEF Holding
<1>5. FreeOk(free)'
  BY <1>3, <1>4 DEF Whole, FreeOk
<1>6. ListIntact'
  <2>1. ASSUME NEW k \in First .. Len(order) - 1
        PROVE  \/ next'[NodeOf(order[k])] = order[k + 1]
               \/ /\ next'[NodeOf(order[k])] = Null
                  /\ \E p \in Producers : /\ pc'[p] = "enqLink"
                                          /\ seen'[p] = order[k]
                                          /\ nodeIdx'[p] = order[k + 1]
    <3>1. k \in First .. Len(order)
      BY <1>f
    <3>2. next'[NodeOf(order[k])] = next[NodeOf(order[k])]
      BY <1>3, <1>4, <3>1
    <3> QED BY <1>l, <3>2 DEF Whole, ListIntact, SameLocals, Threads
  <2>2. next'[NodeOf(tail)] = Null
    <3>1. Len(order) \in First .. Len(order) /\ tail = order[Len(order)]
      BY <1>f DEF Whole, ListIntact
    <3>2. NodeOf(tail) # n
      BY <1>4, <3>1
    <3> QED BY <1>3, <3>2 DEF Whole, ListIntact
  <2> QED BY <1>1, <2>1, <2>2 DEF Whole, ListIntact
<1>7. PlacesOk(free, ver, place)'
  <2>1. \A s \in Threads : /\ Holding(s)' <=> Holding(s)
                           /\ Holding(s) => nodeIdx'[s] = nodeIdx[s]
    BY DEF SameLocals, Holding
  <2> QED BY <1>1, <2>1 DEF Whole, PlacesOk, Current
<1>8. ASSUME NEW q \in Producers PROVE ProducerOk(q, free, ver)'
  <2>1. CASE q = t
    BY <2>1
  <2>2. CASE q # t
    <3>1. SameLocals(q) /\ ProducerOk(q, free, ver)
      BY <2>2 DEF Whole, Threads
    <3>2. \A r \in Producers : pc'[r] = "enqLink" => SameLocals(r)
      BY <1>l DEF Threads
    <3>3. Stale(seen[q], free, ver)' <=> Stale(seen[q], free, ver)
      BY <3>1 DEF SameLocals, Stale
    <3>4. pc[q] = "enqLink" =>
            \A r \in Producers : pc'[r] = "enqLink" /\ seen'[r] = seen'[q] => r = q
      BY <3>1, <3>2 DEF ProducerOk, SameLocals
    <3>5. ASSUME pc[q] = "enqLink"
          PROVE  \E k \in First .. Len(order) - 1 :
                   /\ seen[q] = order[k] /\ nodeIdx[q] = order[k + 1]
                   /\ next'[NodeOf(order[k])] = Null
      <4>1. PICK k \in First .. Len(order) - 1 :
                   /\ seen[q] = order[k] /\ nodeIdx[q] = order[k + 1]
                   /\ next[NodeOf(order[k])] = Null
        BY <3>1, <3>5 DEF ProducerOk
      <4>2. k \in First .. Len(order)
        BY <1>f
      <4> QED BY <1>3, <1>4, <4>1, <4>2
    <3>6. ASSUME pc[q] = "enqPop", \E k \in 1 .. Len(free) : free[k] = seen[q]
          PROVE  link[q] = next'[NodeOf(seen[q])]
      BY <1>3, <1>4, <3>1, <3>6 DEF ProducerOk
    <3>7. ASSUME pc[q] = "enqTail"
          PROVE  next'[NodeOf(nodeIdx[q])] = Null
      <4>1. Holding(q) /\ q \in Threads \ {t}
        BY <2>2, <3>7 DEF Holding, Threads
      <4> QED BY <1>3, <1>4, <3>1, <3>7, <4>1 DEF ProducerOk
    <3> QED BY <1>1, <3>1, <3>3, <3>4, <3>5, <3>6, <3>7 DEF ProducerOk, SameLocals
  <2> QED BY <2>1, <2>2
<1>9. ASSUME NEW d \in Consumers PROVE ConsumerOk(d)'
  <2>1. CASE d = t
    BY <2>1
  <2>2. CASE d # t
    <3>1. SameLocals(d) /\ ConsumerOk(d)
      BY <2>2 DEF Whole, Threads
    <3>2. ASSUME pc[d] = "deqPush"
          PROVE  next'[NodeOf(nodeIdx[d])] = seen[d]
      <4>1. Holding(d) /\ d \in Threads \ {t}
        BY <2>2, <3>2 DEF Holding, Threads
      <4> QED BY <1>3, <1>4, <3>1, <3>2, <4>1 DEF ConsumerOk
    <3>3. next'[NodeOf(order[First])] = next[NodeOf(order[First])]
      <4>1. First \in First .. Len(order)
        BY <1>f
      <4> QED BY <1>3, <1>4, <4>1
    <3> QED BY <1>1, <3>1, <3>2, <3>3 DEF ConsumerOk, SameLocals
  <2> QED BY <2>1, <2>2
<1> QED BY <1>2, <1>5, <1>6, <1>7, <1>8, <1>9 DEF Whole

\* The link of a node that is used again is cleared.
LEMMA EnqConstructStep ==
  ASSUME NEW free, NEW ver, NEW place, Whole(free, ver, place), TypeOK',
         NEW p \in Producers, EnqConstruct(p)
  PROVE  Whole(free, ver, place)'
<1> p \in Threads /\ p \notin Consumers
  BY ThreadsAssumption DEF Threads
<1>t. TypeOK /\ ProducerOk(p, free, ver)
  BY DEF Whole
<1>1. /\ pc[p] = "enqConstruct" /\ pc' = [pc EXCEPT ![p] = "enqTail"]
      /\ UNCHANGED locals
      /\ next' = [next EXCEPT ![NodeOf(nodeIdx[p])] = Null]
      /\ UNCHANGED <<nextNode, head, headConsumed, tail, freeListHead, order, claims>>
  BY DEF EnqConstruct, Goto, ends, history
<1>2. /\ pc'[p] = "enqTail" /\ nodeIdx'[p] = nodeIdx[p]
      /\ \A s \in Threads \ {p} : SameLocals(s)
  BY <1>t, <1>1 DEF TypeOK, locals, SameLocals
<1>3. Holding(p) /\ Holding(p)'
  BY <1>1, <1>2 DEF Holding
<1>4. next'[NodeOf(nodeIdx[p])] = Null
  <2>1. NodeOf(nodeIdx[p]) \in Nodes
    BY <1>3 DEF Whole, PlacesOk, Current, Cells, NodeOf
  <2> QED BY <1>t, <1>1, <2>1 DEF TypeOK
<1>5. ProducerOk(p, free, ver)'
  <2>1. NodeOf(nodeIdx[p])' = NodeOf(nodeIdx[p])
    BY <1>2 DEF NodeOf
  <2> QED BY <1>t, <1>1, <1>2, <1>4, <2>1 DEF ProducerOk
<1> QED BY <1>1, <1>2, <1>3, <1>5, HeldWrite

\* The link of a node that is to be freed is set to the free list head.
LEMMA DeqFreeLinkStep ==
  ASSUME NEW free, NEW ver, NEW place, Whole(free, ver, place), TypeOK',
         NEW c \in Consumers, DeqFreeLink(c)
  PROVE  Whole(free, ver, place)'
<1> c \in Threads /\ c \notin Producers
  BY ThreadsAssumption DEF Threads
<1>t. TypeOK
  BY DEF Whole
<1>1. /\ pc[c] = "deqFreeLink" /\ pc' = [pc EXCEPT ![c] = "deqPush"]
      /\ UNCHANGED locals
      /\ next' = [next EXCEPT ![NodeOf(nodeIdx[c])] = seen[c]]
      /\ UNCHANGED <<nextNode, head, headConsumed, tail, freeListHead, order, claims>>
  BY DEF DeqFreeLink, Goto, ends, history
<1>2. /\ pc'[c] = "deqPush" /\ nodeIdx'[c] = nodeIdx[c] /\ seen'[c] = seen[c]
      /\ \A s \in Threads \ {c} : SameLocals(s)
  BY <1>t, <1>1 DEF TypeOK, locals, SameLocals
<1>3. Holding(c) /\ Holding(c)'
  BY <1>1, <1>2 DEF Holding
<1>4. next'[NodeOf(nodeIdx[c])] = seen[c]
  <2>1. NodeOf(nodeIdx[c]) \in Nodes
    BY <1>3 DEF Whole, PlacesOk, Current, Cells, NodeOf
  <2> QED BY <1>t, <1>1, <2>1 DEF TypeOK
<1>5. ConsumerOk(c)'
  <2>1. NodeOf(nodeIdx[c])' = NodeOf(nodeIdx[c])
    BY <1>2 DEF NodeOf
  <2> QED BY <1>2, <1>4, <2>1 DEF ConsumerOk
<1> QED BY <1>1, <1>2, <1>3, <1>5, HeldWrite

\* The link from the old tail to the new one.
LEMMA EnqLinkStep ==
  ASSUME NEW free, NEW ver, NEW place, Whole(free, ver, place), TypeOK',
         NEW p \in Producers, EnqLink(p)
  PROVE  Whole(free, ver, place)'
<1> p \in Threads /\ p \notin Consumers
  BY ThreadsAssumption DEF Threads
<1>t. TypeOK /\ ProducerOk(p, free, ver) /\ OrderOk(ver) /\ ListIntact
  BY DEF Whole
<1>1. /\ pc[p] = "enqLink" /\ pc'[p] = "idle"
      /\ next' = [next EXCEPT ![NodeOf(seen[p])] = nodeIdx[p]]
      /\ UNCHANGED <<nextNode, head, headConsumed, tail, freeListHead, order, claims>>
      /\ \A s \in Threads \ {p} : SameLocals(s)
  BY <1>t DEF TypeOK, EnqLink, Goto, ClearLocals, SameLocals, ends, history
<1>k. PICK k0 \in First .. Len(order) - 1 :
             seen[p] = order[k0] /\ nodeIdx[p] = order[k0 + 1]
  BY <1>t, <1>1 DEF ProducerOk
<1> DEFINE n == NodeOf(order[k0])
<1>f. First \in 1 .. Len(order) /\ Len(order) \in Nat
  BY <1>t DEF ListIntact, OrderOk
<1>2. /\ k0 \in First .. Len(order) /\ k0 # Len(order)
      /\ order[k0] \in Cells /\ n \in Nodes
  BY <1>t, <1>f DEF OrderOk, Cells, NodeOf
<1>3. next'[n] = order[k0 + 1] /\ \A m : m # n => next'[m] = next[m]
  BY <1>t, <1>1, <1>k, <1>2 DEF TypeOK
<1>4. /\ \A k \in First .. Len(order) : k # k0 => NodeOf(order[k]) # n
      /\ \A k \in 1 .. Len(free) : NodeOf(free[k]) # n
      /\ \A u \in Threads : Holding(u) => NodeOf(nodeIdx[u]) # n
  BY <1>2, NodesApart
<1> HIDE DEF n
<1>5. First' = First /\ ClaimsInOrder' /\ OrderOk(ver)'
  BY <1>1 DEF Whole, First, ClaimsInOrder, OrderOk
<1>6. FreeOk(free)'
  BY <1>1, <1>3, <1>4 DEF Whole, FreeOk
<1>7. ListIntact'
  <2>1. ASSUME NEW k \in First .. Len(order) - 1
        PROVE  \/ next'[NodeOf(order[k])] = order[k + 1]
               \/ /\ next'[NodeOf(order[k])] = Null
                  /\ \E q \in Producers : /\ pc'[q] = "enqLink"
                                          /\ seen'[q] = order[k]
                                          /\ nodeIdx'[q] = order[k + 1]
    <3>1. k \in First .. Len(order)
      BY <1>f
    <3>2. CASE k = k0
      BY <1>3, <3>2 DEF n
    <3>3. CASE k # k0
      <4>1. next'[NodeOf(order[k])] = next[NodeOf(order[k])]
        BY <1>3, <1>4, <3>1, <3>3
      <4>2. seen[p] # order[k]
        BY <1>k, <1>4, <3>1, <3>3 DEF n
      <4>3. CASE next[NodeOf(order[k])] = order[k + 1]
        BY <4>3, <4>1
      <4>4. CASE next[NodeOf(order[k])] # order[k + 1]
        <5>1. PICK q \in Producers : pc[q] = "enqLink" /\ seen[q] = order[k] /\ nodeIdx[q] = order[k + 1]
          BY <1>t, <4>4 DEF ListIntact
        <5>2. next[NodeOf(order[k])] = Null
          BY <1>t, <4>4 DEF ListIntact
        <5>3. SameLocals(q)
          BY <1>1, <4>2, <5>1 DEF Threads
        <5> QED BY <4>1, <5>1, <5>2, <5>3 DEF SameLocals
      <4> QED BY <4>3, <4>4
    <3> QED BY <3>2, <3>3
  <2>2. next'[NodeOf(tail)] = Null
    <3>1. Len(order) \in First .. Len(order) /\ tail = order[Len(order)]
      BY <1>t, <1>f DEF ListIntact
    <3>2. NodeOf(tail) # n
      BY <1>2, <1>4, <3>1
    <3> QED BY <1>t, <1>3, <3>2 DEF ListIntact
  <2> QED BY <1>t, <1>1, <1>5, <2>1, <2>2 DEF ListIntact
<1>8. PlacesOk(free, ver, place)'
  <2>1. \A s \in Threads : /\ Holding(s)' <=> Holding(s)
                           /\ Holding(s) => nodeIdx'[s] = nodeIdx[s]
    BY <1>1 DEF SameLocals, Holding
  <2> QED BY <1>1, <1>5, <2>1 DEF Whole, PlacesOk, Current
<1>9. ASSUME NEW q \in Producers PROVE ProducerOk(q, free, ver)'
  <2>1. CASE q = p
    BY <1>1, <2>1 DEF ProducerOk
  <2>2. CASE q # p
    <3>1. SameLocals(q) /\ ProducerOk(q, free, ver)
      BY <1>1, <2>2 DEF Whole, Threads
    <3>2. \A r \in Producers : pc'[r] = "enqLink" => SameLocals(r)
      BY <1>1 DEF Threads
    <3>3. Stale(seen[q], free, ver)' <=> Stale(seen[q], free, ver)
      BY <1>1, <3>1 DEF SameLocals, Stale
    <3>4. pc[q] = "enqLink" =>
            \A r \in Producers : pc'[r] = "enqLink" /\ seen'[r] = seen'[q] => r = q
      BY <3>1, <3>2 DEF ProducerOk, SameLocals
    <3>5. ASSUME pc[q] = "enqLink"
          PROVE  \E k \in First .. Len(order) - 1 :
                   /\ seen[q] = order[k] /\ nodeIdx[q] = order[k + 1]
                   /\ next'[NodeOf(order[k])] = Null
      <4>1. PICK k \in First .. Len(order) - 1 :
                   /\ seen[q] = order[k] /\ nodeIdx[q] = order[k + 1]
                   /\ next[NodeOf(order[k])] = Null
        BY <3>1, <3>5 DEF ProducerOk
      <4>2. k # k0
        BY <1>1, <1>k, <2>2, <3>1, <3>5, <4>1 DEF ProducerOk
      <4>3. k \in First .. Len(order)
        BY <1>f
      <4> QED BY <1>3, <1>4, <4>1, <4>2, <4>3
    <3>6. ASSUME pc[q] = "enqPop", \E k \in 1 .. Len(free) : free[k] = seen[q]
          PROVE  link[q] = next'[NodeOf(seen[q])]
      BY <1>3, <1>4, <3>1, <3>6 DEF ProducerOk
    <3>7. ASSUME pc[q] = "enqTail"
          PROVE  next'[NodeOf(nodeIdx[q])] = Null
      <4>1. Holding(q) /\ q \in Threads
        BY <3>7 DEF Holding, Threads
      <4> QED BY <1>3, <1>4, <3>1, <3>7, <4>1 DEF ProducerOk
    <3> QED BY <1>1, <1>5, <3>1, <3>3, <3>4, <3>5, <3>6, <3>7 DEF ProducerOk, SameLocals
  <2> QED BY <2>1, <2>2
<1>10. ASSUME NEW d \in Consumers PROVE ConsumerOk(d)'
  <2>1. SameLocals(d) /\ ConsumerOk(d)
    BY <1>1 DEF Whole, Threads
  <2>2. ASSUME pc[d] = "deqPush"
        PROVE  next'[NodeOf(nodeIdx[d])] = seen[d]
    <3>1. Holding(d) /\ d \in Threads
      BY <2>2 DEF Holding, Threads
    <3> QED BY <1>3, <1>4, <2>1, <2>2, <3>1 DEF ConsumerOk
  <2>3. next[NodeOf(order[First])] # Null => next'[NodeOf(order[First])] # Null
    <3>1. First \in First .. Len(order)
      BY <1>f
    <3>2. order[k0 + 1] # Null
      <4>1. k0 + 1 \in DOMAIN order
        BY <1>t, <1>f DEF OrderOk
      <4> QED BY <1>t, <4>1 DEF OrderOk, Cells, Null, Nodes
    <3> QED BY <1>3, <1>4, <3>1, <3>2 DEF n
  <2> QED BY <1>1, <1>5, <2>1, <2>2, <2>3 DEF ConsumerOk, SameLocals
<1> QED BY <1>5, <1>6, <1>7, <1>8, <1>9, <1>10 DEF Whole

-----------------------------------------------------------------------------
(* The CAS operations on head.                                               *)

\* The CAS that marks the last node: it claims the node after the claimed ones.
LEMMA DeqMarkStep ==
  ASSUME NEW free, NEW ver, NEW place, Whole(free, ver, place), TypeOK',
         NEW c \in Consumers, DeqMark(c), head = nodeIdx[c], ~headConsumed
  PROVE  Whole(free, ver, place)'
<1> c \in Threads /\ c \notin Producers
  BY ThreadsAssumption DEF Threads
<1>t. TypeOK
  BY DEF Whole
<1>1. /\ pc[c] = "deqMark" /\ pc'[c] = "deqTakeMarked"
      /\ headConsumed' = TRUE /\ claims' = Append(claims, head)
      /\ UNCHANGED <<nextNode, head, tail, freeListHead, next, order>>
      /\ \A s \in Threads \ {c} : SameLocals(s)
  BY <1>t DEF TypeOK, DeqMark, Goto, SameLocals, locals, nodes
<1>2. /\ claims \in Seq(Indices) /\ Len(claims) \in Nat /\ Len(order) \in Nat
      /\ First = Len(claims) + 1 /\ First \in 1 .. Len(order) /\ head = order[First]
      /\ Len(claims') = Len(claims) + 1 /\ claims'[Len(claims) + 1] = head
      /\ \A k \in 1 .. Len(claims) : claims'[k] = claims[k]
  BY <1>t, <1>1 DEF TypeOK, Whole, ListIntact, First
<1>3. First' = First
  BY <1>1, <1>2 DEF First
<1>4. ClaimsInOrder'
  <2>1. \A k \in 1 .. Len(claims) + 1 : k \in 1 .. Len(claims) \/ k = Len(claims) + 1
    BY <1>2
  <2>2. \A k \in 1 .. Len(claims) : claims[k] = order[k]
    BY <1>2 DEF Whole, ClaimsInOrder
  <2>3. \A k \in 1 .. Len(claims) + 1 : claims'[k] = order[k]
    BY <1>2, <2>1, <2>2
  <2>4. DOMAIN claims' = 1 .. Len(claims) + 1
    BY <1>1, <1>2
  <2> QED BY <1>1, <1>2, <2>3, <2>4 DEF ClaimsInOrder
<1>5. /\ ~Holding(c) /\ ~Holding(c)' /\ ConsumerOk(c)'
      /\ pc[c] # "enqLink" /\ pc'[c] # "enqLink"
  BY <1>1 DEF Holding, ConsumerOk
<1> QED BY <1>1, <1>3, <1>4, <1>5, LocalStep DEF Lists

-----------------------------------------------------------------------------
(* Steps that move a node from one place to another.                          *)

\* A node that was never used goes to the producer that allocates it.
LEMMA EnqNewNodeStep ==
  ASSUME NEW free, NEW ver, NEW place, Whole(free, ver, place), TypeOK',
         NEW p \in Producers, EnqNewNode(p)
  PROVE  IInv'
<1> p \in Threads /\ p \notin Consumers
  BY ThreadsAssumption DEF Threads
<1>t. TypeOK /\ OrderOk(ver) /\ ListIntact /\ FreeOk(free) /\ PlacesOk(free, ver, place)
  BY DEF Whole
<1> PICK m : m = nextNode
  OBVIOUS
<1> PICK ver2 : ver2 = [ver EXCEPT ![m] = 0]
  OBVIOUS
<1> PICK place2 : place2 = [place EXCEPT ![m] = With(p)]
  OBVIOUS
<1>1. /\ pc[p] = "enqFree" /\ pc'[p] = "enqTail"
      /\ nodeIdx'[p] = <<m, 0>> /\ nextNode' = m + 1
      /\ next' = [next EXCEPT ![m] = Null]
      /\ UNCHANGED <<head, headConsumed, tail, freeListHead, order, claims>>
      /\ \A s \in Threads \ {p} : SameLocals(s)
      /\ m \in Nodes /\ m \in Nat
  BY <1>t, NodesAssumption
     DEF TypeOK, EnqNewNode, Goto, SameLocals, ends, history, Nodes
<1>2. /\ \A n \in Nodes : n # m => ver2[n] = ver[n] /\ place2[n] = place[n]
      /\ ver2[m] = 0 /\ place2[m] = With(p)
      /\ ver2 \in [Nodes -> Nat] /\ DOMAIN place2 = Nodes
  BY <1>t, <1>1 DEF PlacesOk
<1>3. (\A n : n # m => next'[n] = next[n]) /\ next'[m] = Null
  BY <1>t, <1>1 DEF TypeOK
<1>f. First' = First /\ First \in 1 .. Len(order) /\ Len(order) \in Nat
  BY <1>t, <1>1 DEF First, ListIntact, OrderOk
<1>c. \A i : Current(i, ver) => /\ Current(i, ver2)' /\ NodeOf(i) # m
                                /\ place2[NodeOf(i)] = place[NodeOf(i)]
  BY <1>1, <1>2 DEF Current, Cells, NodeOf, Nodes
<1>o. \A k \in DOMAIN order : order[k] \in Cells /\ NodeOf(order[k]) \in Nodes /\ NodeOf(order[k]) < m
  BY <1>t DEF OrderOk, Cells, NodeOf
<1>4. ClaimsInOrder' /\ OrderOk(ver2)'
  <2>1. \A k \in DOMAIN order : NodeOf(order[k]) < m + 1 /\ ver2[NodeOf(order[k])] = ver[NodeOf(order[k])]
    BY <1>1, <1>2, <1>o DEF Nodes
  <2> QED BY <1>t, <1>1, <2>1 DEF Whole, ClaimsInOrder, OrderOk, NodeOf
<1>5. FreeOk(free)'
  <2>1. \A k \in 1 .. Len(free) : NodeOf(free[k]) # m
    BY <1>c, <1>t DEF PlacesOk
  <2> QED BY <1>t, <1>1, <1>3, <2>1 DEF FreeOk
<1>6. ListIntact'
  <2>1. ASSUME NEW k \in First .. Len(order) - 1
        PROVE  \/ next'[NodeOf(order[k])] = order[k + 1]
               \/ /\ next'[NodeOf(order[k])] = Null
                  /\ \E q \in Producers : /\ pc'[q] = "enqLink"
                                          /\ seen'[q] = order[k]
                                          /\ nodeIdx'[q] = order[k + 1]
    <3>1. k \in DOMAIN order
      BY <1>t, <1>f DEF OrderOk
    <3>2. next'[NodeOf(order[k])] = next[NodeOf(order[k])]
      BY <1>3, <1>o, <3>1 DEF Nodes
    <3>q. \A q \in Producers : pc[q] = "enqLink" => q # p
      BY <1>1
    <3>3. CASE next[NodeOf(order[k])] = order[k + 1]
      BY <3>3, <3>2
    <3>4. CASE next[NodeOf(order[k])] # order[k + 1]
      <4>1. PICK q \in Producers : pc[q] = "enqLink" /\ seen[q] = order[k] /\ nodeIdx[q] = order[k + 1]
        BY <1>t, <3>4 DEF ListIntact
      <4>2. next[NodeOf(order[k])] = Null
        BY <1>t, <3>4 DEF ListIntact
      <4>3. SameLocals(q)
        BY <1>1, <3>q, <4>1 DEF Threads
      <4> QED BY <3>2, <4>1, <4>2, <4>3 DEF SameLocals
    <3> QED BY <3>3, <3>4
  <2>2. next'[NodeOf(tail)] = Null
    <3>1. Len(order) \in DOMAIN order /\ tail = order[Len(order)]
      BY <1>t, <1>f DEF ListIntact, OrderOk
    <3> QED BY <1>t, <1>3, <3>1 DEF ListIntact
  <2> QED BY <1>t, <1>1, <1>f, <2>1, <2>2 DEF ListIntact
<1>7. PlacesOk(free, ver2, place2)'
  <2>1. \A k \in First .. Len(order) :
          Current(order[k], ver2)' /\ place2[NodeOf(order[k])] = InList(k)
    BY <1>t, <1>c, <1>1 DEF PlacesOk, Current
  <2>2. \A k \in 1 .. Len(free) :
          Current(free[k], ver2)' /\ place2[NodeOf(free[k])] = InFree(k)
    BY <1>t, <1>c DEF PlacesOk
  <2>3. ASSUME NEW u \in Threads, Holding(u)'
        PROVE  Current(nodeIdx[u], ver2)' /\ place2[NodeOf(nodeIdx'[u])] = With(u)
    <3>1. CASE u = p
      <4>1. <<m, 0>> \in Nodes \X Nat /\ <<m, 0>>[1] = m /\ <<m, 0>>[2] = 0 /\ m < m + 1
        BY <1>1
      <4> QED BY <1>1, <1>2, <3>1, <4>1 DEF Current, Cells, NodeOf
    <3>2. CASE u # p
      <4>1. SameLocals(u) /\ Holding(u)
        BY <1>1, <2>3, <3>2 DEF SameLocals, Holding
      <4>2. Current(nodeIdx[u], ver) /\ place[NodeOf(nodeIdx[u])] = With(u)
        BY <1>t, <4>1 DEF PlacesOk
      <4> QED BY <1>c, <4>1, <4>2 DEF Current, SameLocals
    <3> QED BY <3>1, <3>2
  <2>4. ASSUME NEW n \in 1 .. m
        PROVE  \/ \E k \in First .. Len(order) : NodeOf(order[k]) = n
               \/ \E k \in 1 .. Len(free) : NodeOf(free[k]) = n
               \/ \E u \in Threads : Holding(u)' /\ NodeOf(nodeIdx'[u]) = n
    <3>1. CASE n = m
      <4>1. Holding(p)' /\ NodeOf(nodeIdx'[p]) = n
        BY <1>1, <3>1 DEF Holding, NodeOf
      <4> QED BY <4>1
    <3>2. CASE n # m
      <4>1. n \in 1 .. nextNode - 1
        BY <1>1, <3>2
      <4>2. ASSUME NEW u \in Threads, Holding(u), NodeOf(nodeIdx[u]) = n
            PROVE  Holding(u)' /\ NodeOf(nodeIdx'[u]) = n
        <5>1. u # p
          BY <1>1, <4>2 DEF Holding
        <5> QED BY <1>1, <4>2, <5>1 DEF SameLocals, Holding
      <4> QED BY <1>t, <4>1, <4>2 DEF PlacesOk
    <3> QED BY <3>1, <3>2
  <2>5. nextNode' - 1 = m
    BY <1>1
  <2> QED BY <1>1, <1>2, <1>f, <2>1, <2>2, <2>3, <2>4, <2>5 DEF PlacesOk, NodeOf
<1>8. ASSUME NEW q \in Producers PROVE ProducerOk(q, free, ver2)'
  <2>1. CASE q = p
    <3>1. \A k \in DOMAIN order : order[k] # <<m, 0>>
      BY <1>o, <1>1 DEF NodeOf
    <3>2. NodeOf(nodeIdx'[p]) = m
      BY <1>1 DEF NodeOf
    <3> QED BY <1>1, <1>3, <2>1, <3>1, <3>2 DEF ProducerOk, NodeOf
  <2>2. CASE q # p
    <3>1. SameLocals(q) /\ ProducerOk(q, free, ver)
      BY <1>1, <2>2 DEF Whole, Threads
    <3>2. \A r \in Producers : pc'[r] = "enqLink" => SameLocals(r)
      BY <1>1 DEF Threads
    <3>3. ASSUME Stale(seen[q], free, ver)
          PROVE  Stale(seen[q], free, ver2)' /\ next'[NodeOf(seen[q])] = next[NodeOf(seen[q])]
      <4>1. NodeOf(seen[q]) \in Nodes /\ NodeOf(seen[q]) < m
        BY <3>3 DEF Stale, Cells, NodeOf
      <4>2. NodeOf(seen[q]) # m /\ NodeOf(seen[q]) < m + 1
        BY <1>1, <4>1 DEF Nodes
      <4> QED BY <1>1, <1>2, <1>3, <3>1, <3>3, <4>1, <4>2 DEF Stale, SameLocals
    <3>4. pc[q] = "enqLink" =>
            \A r \in Producers : pc'[r] = "enqLink" /\ seen'[r] = seen'[q] => r = q
      BY <3>1, <3>2 DEF ProducerOk, SameLocals
    <3>5. ASSUME pc[q] = "enqLink"
          PROVE  \E k \in First .. Len(order) - 1 :
                   /\ seen[q] = order[k] /\ nodeIdx[q] = order[k + 1]
                   /\ next'[NodeOf(order[k])] = Null
      <4>1. PICK k \in First .. Len(order) - 1 :
                   /\ seen[q] = order[k] /\ nodeIdx[q] = order[k + 1]
                   /\ next[NodeOf(order[k])] = Null
        BY <3>1, <3>5 DEF ProducerOk
      <4> QED BY <1>3, <4>1
    <3>6. pc[q] = "enqTail" => next'[NodeOf(nodeIdx[q])] = Null
      BY <1>3, <3>1 DEF ProducerOk
    <3> QED BY <1>1, <1>f, <3>1, <3>3, <3>4, <3>5, <3>6 DEF ProducerOk, SameLocals
  <2> QED BY <2>1, <2>2
<1>9. ASSUME NEW d \in Consumers PROVE ConsumerOk(d)'
  <2>1. SameLocals(d) /\ ConsumerOk(d)
    BY <1>1 DEF Whole, Threads
  <2>2. ASSUME pc[d] = "deqPush"
        PROVE  next'[NodeOf(nodeIdx[d])] = seen[d]
    <3>1. Holding(d) /\ d \in Threads
      BY <2>2 DEF Holding, Threads
    <3>2. NodeOf(nodeIdx[d]) # m
      BY <1>t, <1>c, <3>1 DEF PlacesOk
    <3> QED BY <1>3, <2>1, <2>2, <3>2 DEF ConsumerOk
  <2>3. next'[NodeOf(order[First])] = next[NodeOf(order[First])]
    <3>1. First \in DOMAIN order
      BY <1>t, <1>f DEF OrderOk
    <3> QED BY <1>1, <1>3, <1>o, <3>1 DEF Nodes
  <2> QED BY <1>1, <1>f, <2>1, <2>2, <2>3 DEF ConsumerOk, SameLocals
<1>10. Whole(free, ver2, place2)'
  BY <1>4, <1>5, <1>6, <1>7, <1>8, <1>9 DEF Whole
<1> QED BY <1>10 DEF IInv

\* The CAS that pops the free list head.  The link loaded before is right if the
\* head is the one that was loaded, version included.
LEMMA EnqPopStep ==
  ASSUME NEW free, NEW ver, NEW place, Whole(free, ver, place), TypeOK',
         NEW p \in Producers, EnqPop(p), freeListHead = seen[p]
  PROVE  IInv'
<1> p \in Threads /\ p \notin Consumers
  BY ThreadsAssumption DEF Threads
<1>t. /\ TypeOK /\ OrderOk(ver) /\ ListIntact /\ FreeOk(free) /\ PlacesOk(free, ver, place)
      /\ ProducerOk(p, free, ver)
  BY DEF Whole
<1> PICK top : top = seen[p]
  OBVIOUS
<1> DEFINE n == NodeOf(top)
           last == Len(free)
<1>1. /\ pc[p] = "enqPop" /\ pc'[p] = "enqConstruct"
      /\ nodeIdx'[p] = <<top[1], top[2] + 1>>
      /\ freeListHead' = link[p] /\ freeListHead = top
      /\ UNCHANGED <<nextNode, head, headConsumed, tail, next, order, claims>>
      /\ \A s \in Threads \ {p} : SameLocals(s)
  BY <1>t DEF TypeOK, EnqPop, Goto, SameLocals, ends, nodes, history
<1>2. Stale(top, free, ver) /\ top \in Cells /\ top # Null
  BY <1>t, <1>1 DEF ProducerOk, Stale, Cells, Null, Nodes
<1>3. last \in Nat \ {0} /\ free[last] = top /\ free \in Seq(Cells)
  BY <1>t, <1>1, <1>2 DEF FreeOk, FreeAt
<1>l. last \in 1 .. Len(free)
  BY <1>3
<1>4. Current(top, ver) /\ n \in Nodes /\ top[2] = ver[n] /\ ver[n] \in Nat
  <2>1. Current(free[last], ver)
    BY <1>t, <1>l DEF PlacesOk
  <2>2. Current(top, ver)
    BY <1>3, <2>1
  <2>3. n \in Nodes /\ ver \in [Nodes -> Nat]
    BY <1>t, <1>2 DEF PlacesOk, Cells, NodeOf
  <2> QED BY <2>2, <2>3 DEF Current
<1>5. link[p] = FreeAt(free, last - 1)
  <2>1. link[p] = next[n]
    BY <1>t, <1>1, <1>3 DEF ProducerOk
  <2>2. next[NodeOf(free[last])] = FreeAt(free, last - 1)
    BY <1>t, <1>l DEF FreeOk
  <2> QED BY <1>3, <2>1, <2>2
<1> PICK free2 : free2 = SubSeq(free, 1, last - 1)
  OBVIOUS
<1> PICK ver2 : ver2 = [ver EXCEPT ![n] = top[2] + 1]
  OBVIOUS
<1> PICK place2 : place2 = [place EXCEPT ![n] = With(p)]
  OBVIOUS
<1>6. /\ free2 \in Seq(Cells) /\ Len(free2) = last - 1
      /\ \A k \in 1 .. last - 1 : free2[k] = free[k]
  <2>1. last - 1 \in Nat /\ last - 1 <= Len(free)
    BY <1>3
  <2> HIDE DEF last
  <2>2. free2 = [k \in 1 .. last - 1 |-> free[k]]
    BY <2>1
  <2>3. \A k \in 1 .. last - 1 : free[k] \in Cells
    BY <1>3, <2>1
  <2> QED BY <2>1, <2>2, <2>3
<1>7. /\ \A j \in Nodes : j # n => ver2[j] = ver[j] /\ place2[j] = place[j]
      /\ ver2[n] = ver[n] + 1 /\ place2[n] = With(p)
      /\ ver2 \in [Nodes -> Nat] /\ DOMAIN place2 = Nodes
  BY <1>t, <1>4 DEF PlacesOk
<1>8. /\ \A k \in First .. Len(order) : NodeOf(order[k]) # n
      /\ \A k \in 1 .. last - 1 : NodeOf(free[k]) # n
      /\ \A u \in Threads : Holding(u) => NodeOf(nodeIdx[u]) # n
  <2>1. last \in 1 .. Len(free) /\ \A k \in 1 .. last - 1 : k \in 1 .. Len(free) /\ k # last
    BY <1>3
  <2> QED BY <1>3, <2>1, NodesApart
<1>c. \A i : Current(i, ver) /\ NodeOf(i) # n =>
               Current(i, ver2)' /\ place2[NodeOf(i)] = place[NodeOf(i)]
  BY <1>1, <1>7 DEF Current, Cells, NodeOf
<1>h. nodeIdx'[p] \in Cells /\ NodeOf(nodeIdx'[p]) = n /\ (nodeIdx'[p])[2] = ver[n] + 1
  <2>1. <<top[1], top[2] + 1>> \in Nodes \X Nat
    BY <1>2 DEF Cells
  <2> QED BY <1>1, <1>4, <2>1 DEF Cells, NodeOf
<1> HIDE DEF n, last
<1>f. First' = First /\ First \in 1 .. Len(order) /\ Len(order) \in Nat
  BY <1>t, <1>1 DEF First, ListIntact, OrderOk
<1>9. ClaimsInOrder' /\ OrderOk(ver2)'
  <2>1. \A k \in DOMAIN order : order[k][2] <= ver2[NodeOf(order[k])]
    <3> SUFFICES ASSUME NEW k \in DOMAIN order
                 PROVE  order[k][2] <= ver2[NodeOf(order[k])]
      OBVIOUS
    <3>1. NodeOf(order[k]) \in Nodes /\ order[k][2] \in Nat
          /\ order[k][2] <= ver[NodeOf(order[k])] /\ ver[NodeOf(order[k])] \in Nat
      BY <1>t DEF OrderOk, Cells, NodeOf, PlacesOk
    <3> QED BY <1>7, <3>1
  <2> QED BY <1>t, <1>1, <2>1 DEF Whole, ClaimsInOrder, OrderOk, NodeOf
<1>10. FreeOk(free2)'
  <2>1. freeListHead' = FreeAt(free2, Len(free2))
    BY <1>1, <1>3, <1>5, <1>6 DEF FreeAt
  <2>2. ASSUME NEW k \in 1 .. last - 1
        PROVE  next[NodeOf(free2[k])] = FreeAt(free2, k - 1)
    <3>1. k \in 1 .. Len(free) /\ (k - 1 = 0 \/ k - 1 \in 1 .. last - 1)
      BY <1>3 DEF last
    <3> QED BY <1>t, <1>6, <3>1 DEF FreeOk, FreeAt
  <2> QED BY <1>1, <1>6, <2>1, <2>2 DEF FreeOk, FreeAt
<1>11. ListIntact'
  BY <1>t, <1>1, <1>f DEF ListIntact, SameLocals, Threads
<1>12. PlacesOk(free2, ver2, place2)'
  <2>1. \A k \in First .. Len(order) :
          Current(order[k], ver2)' /\ place2[NodeOf(order[k])] = InList(k)
    BY <1>t, <1>c, <1>1, <1>8 DEF PlacesOk, Current
  <2>2. ASSUME NEW k \in 1 .. last - 1
        PROVE  Current(free2[k], ver2)' /\ place2[NodeOf(free2[k])] = InFree(k)
    <3>1. k \in 1 .. Len(free)
      BY <1>3 DEF last
    <3> QED BY <1>t, <1>c, <1>6, <1>8, <3>1 DEF PlacesOk
  <2>3. ASSUME NEW u \in Threads, Holding(u)'
        PROVE  Current(nodeIdx[u], ver2)' /\ place2[NodeOf(nodeIdx'[u])] = With(u)
    <3>1. CASE u = p
      BY <1>1, <1>4, <1>7, <1>h, <3>1 DEF Current, n, NodeOf
    <3>2. CASE u # p
      <4>1. SameLocals(u) /\ Holding(u)
        BY <1>1, <2>3, <3>2 DEF SameLocals, Holding
      <4>2. Current(nodeIdx[u], ver) /\ place[NodeOf(nodeIdx[u])] = With(u)
        BY <1>t, <4>1 DEF PlacesOk
      <4> QED BY <1>c, <1>8, <4>1, <4>2 DEF Current, SameLocals
    <3> QED BY <3>1, <3>2
  <2>4. ASSUME NEW j \in 1 .. nextNode - 1
        PROVE  \/ \E k \in First .. Len(order) : NodeOf(order[k]) = j
               \/ \E k \in 1 .. last - 1 : NodeOf(free2[k]) = j
               \/ \E u \in Threads : Holding(u)' /\ NodeOf(nodeIdx'[u]) = j
    <3>1. CASE j = n
      BY <1>1, <1>h, <3>1 DEF Holding
    <3>2. CASE j # n
      <4>1. ASSUME NEW u \in Threads, Holding(u), NodeOf(nodeIdx[u]) = j
            PROVE  Holding(u)' /\ NodeOf(nodeIdx'[u]) = j
        <5>1. u # p
          BY <1>1, <4>1 DEF Holding
        <5> QED BY <1>1, <4>1, <5>1 DEF SameLocals, Holding
      <4>2. ASSUME NEW k \in 1 .. Len(free), NodeOf(free[k]) = j
            PROVE  k \in 1 .. last - 1 /\ NodeOf(free2[k]) = j
        <5>1. k # last
          BY <1>3, <3>2, <4>2 DEF n
        <5>2. k \in 1 .. last - 1
          BY <1>3, <5>1 DEF last
        <5> QED BY <1>6, <4>2, <5>2
      <4> QED BY <1>t, <4>1, <4>2 DEF PlacesOk
    <3> QED BY <3>1, <3>2
  <2>5. /\ ver2 \in [Nodes -> Nat] /\ DOMAIN place2 = Nodes
        /\ order' = order /\ First' = First /\ nextNode' = nextNode
    BY <1>1, <1>7, <1>f
  <2>6. \A k \in 1 .. Len(free2) :
          Current(free2[k], ver2)' /\ place2[NodeOf(free2[k])] = InFree(k)
    BY <1>6, <2>2
  <2>7. Len(free2) = last - 1
    BY <1>6
  <2> QED BY <2>1, <2>3, <2>4, <2>5, <2>6, <2>7 DEF PlacesOk
<1>13. ASSUME NEW q \in Producers PROVE ProducerOk(q, free2, ver2)'
  <2>1. CASE q = p
    <3>1. ASSUME NEW k \in DOMAIN order PROVE order[k] # nodeIdx'[p]
      <4>1. order[k][2] <= ver[NodeOf(order[k])]
        BY <1>t DEF OrderOk
      <4> QED BY <1>4, <1>h, <4>1
    <3> QED BY <1>1, <2>1, <3>1 DEF ProducerOk
  <2>2. CASE q # p
    <3>1. SameLocals(q) /\ ProducerOk(q, free, ver)
      BY <1>1, <2>2 DEF Whole, Threads
    <3>2. \A r \in Producers : pc'[r] = "enqLink" => SameLocals(r)
      BY <1>1 DEF Threads
    <3>3. ASSUME Stale(seen[q], free, ver)
          PROVE  Stale(seen[q], free2, ver2)'
      <4>1. /\ seen[q] \in Cells /\ NodeOf(seen[q]) \in Nodes /\ NodeOf(seen[q]) < nextNode
            /\ seen[q][2] \in Nat /\ ver[NodeOf(seen[q])] \in Nat
            /\ seen[q][2] <= ver[NodeOf(seen[q])]
            /\ seen[q][2] = ver[NodeOf(seen[q])] => \E k \in 1 .. Len(free) : free[k] = seen[q]
        BY <1>t, <3>3 DEF Stale, Cells, NodeOf, PlacesOk
      <4>2. seen[q][2] <= ver2[NodeOf(seen[q])]
        BY <1>7, <4>1
      <4>3. ASSUME seen[q][2] = ver2[NodeOf(seen[q])]
            PROVE  \E k \in 1 .. Len(free2) : free2[k] = seen[q]
        <5>1. NodeOf(seen[q]) # n
          BY <1>7, <4>1, <4>3
        <5>2. PICK k \in 1 .. Len(free) : free[k] = seen[q]
          BY <1>7, <4>1, <4>3, <5>1
        <5>3. k # last
          BY <1>3, <5>1, <5>2 DEF n
        <5>4. k \in 1 .. last - 1
          BY <1>3, <5>3 DEF last
        <5> QED BY <1>6, <5>2, <5>4
      <4> QED BY <1>1, <3>1, <4>1, <4>2, <4>3 DEF Stale, SameLocals, NodeOf
    <3>4. pc[q] = "enqLink" =>
            \A r \in Producers : pc'[r] = "enqLink" /\ seen'[r] = seen'[q] => r = q
      BY <3>1, <3>2 DEF ProducerOk, SameLocals
    <3>5. (\E k \in 1 .. Len(free2) : free2[k] = seen[q]) =>
            \E k \in 1 .. Len(free) : free[k] = seen[q]
      BY <1>3, <1>6 DEF last
    <3>6. /\ pc'[q] = pc[q] /\ seen'[q] = seen[q] /\ nodeIdx'[q] = nodeIdx[q]
          /\ link'[q] = link[q] /\ next' = next /\ order' = order /\ First' = First
      BY <1>1, <1>f, <3>1 DEF SameLocals
    <3>7. pc[q] = "enqFree" => seen[q] = Null \/ Stale(seen[q], free2, ver2)'
      BY <3>1, <3>3 DEF ProducerOk
    <3>8. pc[q] = "enqPop" =>
            /\ Stale(seen[q], free2, ver2)'
            /\ (\E k \in 1 .. Len(free2) : free2[k] = seen[q]) =>
                 link[q] = next[NodeOf(seen[q])]
      BY <3>1, <3>3, <3>5 DEF ProducerOk
    <3>9. /\ pc[q] \in {"enqConstruct", "enqTail"} =>
               \A k \in DOMAIN order : order[k] # nodeIdx[q]
          /\ pc[q] = "enqTail" => next[NodeOf(nodeIdx[q])] = Null
          /\ pc[q] = "enqLink" => \E k \in First .. Len(order) - 1 :
               /\ seen[q] = order[k] /\ nodeIdx[q] = order[k + 1]
               /\ next[NodeOf(order[k])] = Null
      BY <3>1 DEF ProducerOk
    <3> QED BY <3>4, <3>6, <3>7, <3>8, <3>9 DEF ProducerOk
  <2> QED BY <2>1, <2>2
<1>14. ASSUME NEW d \in Consumers PROVE ConsumerOk(d)'
  <2>1. SameLocals(d) /\ ConsumerOk(d)
    BY <1>1 DEF Whole, Threads
  <2> QED BY <1>1, <1>f, <2>1 DEF ConsumerOk, SameLocals
<1>15. Whole(free2, ver2, place2)'
  BY <1>9, <1>10, <1>11, <1>12, <1>13, <1>14 DEF Whole
<1> QED BY <1>15 DEF IInv

\* The exchange of tail: the node of the producer becomes the last of the list,
\* and the producer owes the link from the node before it.
LEMMA EnqMoveTailStep ==
  ASSUME NEW free, NEW ver, NEW place, Whole(free, ver, place), TypeOK',
         NEW p \in Producers, EnqMoveTail(p)
  PROVE  IInv'
<1> p \in Threads /\ p \notin Consumers
  BY ThreadsAssumption DEF Threads
<1>t. /\ TypeOK /\ OrderOk(ver) /\ ListIntact /\ FreeOk(free) /\ PlacesOk(free, ver, place)
      /\ ProducerOk(p, free, ver)
  BY DEF Whole
<1> PICK new : new = nodeIdx[p]
  OBVIOUS
<1> PICK last : last = Len(order)
  OBVIOUS
<1> DEFINE n == NodeOf(new)
<1>1. /\ pc[p] = "enqTail" /\ pc'[p] = "enqLink"
      /\ nodeIdx'[p] = new /\ seen'[p] = tail /\ tail' = new
      /\ order' = Append(order, new)
      /\ UNCHANGED <<nextNode, head, headConsumed, freeListHead, next, claims>>
      /\ \A s \in Threads \ {p} : SameLocals(s)
  BY <1>t DEF TypeOK, EnqMoveTail, Goto, SameLocals, nodes
<1>2. Holding(p) /\ ~Holding(p)'
  BY <1>1 DEF Holding
<1>3. /\ Current(new, ver) /\ new \in Cells /\ n \in Nodes /\ place[n] = With(p)
      /\ new[2] = ver[n] /\ NodeOf(new) < nextNode
  BY <1>t, <1>2 DEF PlacesOk, Current, Cells, NodeOf
<1>f. First' = First /\ First \in 1 .. last /\ last \in Nat
  BY <1>t, <1>1 DEF First, ListIntact, OrderOk
<1>4. /\ order' \in Seq(Cells) /\ Len(order') = last + 1
      /\ DOMAIN order = 1 .. last /\ DOMAIN order' = 1 .. last + 1
      /\ order'[last + 1] = new /\ \A k \in 1 .. last : order'[k] = order[k]
  BY <1>t, <1>1, <1>3 DEF OrderOk
<1> PICK place2 : place2 = [place EXCEPT ![n] = InList(last + 1)]
  OBVIOUS
<1>5. /\ \A j \in Nodes : j # n => place2[j] = place[j]
      /\ place2[n] = InList(last + 1) /\ DOMAIN place2 = Nodes
  BY <1>t, <1>3 DEF PlacesOk
<1>6. /\ \A k \in First .. last : NodeOf(order[k]) # n
      /\ \A k \in 1 .. Len(free) : NodeOf(free[k]) # n
      /\ \A u \in Threads \ {p} : Holding(u) => NodeOf(nodeIdx[u]) # n
  BY <1>2, NodesApart
<1>7. \A k \in 1 .. last : order[k] # new
  BY <1>t, <1>1, <1>4 DEF ProducerOk
<1>8. \A i : Current(i, ver) /\ NodeOf(i) # n =>
               Current(i, ver)' /\ place2[NodeOf(i)] = place[NodeOf(i)]
  BY <1>1, <1>5 DEF Current, Cells, NodeOf
<1>k. /\ tail = order[last] /\ next[NodeOf(order[last])] = Null /\ next[n] = Null
      /\ last \in 1 .. last /\ last \in First .. last
  BY <1>t, <1>1, <1>f DEF ListIntact, ProducerOk
<1> HIDE DEF n
<1>9. ClaimsInOrder' /\ OrderOk(ver)'
  <2>1. \A k \in 1 .. last + 1 : k \in 1 .. last \/ k = last + 1
    BY <1>f
  <2>2. \A k \in 1 .. last + 1 : NodeOf(order'[k]) < nextNode /\ order'[k][2] <= ver[NodeOf(order'[k])]
    <3>1. \A k \in 1 .. last : NodeOf(order[k]) < nextNode /\ order[k][2] <= ver[NodeOf(order[k])]
      BY <1>t, <1>4 DEF OrderOk
    <3>2. new[2] <= ver[NodeOf(new)]
      BY <1>t, <1>3 DEF PlacesOk, n
    <3> QED BY <1>3, <1>4, <2>1, <3>1, <3>2
  <2>3. \A k, l \in 1 .. last + 1 : order'[k] = order'[l] => k = l
    <3>1. \A k, l \in 1 .. last : order[k] = order[l] => k = l
      BY <1>t, <1>4 DEF OrderOk
    <3> QED BY <1>4, <1>7, <2>1, <3>1
  <2>4. OrderOk(ver)'
    BY <1>1, <1>4, <2>2, <2>3 DEF OrderOk, NodeOf
  <2>5. ClaimsInOrder'
    <3>1. /\ Len(claims) <= last /\ \A k \in DOMAIN claims : claims[k] = order[k]
          /\ DOMAIN claims = 1 .. Len(claims) /\ Len(claims) \in Nat
      BY <1>t DEF Whole, ClaimsInOrder, TypeOK
    <3> QED BY <1>1, <1>4, <1>f, <3>1 DEF ClaimsInOrder
  <2> QED BY <2>4, <2>5
<1>10. FreeOk(free)'
  BY <1>t, <1>1 DEF FreeOk
<1>11. ListIntact'
  <2>1. ASSUME NEW k \in First .. last
        PROVE  \/ next[NodeOf(order'[k])] = order'[k + 1]
               \/ /\ next[NodeOf(order'[k])] = Null
                  /\ \E q \in Producers : /\ pc'[q] = "enqLink"
                                          /\ seen'[q] = order'[k]
                                          /\ nodeIdx'[q] = order'[k + 1]
    <3>1. CASE k = last
      BY <1>1, <1>4, <1>k, <3>1
    <3>2. CASE k # last
      <4>1. k \in First .. Len(order) - 1 /\ order'[k] = order[k] /\ order'[k + 1] = order[k + 1]
        BY <1>4, <1>f, <3>2
      <4>2. \A q \in Producers : pc[q] = "enqLink" => SameLocals(q)
        BY <1>1 DEF Threads
      <4> QED BY <1>t, <4>1, <4>2 DEF ListIntact, SameLocals
    <3> QED BY <3>1, <3>2
  <2>2. /\ First \in DOMAIN order' /\ head = order'[First] /\ new = order'[Len(order')]
        /\ next[NodeOf(new)] = Null
    BY <1>t, <1>4, <1>f, <1>k DEF ListIntact, n
  <2>3. First .. Len(order') - 1 = First .. last
    BY <1>4, <1>f
  <2> QED BY <1>1, <1>f, <2>1, <2>2, <2>3 DEF ListIntact, NodeOf
<1>12. PlacesOk(free, ver, place2)'
  <2>1. ASSUME NEW k \in First .. last + 1
        PROVE  Current(order[k], ver)' /\ place2[NodeOf(order'[k])] = InList(k)
    <3>1. CASE k = last + 1
      BY <1>1, <1>3, <1>4, <1>5, <3>1 DEF Current, n, NodeOf
    <3>2. CASE k # last + 1
      <4>1. k \in First .. Len(order) /\ order'[k] = order[k]
        BY <1>4, <1>f, <3>2
      <4> QED BY <1>t, <1>6, <1>8, <4>1 DEF PlacesOk, Current
    <3> QED BY <3>1, <3>2
  <2>2. \A k \in 1 .. Len(free) :
          Current(free[k], ver)' /\ place2[NodeOf(free[k])] = InFree(k)
    BY <1>t, <1>6, <1>8 DEF PlacesOk
  <2>3. ASSUME NEW u \in Threads, Holding(u)'
        PROVE  Current(nodeIdx[u], ver)' /\ place2[NodeOf(nodeIdx'[u])] = With(u)
    <3>1. u # p
      BY <1>2, <2>3
    <3>2. SameLocals(u) /\ Holding(u) /\ u \in Threads \ {p}
      BY <1>1, <2>3, <3>1 DEF SameLocals, Holding
    <3>3. Current(nodeIdx[u], ver) /\ place[NodeOf(nodeIdx[u])] = With(u)
      BY <1>t, <3>2 DEF PlacesOk
    <3> QED BY <1>6, <1>8, <3>2, <3>3 DEF Current, SameLocals
  <2>4. ASSUME NEW j \in 1 .. nextNode - 1
        PROVE  \/ \E k \in First .. last + 1 : NodeOf(order'[k]) = j
               \/ \E k \in 1 .. Len(free) : NodeOf(free[k]) = j
               \/ \E u \in Threads : Holding(u)' /\ NodeOf(nodeIdx'[u]) = j
    <3>1. CASE j = n
      <4>1. last + 1 \in First .. last + 1
        BY <1>f
      <4> QED BY <1>4, <3>1, <4>1 DEF n
    <3>2. CASE j # n
      <4>1. ASSUME NEW u \in Threads, Holding(u), NodeOf(nodeIdx[u]) = j
            PROVE  Holding(u)' /\ NodeOf(nodeIdx'[u]) = j
        <5>1. u # p
          BY <3>2, <4>1 DEF n
        <5> QED BY <1>1, <4>1, <5>1 DEF SameLocals, Holding
      <4>2. ASSUME NEW k \in First .. Len(order), NodeOf(order[k]) = j
            PROVE  k \in First .. last + 1 /\ NodeOf(order'[k]) = j
        BY <1>4, <1>f, <4>2
      <4> QED BY <1>t, <4>1, <4>2 DEF PlacesOk
    <3> QED BY <3>1, <3>2
  <2> QED BY <1>t, <1>1, <1>4, <1>5, <1>f, <2>1, <2>2, <2>3, <2>4 DEF PlacesOk, NodeOf
<1>13. ASSUME NEW q \in Producers PROVE ProducerOk(q, free, ver)'
  <2>o. \A r \in Producers \ {p} : pc[r] = "enqLink" => seen[r] # tail
    <3> SUFFICES ASSUME NEW r \in Producers \ {p}, pc[r] = "enqLink" PROVE seen[r] # tail
      OBVIOUS
    <3>1. PICK k \in First .. Len(order) - 1 : seen[r] = order[k]
      BY DEF Whole, ProducerOk
    <3>2. k \in DOMAIN order /\ last \in DOMAIN order /\ k # last
      BY <1>4, <1>f, <3>1
    <3> QED BY <1>t, <1>k, <3>1, <3>2 DEF OrderOk
  <2>s. \A r \in Producers \ {p} : SameLocals(r)
    BY <1>1 DEF Threads
  <2>1. CASE q = p
    <3>1. last \in First .. Len(order') - 1
      BY <1>4, <1>f
    <3>2. /\ seen'[p] = order'[last] /\ nodeIdx'[p] = order'[last + 1]
          /\ next[NodeOf(order'[last])] = Null
      BY <1>1, <1>4, <1>k
    <3>3. \A r \in Producers : pc'[r] = "enqLink" /\ seen'[r] = seen'[p] => r = p
      BY <1>1, <2>o, <2>s DEF SameLocals
    <3> QED BY <1>1, <1>f, <2>1, <3>1, <3>2, <3>3 DEF ProducerOk, NodeOf
  <2>2. CASE q # p
    <3>1. SameLocals(q) /\ ProducerOk(q, free, ver)
      BY <2>2, <2>s DEF Whole
    <3>3. Stale(seen[q], free, ver)' <=> Stale(seen[q], free, ver)
      BY <1>1, <3>1 DEF SameLocals, Stale
    <3>4. pc[q] = "enqLink" =>
            \A r \in Producers : pc'[r] = "enqLink" /\ seen'[r] = seen'[q] => r = q
      BY <1>1, <2>2, <2>o, <2>s, <3>1 DEF ProducerOk, SameLocals
    <3>5. ASSUME pc[q] = "enqLink"
          PROVE  \E k \in First .. Len(order') - 1 :
                   /\ seen[q] = order'[k] /\ nodeIdx[q] = order'[k + 1]
                   /\ next[NodeOf(order'[k])] = Null
      <4>1. PICK k \in First .. Len(order) - 1 :
                   /\ seen[q] = order[k] /\ nodeIdx[q] = order[k + 1]
                   /\ next[NodeOf(order[k])] = Null
        BY <3>1, <3>5 DEF ProducerOk
      <4>2. /\ k \in First .. Len(order') - 1
            /\ order'[k] = order[k] /\ order'[k + 1] = order[k + 1]
        BY <1>4, <1>f
      <4> QED BY <4>1, <4>2
    <3>6. ASSUME pc[q] \in {"enqConstruct", "enqTail"}
          PROVE  \A k \in DOMAIN order' : order'[k] # nodeIdx[q]
      <4>1. q \in Threads \ {p} /\ Holding(q)
        BY <2>2, <3>6 DEF Threads, Holding
      <4>2. nodeIdx[q] # new
        BY <1>6, <4>1 DEF n
      <4>3. \A k \in DOMAIN order' : k \in 1 .. last \/ k = last + 1
        BY <1>4, <1>f
      <4> QED BY <1>4, <3>1, <3>6, <4>2, <4>3 DEF ProducerOk
    <3>7. /\ pc'[q] = "enqFree" => seen'[q] = Null \/ Stale(seen[q], free, ver)'
          /\ pc'[q] = "enqPop" =>
               /\ Stale(seen[q], free, ver)'
               /\ (\E k \in 1 .. Len(free) : free[k] = seen'[q]) =>
                    link'[q] = next'[NodeOf(seen'[q])]
          /\ pc'[q] = "enqTail" => next'[NodeOf(nodeIdx'[q])] = Null
      BY <1>1, <3>1, <3>3 DEF ProducerOk, SameLocals
    <3>8. pc'[q] = "enqLink" =>
            \E k \in First' .. Len(order') - 1 :
              /\ seen'[q] = order'[k] /\ nodeIdx'[q] = order'[k + 1]
              /\ next'[NodeOf(order'[k])] = Null
      BY <1>1, <1>f, <3>1, <3>5 DEF SameLocals
    <3>9. pc'[q] \in {"enqConstruct", "enqTail"} =>
            \A k \in DOMAIN order' : order'[k] # nodeIdx'[q]
      BY <3>1, <3>6 DEF SameLocals
    <3>10. pc'[q] = "enqLink" =>
            \A r \in Producers : pc'[r] = "enqLink" /\ seen'[r] = seen'[q] => r = q
      BY <3>1, <3>4 DEF SameLocals
    <3> QED BY <3>7, <3>8, <3>9, <3>10 DEF ProducerOk, NodeOf
  <2> QED BY <2>1, <2>2
<1>14. ASSUME NEW d \in Consumers PROVE ConsumerOk(d)'
  <2>1. SameLocals(d) /\ ConsumerOk(d)
    BY <1>1 DEF Whole, Threads
  <2>2. \A j \in 1 .. First : order'[j] = order[j]
    BY <1>4, <1>f
  <2>3. First < last => First < Len(order') /\ order'[First + 1] = order[First + 1]
    BY <1>4, <1>f
  <2>4. First \in 1 .. First
    BY <1>f
  <2> QED BY <1>1, <1>f, <2>1, <2>2, <2>3, <2>4 DEF ConsumerOk, SameLocals, NodeOf
<1>15. Whole(free, ver, place2)'
  BY <1>9, <1>10, <1>11, <1>12, <1>13, <1>14 DEF Whole
<1> QED BY <1>15 DEF IInv

\* The CAS that moves the head: the old first node goes to the consumer, and the
\* next one, whose link was there before, becomes the first.
LEMMA DeqMoveStep ==
  ASSUME NEW free, NEW ver, NEW place, Whole(free, ver, place), TypeOK',
         NEW c \in Consumers, DeqMove(c), head = nodeIdx[c], headConsumed = consumed[c]
  PROVE  IInv'
<1> c \in Threads /\ c \notin Producers
  BY ThreadsAssumption DEF Threads
<1>t. /\ TypeOK /\ OrderOk(ver) /\ ListIntact /\ FreeOk(free) /\ PlacesOk(free, ver, place)
      /\ ConsumerOk(c)
  BY DEF Whole
<1> PICK old : old = head
  OBVIOUS
<1> PICK first : first = First
  OBVIOUS
<1> DEFINE n == NodeOf(old)
<1>1. /\ pc[c] = "deqMove" /\ pc'[c] \in {"deqFree", "deqTakeMoved"}
      /\ nodeIdx'[c] = old /\ head' = link[c] /\ headConsumed' = FALSE
      /\ UNCHANGED <<nextNode, tail, freeListHead, next, order>>
      /\ \A s \in Threads \ {c} : SameLocals(s)
  BY <1>t DEF TypeOK, DeqMove, Goto, SameLocals, nodes
<1>2. \/ headConsumed /\ claims' = claims
      \/ ~headConsumed /\ claims' = Append(claims, old)
  BY <1>t DEF DeqMove, TypeOK
<1>3. /\ ~Holding(c) /\ Holding(c)'
  BY <1>1 DEF Holding
<1>f. first \in 1 .. Len(order) /\ Len(order) \in Nat /\ old = order[first]
  BY <1>t DEF ListIntact, OrderOk
<1>4. /\ first < Len(order) /\ link[c] = order[first + 1] /\ next[n] # Null
  BY <1>t, <1>1, <1>f DEF ConsumerOk
<1>5. /\ Current(old, ver) /\ old \in Cells /\ n \in Nodes /\ old[2] = ver[n]
      /\ first \in first .. Len(order)
  <2>1. first \in first .. Len(order)
    BY <1>f
  <2>2. Current(old, ver)
    BY <1>t, <1>f, <2>1 DEF PlacesOk
  <2> QED BY <2>1, <2>2 DEF Current, Cells, NodeOf
<1>6. First' = first + 1 /\ ClaimsInOrder'
  <2>1. /\ claims \in Seq(Indices) /\ Len(claims) \in Nat /\ DOMAIN claims = 1 .. Len(claims)
        /\ Len(claims) <= Len(order) /\ \A k \in 1 .. Len(claims) : claims[k] = order[k]
    BY <1>t DEF TypeOK, Whole, ClaimsInOrder
  <2>2. CASE headConsumed
    BY <1>1, <1>2, <1>4, <2>1, <2>2 DEF First, ClaimsInOrder
  <2>3. CASE ~headConsumed
    <3>1. first = Len(claims) + 1 /\ claims' = Append(claims, old)
      BY <1>2, <2>3 DEF First
    <3>2. /\ Len(claims') = Len(claims) + 1 /\ DOMAIN claims' = 1 .. Len(claims) + 1
          /\ claims'[Len(claims) + 1] = old
          /\ \A k \in 1 .. Len(claims) : claims'[k] = claims[k]
      BY <2>1, <3>1
    <3>3. \A k \in 1 .. Len(claims) + 1 : k \in 1 .. Len(claims) \/ k = Len(claims) + 1
      BY <2>1
    <3>4. \A k \in 1 .. Len(claims) + 1 : claims'[k] = order[k]
      BY <1>f, <2>1, <3>1, <3>2, <3>3
    <3> QED BY <1>1, <1>f, <3>1, <3>2, <3>4 DEF First, ClaimsInOrder
  <2> QED BY <2>2, <2>3
<1> PICK place2 : place2 = [place EXCEPT ![n] = With(c)]
  OBVIOUS
<1>7. /\ \A j \in Nodes : j # n => place2[j] = place[j]
      /\ place2[n] = With(c) /\ DOMAIN place2 = Nodes
  BY <1>t, <1>5 DEF PlacesOk
<1>8. /\ \A k \in first + 1 .. Len(order) : NodeOf(order[k]) # n
      /\ \A k \in 1 .. Len(free) : NodeOf(free[k]) # n
      /\ \A u \in Threads : Holding(u) => NodeOf(nodeIdx[u]) # n
  <2>1. \A k \in first + 1 .. Len(order) : k \in first .. Len(order) /\ k # first
    BY <1>f
  <2> QED BY <1>f, <1>5, <2>1, NodesApart
<1>9. \A i : Current(i, ver) /\ NodeOf(i) # n =>
               Current(i, ver)' /\ place2[NodeOf(i)] = place[NodeOf(i)]
  BY <1>1, <1>7 DEF Current, Cells, NodeOf
<1> HIDE DEF n
<1>10. OrderOk(ver)' /\ FreeOk(free)'
  BY <1>t, <1>1 DEF OrderOk, FreeOk
<1>11. ListIntact'
  <2>1. \A k \in first + 1 .. Len(order) - 1 : k \in first .. Len(order) - 1
    BY <1>f
  <2>2. \A q \in Producers : SameLocals(q)
    BY <1>1 DEF Threads
  <2>3. ASSUME NEW k \in first + 1 .. Len(order) - 1
        PROVE  \/ next[NodeOf(order[k])] = order[k + 1]
               \/ /\ next[NodeOf(order[k])] = Null
                  /\ \E q \in Producers : /\ pc'[q] = "enqLink"
                                          /\ seen'[q] = order[k]
                                          /\ nodeIdx'[q] = order[k + 1]
    BY <1>t, <2>1, <2>2 DEF ListIntact, SameLocals
  <2>4. first + 1 \in DOMAIN order
    BY <1>t, <1>f, <1>4 DEF OrderOk
  <2> QED BY <1>t, <1>1, <1>4, <1>6, <2>3, <2>4 DEF ListIntact, NodeOf
<1>12. PlacesOk(free, ver, place2)'
  <2>1. ASSUME NEW k \in first + 1 .. Len(order)
        PROVE  Current(order[k], ver)' /\ place2[NodeOf(order[k])] = InList(k)
    <3>1. k \in First .. Len(order)
      BY <1>f
    <3> QED BY <1>t, <1>1, <1>8, <1>9, <3>1 DEF PlacesOk, Current
  <2>2. \A k \in 1 .. Len(free) :
          Current(free[k], ver)' /\ place2[NodeOf(free[k])] = InFree(k)
    BY <1>t, <1>8, <1>9 DEF PlacesOk
  <2>3. ASSUME NEW u \in Threads, Holding(u)'
        PROVE  Current(nodeIdx[u], ver)' /\ place2[NodeOf(nodeIdx'[u])] = With(u)
    <3>1. CASE u = c
      BY <1>1, <1>5, <1>7, <3>1 DEF Current, n, NodeOf
    <3>2. CASE u # c
      <4>1. SameLocals(u) /\ Holding(u)
        BY <1>1, <2>3, <3>2 DEF SameLocals, Holding
      <4>2. Current(nodeIdx[u], ver) /\ place[NodeOf(nodeIdx[u])] = With(u)
        BY <1>t, <4>1 DEF PlacesOk
      <4> QED BY <1>8, <1>9, <4>1, <4>2 DEF Current, SameLocals
    <3> QED BY <3>1, <3>2
  <2>4. ASSUME NEW j \in 1 .. nextNode - 1
        PROVE  \/ \E k \in first + 1 .. Len(order) : NodeOf(order[k]) = j
               \/ \E k \in 1 .. Len(free) : NodeOf(free[k]) = j
               \/ \E u \in Threads : Holding(u)' /\ NodeOf(nodeIdx'[u]) = j
    <3>1. CASE j = n
      BY <1>1, <1>3, <3>1 DEF n
    <3>2. CASE j # n
      <4>1. ASSUME NEW u \in Threads, Holding(u), NodeOf(nodeIdx[u]) = j
            PROVE  Holding(u)' /\ NodeOf(nodeIdx'[u]) = j
        <5>1. u # c
          BY <1>3, <4>1
        <5> QED BY <1>1, <4>1, <5>1 DEF SameLocals, Holding
      <4>2. ASSUME NEW k \in First .. Len(order), NodeOf(order[k]) = j
            PROVE  k \in first + 1 .. Len(order)
        <5>1. k # first
          BY <1>f, <3>2, <4>2 DEF n
        <5> QED BY <1>f, <5>1
      <4> QED BY <1>t, <4>1, <4>2 DEF PlacesOk
    <3> QED BY <3>1, <3>2
  <2> QED BY <1>t, <1>1, <1>6, <1>7, <2>1, <2>2, <2>3, <2>4 DEF PlacesOk, NodeOf
<1>13. ASSUME NEW q \in Producers PROVE ProducerOk(q, free, ver)'
  <2>s. \A r \in Producers : SameLocals(r)
    BY <1>1 DEF Threads
  <2>1. SameLocals(q) /\ ProducerOk(q, free, ver)
    BY <2>s DEF Whole
  <2>2. Stale(seen[q], free, ver)' <=> Stale(seen[q], free, ver)
    BY <1>1, <2>1 DEF SameLocals, Stale
  <2>3. pc'[q] = "enqLink" =>
          \A r \in Producers : pc'[r] = "enqLink" /\ seen'[r] = seen'[q] => r = q
    BY <2>1, <2>s DEF ProducerOk, SameLocals
  <2>4. ASSUME pc[q] = "enqLink"
        PROVE  \E k \in first + 1 .. Len(order) - 1 :
                 /\ seen[q] = order[k] /\ nodeIdx[q] = order[k + 1]
                 /\ next[NodeOf(order[k])] = Null
    <3>1. PICK k \in First .. Len(order) - 1 :
                 /\ seen[q] = order[k] /\ nodeIdx[q] = order[k + 1]
                 /\ next[NodeOf(order[k])] = Null
      BY <2>1, <2>4 DEF ProducerOk
    <3>2. k # first
      BY <1>f, <1>4, <3>1 DEF n
    <3>3. k \in first + 1 .. Len(order) - 1
      BY <1>f, <3>2
    <3> QED BY <3>1, <3>3
  <2>5. /\ pc'[q] = "enqFree" => seen'[q] = Null \/ Stale(seen[q], free, ver)'
        /\ pc'[q] = "enqPop" =>
             /\ Stale(seen[q], free, ver)'
             /\ (\E k \in 1 .. Len(free) : free[k] = seen'[q]) =>
                  link'[q] = next'[NodeOf(seen'[q])]
        /\ pc'[q] \in {"enqConstruct", "enqTail"} =>
             \A k \in DOMAIN order' : order'[k] # nodeIdx'[q]
        /\ pc'[q] = "enqTail" => next'[NodeOf(nodeIdx'[q])] = Null
    BY <1>1, <2>1, <2>2 DEF ProducerOk, SameLocals
  <2>6. pc'[q] = "enqLink" =>
          \E k \in First' .. Len(order') - 1 :
            /\ seen'[q] = order'[k] /\ nodeIdx'[q] = order'[k + 1]
            /\ next'[NodeOf(order'[k])] = Null
    BY <1>1, <1>6, <2>1, <2>4 DEF SameLocals
  <2> QED BY <2>3, <2>5, <2>6 DEF ProducerOk, NodeOf
<1>14. ASSUME NEW d \in Consumers PROVE ConsumerOk(d)'
  <2>1. CASE d = c
    BY <1>1, <2>1 DEF ConsumerOk
  <2>2. CASE d # c
    <3>1. SameLocals(d) /\ ConsumerOk(d)
      BY <1>1, <2>2 DEF Whole, Threads
    <3>2. ASSUME pc[d] \in {"deqNext", "deqMark", "deqMove"}
          PROVE  /\ \E j \in 1 .. first + 1 : nodeIdx[d] = order[j]
                 /\ nodeIdx[d] # order[first + 1]
      <4>1. PICK j \in 1 .. First : nodeIdx[d] = order[j]
        BY <3>1, <3>2 DEF ConsumerOk
      <4>2. j \in 1 .. first + 1 /\ j \in 1 .. Len(order) /\ first + 1 \in 1 .. Len(order) /\ j # first + 1
        BY <1>f, <1>4, <4>1
      <4>3. DOMAIN order = 1 .. Len(order)
        BY <1>t DEF OrderOk
      <4>4. order[j] # order[first + 1]
        BY <1>t, <4>2, <4>3 DEF OrderOk
      <4> QED BY <4>1, <4>2, <4>4
    <3> QED BY <1>1, <1>6, <3>1, <3>2 DEF ConsumerOk, SameLocals, NodeOf
  <2> QED BY <2>1, <2>2
<1>15. Whole(free, ver, place2)'
  BY <1>6, <1>10, <1>11, <1>12, <1>13, <1>14 DEF Whole
<1> QED BY <1>15 DEF IInv

\* The CAS that pushes a node to the free list.  Nobody else holds its current
\* index, so no pop that is under way can take it for the head it loaded.
LEMMA DeqPushStep ==
  ASSUME NEW free, NEW ver, NEW place, Whole(free, ver, place), TypeOK',
         NEW c \in Consumers, DeqPush(c), freeListHead = seen[c]
  PROVE  IInv'
<1> c \in Threads /\ c \notin Producers
  BY ThreadsAssumption DEF Threads
<1>t. /\ TypeOK /\ OrderOk(ver) /\ ListIntact /\ FreeOk(free) /\ PlacesOk(free, ver, place)
      /\ ConsumerOk(c)
  BY DEF Whole
<1> PICK new : new = nodeIdx[c]
  OBVIOUS
<1> DEFINE n == NodeOf(new)
           last == Len(free)
<1>1. /\ pc[c] = "deqPush" /\ pc'[c] \in {"deqAgain", "idle"}
      /\ freeListHead' = new
      /\ UNCHANGED <<nextNode, head, headConsumed, tail, next, order, claims>>
      /\ \A s \in Threads \ {c} : SameLocals(s)
  BY <1>t DEF TypeOK, DeqPush, Goto, ClearLocals, SameLocals, ends, nodes, history
<1>2. Holding(c) /\ ~Holding(c)'
  BY <1>1 DEF Holding
<1>3. Current(new, ver) /\ new \in Cells /\ n \in Nodes /\ new[2] = ver[n]
  BY <1>t, <1>2 DEF PlacesOk, Current, Cells, NodeOf
<1> PICK free2 : free2 = Append(free, new)
  OBVIOUS
<1> PICK place2 : place2 = [place EXCEPT ![n] = InFree(last + 1)]
  OBVIOUS
<1>4. /\ free2 \in Seq(Cells) /\ Len(free2) = last + 1 /\ last \in Nat
      /\ free2[last + 1] = new /\ \A k \in 1 .. last : free2[k] = free[k]
  BY <1>t, <1>3 DEF FreeOk
<1>5. /\ \A j \in Nodes : j # n => place2[j] = place[j]
      /\ place2[n] = InFree(last + 1) /\ DOMAIN place2 = Nodes
  BY <1>t, <1>3 DEF PlacesOk
<1>6. /\ \A k \in First .. Len(order) : NodeOf(order[k]) # n
      /\ \A k \in 1 .. last : NodeOf(free[k]) # n
      /\ \A u \in Threads \ {c} : Holding(u) => NodeOf(nodeIdx[u]) # n
  BY <1>2, NodesApart
<1>7. \A i : Current(i, ver) /\ NodeOf(i) # n =>
               Current(i, ver)' /\ place2[NodeOf(i)] = place[NodeOf(i)]
  BY <1>1, <1>5 DEF Current, Cells, NodeOf
<1>k. next[n] = freeListHead
  BY <1>t, <1>1 DEF ConsumerOk
<1>s. \A k \in 1 .. last + 1 : k \in 1 .. last \/ k = last + 1
  BY <1>4
<1> HIDE DEF n, last
<1>f. First' = First
  BY <1>1 DEF First
<1>9. ClaimsInOrder' /\ OrderOk(ver)'
  BY <1>t, <1>1 DEF Whole, ClaimsInOrder, OrderOk
<1>10. FreeOk(free2)'
  <2>1. ASSUME NEW k \in 1 .. last + 1
        PROVE  next[NodeOf(free2[k])] = FreeAt(free2, k - 1)
    <3>1. CASE k = last + 1
      <4>1. freeListHead = FreeAt(free, last)
        BY <1>t DEF FreeOk, last
      <4>2. FreeAt(free2, last) = FreeAt(free, last)
        BY <1>4 DEF FreeAt
      <4> QED BY <1>4, <1>k, <3>1, <4>1, <4>2 DEF n
    <3>2. CASE k \in 1 .. last
      <4>1. k - 1 = 0 \/ k - 1 \in 1 .. last
        BY <1>4, <3>2
      <4> QED BY <1>t, <1>4, <3>2, <4>1 DEF FreeOk, FreeAt, last
    <3> QED BY <1>s, <3>1, <3>2
  <2>2. new = FreeAt(free2, last + 1)
    BY <1>4 DEF FreeAt
  <2> QED BY <1>1, <1>4, <2>1, <2>2 DEF FreeOk, FreeAt
<1>11. ListIntact'
  BY <1>t, <1>1, <1>f DEF ListIntact, SameLocals, Threads
<1>12. PlacesOk(free2, ver, place2)'
  <2>1. \A k \in First .. Len(order) :
          Current(order[k], ver)' /\ place2[NodeOf(order[k])] = InList(k)
    BY <1>t, <1>1, <1>6, <1>7 DEF PlacesOk, Current
  <2>2. ASSUME NEW k \in 1 .. last + 1
        PROVE  Current(free2[k], ver)' /\ place2[NodeOf(free2[k])] = InFree(k)
    <3>1. CASE k = last + 1
      BY <1>1, <1>3, <1>4, <1>5, <3>1 DEF Current, n
    <3>2. CASE k \in 1 .. last
      BY <1>t, <1>4, <1>6, <1>7, <3>2 DEF PlacesOk, last
    <3> QED BY <1>s, <3>1, <3>2
  <2>3. ASSUME NEW u \in Threads, Holding(u)'
        PROVE  Current(nodeIdx[u], ver)' /\ place2[NodeOf(nodeIdx'[u])] = With(u)
    <3>1. u # c
      BY <1>2, <2>3
    <3>2. SameLocals(u) /\ Holding(u) /\ u \in Threads \ {c}
      BY <1>1, <2>3, <3>1 DEF SameLocals, Holding
    <3>3. Current(nodeIdx[u], ver) /\ place[NodeOf(nodeIdx[u])] = With(u)
      BY <1>t, <3>2 DEF PlacesOk
    <3> QED BY <1>6, <1>7, <3>2, <3>3 DEF Current, SameLocals
  <2>4. ASSUME NEW j \in 1 .. nextNode - 1
        PROVE  \/ \E k \in First .. Len(order) : NodeOf(order[k]) = j
               \/ \E k \in 1 .. last + 1 : NodeOf(free2[k]) = j
               \/ \E u \in Threads : Holding(u)' /\ NodeOf(nodeIdx'[u]) = j
    <3>1. CASE j = n
      <4>1. last + 1 \in 1 .. last + 1
        BY <1>4
      <4> QED BY <1>4, <3>1, <4>1 DEF n
    <3>2. CASE j # n
      <4>1. ASSUME NEW u \in Threads, Holding(u), NodeOf(nodeIdx[u]) = j
            PROVE  Holding(u)' /\ NodeOf(nodeIdx'[u]) = j
        <5>1. u # c
          BY <3>2, <4>1 DEF n
        <5> QED BY <1>1, <4>1, <5>1 DEF SameLocals, Holding
      <4>2. ASSUME NEW k \in 1 .. Len(free), NodeOf(free[k]) = j
            PROVE  k \in 1 .. last + 1 /\ NodeOf(free2[k]) = j
        BY <1>4, <4>2 DEF last
      <4> QED BY <1>t, <4>1, <4>2 DEF PlacesOk
    <3> QED BY <3>1, <3>2
  <2>5. /\ ver \in [Nodes -> Nat] /\ DOMAIN place2 = Nodes
        /\ order' = order /\ nextNode' = nextNode /\ Len(free2) = last + 1
    BY <1>t, <1>1, <1>4, <1>5 DEF PlacesOk
  <2> QED BY <1>f, <2>1, <2>2, <2>3, <2>4, <2>5 DEF PlacesOk, NodeOf
<1>13. ASSUME NEW q \in Producers PROVE ProducerOk(q, free2, ver)'
  <2>s. \A r \in Producers : SameLocals(r)
    BY <1>1 DEF Threads
  <2>1. SameLocals(q) /\ ProducerOk(q, free, ver)
    BY <2>s DEF Whole
  <2>2. ASSUME Stale(seen[q], free, ver)
        PROVE  Stale(seen[q], free2, ver)' /\ seen[q] # new
    <3>1. seen[q] # new
      BY <1>3, <1>6, <2>2 DEF Stale, n, last
    <3>2. (\E k \in 1 .. Len(free) : free[k] = seen[q]) =>
            \E k \in 1 .. Len(free2) : free2[k] = seen[q]
      BY <1>4 DEF last
    <3> QED BY <1>1, <2>1, <2>2, <3>1, <3>2 DEF Stale, SameLocals, NodeOf
  <2>3. pc'[q] = "enqLink" =>
          \A r \in Producers : pc'[r] = "enqLink" /\ seen'[r] = seen'[q] => r = q
    BY <2>1, <2>s DEF ProducerOk, SameLocals
  <2>4. ASSUME pc[q] = "enqPop", \E k \in 1 .. Len(free2) : free2[k] = seen[q]
        PROVE  link[q] = next[NodeOf(seen[q])]
    <3>1. seen[q] # new
      BY <2>1, <2>2, <2>4 DEF ProducerOk
    <3>2. \E k \in 1 .. Len(free) : free[k] = seen[q]
      BY <1>4, <1>s, <2>4, <3>1 DEF last
    <3> QED BY <2>1, <2>4, <3>2 DEF ProducerOk
  <2>5. /\ pc'[q] = "enqFree" => seen'[q] = Null \/ Stale(seen[q], free2, ver)'
        /\ pc'[q] = "enqPop" =>
             /\ Stale(seen[q], free2, ver)'
             /\ (\E k \in 1 .. Len(free2) : free2[k] = seen'[q]) =>
                  link'[q] = next'[NodeOf(seen'[q])]
        /\ pc'[q] \in {"enqConstruct", "enqTail"} =>
             \A k \in DOMAIN order' : order'[k] # nodeIdx'[q]
        /\ pc'[q] = "enqTail" => next'[NodeOf(nodeIdx'[q])] = Null
    BY <1>1, <2>1, <2>2, <2>4 DEF ProducerOk, SameLocals
  <2>6. pc'[q] = "enqLink" =>
          \E k \in First' .. Len(order') - 1 :
            /\ seen'[q] = order'[k] /\ nodeIdx'[q] = order'[k + 1]
            /\ next'[NodeOf(order'[k])] = Null
    BY <1>1, <1>f, <2>1 DEF SameLocals, ProducerOk
  <2> QED BY <2>3, <2>5, <2>6 DEF ProducerOk, NodeOf
<1>14. ASSUME NEW d \in Consumers PROVE ConsumerOk(d)'
  <2>1. CASE d = c
    BY <1>1, <2>1 DEF ConsumerOk
  <2>2. CASE d # c
    <3>1. SameLocals(d) /\ ConsumerOk(d)
      BY <1>1, <2>2 DEF Whole, Threads
    <3> QED BY <1>1, <1>f, <3>1 DEF ConsumerOk, SameLocals
  <2> QED BY <2>1, <2>2
<1>15. Whole(free2, ver, place2)'
  BY <1>9, <1>10, <1>11, <1>12, <1>13, <1>14 DEF Whole
<1> QED BY <1>15 DEF IInv

-----------------------------------------------------------------------------
(* The chains the destructor walks.                                          *)

\* A set of naturals that is not empty has a least element.
LEMMA LeastNatural ==
  ASSUME NEW S, S \subseteq Nat, S # {}
  PROVE  \E k \in S : \A m \in S : k <= m
<1>1. PICK k \in S : \A m \in S : <<m, k>> \notin OpToRel(<, Nat)
  BY NatLessThanWellFounded, WFMin
<1>2. ASSUME NEW m \in S PROVE k <= m
  <2>1. k \in Nat /\ m \in Nat
    OBVIOUS
  <2>2. m < k => <<m, k>> \in OpToRel(<, Nat)
    BY <2>1 DEF OpToRel
  <2>3. ~(m < k)
    BY <1>1, <2>2
  <2> QED BY <2>1, <2>3
<1> QED BY <1>2

\* A sequence that starts at i, follows the links and ends at a null link is
\* what the recursive definition of Chain yields.
LEMMA ChainIs ==
  ASSUME NEW i, NEW g, g = [k \in 0 .. MaxNodes |-> g[k]], g[0] = i,
         \A k \in 1 .. MaxNodes :
           g[k] = IF g[k - 1] = Null THEN Null ELSE next[NodeOf(g[k - 1])]
  PROVE  Chain(i) = g
<1> DEFINE Step(f) == [k \in 0 .. MaxNodes |->
                         IF k = 0 THEN i
                         ELSE IF f[k - 1] = Null THEN Null
                         ELSE next[NodeOf(f[k - 1])]]
           index == CHOOSE f : f = Step(f)
<1>1. Chain(i) = index
  BY DEF Chain
<1>2. g = Step(g)
  <2>1. \A k \in 0 .. MaxNodes : k = 0 \/ k \in 1 .. MaxNodes
    BY NodesAssumption
  <2> QED BY <2>1
<1>3. index = Step(index)
  BY <1>2
<1> HIDE DEF index
<1>4. /\ DOMAIN index = 0 .. MaxNodes /\ index = [k \in 0 .. MaxNodes |-> index[k]]
      /\ index[0] = i
      /\ \A k \in 1 .. MaxNodes :
           index[k] = IF index[k - 1] = Null THEN Null ELSE next[NodeOf(index[k - 1])]
  <2>1. DOMAIN index = 0 .. MaxNodes
    BY <1>3
  <2>2. \A k \in 0 .. MaxNodes : index[k] = IF k = 0 THEN i
                                           ELSE IF index[k - 1] = Null THEN Null
                                           ELSE next[NodeOf(index[k - 1])]
    BY <1>3
  <2>3. index = [k \in 0 .. MaxNodes |-> index[k]]
    BY <1>3, <2>1
  <2>4. 0 \in 0 .. MaxNodes /\ \A k \in 1 .. MaxNodes : k \in 0 .. MaxNodes /\ k # 0
    BY NodesAssumption
  <2> QED BY ONLY <2>1, <2>2, <2>3, <2>4
<1> HIDE DEF Step
<1> DEFINE Bad == {k \in 0 .. MaxNodes : index[k] # g[k]}
<1>5. Bad = {}
  <2> SUFFICES ASSUME Bad # {} PROVE FALSE
    OBVIOUS
  <2>1. Bad \subseteq Nat
    BY NodesAssumption
  <2>2. PICK k \in Bad : \A m \in Bad : k <= m
    BY <2>1, LeastNatural
  <2>3. k \in 1 .. MaxNodes
    BY <1>4, <2>2, NodesAssumption
  <2>4. k - 1 \in 0 .. MaxNodes /\ ~(k <= k - 1)
    BY <2>3, NodesAssumption
  <2>5. index[k - 1] = g[k - 1]
    BY <2>2, <2>4
  <2>6. index[k] = g[k]
    BY <1>4, <2>3, <2>5
  <2> QED BY <2>2, <2>6
<1> QED BY <1>1, <1>4, <1>5

-----------------------------------------------------------------------------
(* The invariant holds of the first state and after every step.              *)

LEMMA InvInit == Init => IInv
<1> SUFFICES ASSUME Init PROVE IInv
  OBVIOUS
<1> PICK ver : ver = [n \in Nodes |-> 0]
  OBVIOUS
<1> PICK place : place = [n \in Nodes |-> InList(1)]
  OBVIOUS
<1> PICK free : free = <<>>
  OBVIOUS
<1>1. 1 \in Nodes /\ 2 \in 2 .. MaxNodes + 1 /\ Blank \in Cells
  BY NodesAssumption DEF Nodes, Cells, Blank
<1>2. /\ order = <<Blank>> /\ claims = <<Blank>> /\ Len(order) = 1 /\ Len(claims) = 1
      /\ order[1] = Blank /\ claims[1] = Blank /\ DOMAIN order = {1} /\ DOMAIN claims = {1}
      /\ order \in Seq(Cells) /\ First = 1 /\ First .. Len(order) = {1}
  <2>1. headConsumed /\ order = <<Blank>> /\ claims = <<Blank>>
    BY DEF Init
  <2>2. Len(claims) = 1 /\ Len(order) = 1 /\ order \in Seq(Cells)
    BY <1>1, <2>1
  <2>3. First = 1
    BY <2>1, <2>2 DEF First
  <2> QED BY <2>1, <2>2, <2>3
<1>3. TypeOK
  <2>1. Blank \in Nodes \X Nat /\ Blank \in Indices /\ Null \in Indices
    BY <1>1 DEF Indices, Cells
  <2>2. order \in Seq(Indices) /\ claims \in Seq(Indices)
    BY <1>2, <2>1
  <2> QED BY <1>1, <2>1, <2>2 DEF Init, TypeOK, PCs
<1>4. ClaimsInOrder
  BY <1>2 DEF ClaimsInOrder
<1>5. ListIntact
  <2>1. 1 .. 0 = {} /\ First .. Len(order) - 1 = {}
    BY <1>2
  <2>2. next[NodeOf(tail)] = Null
    BY <1>1 DEF Init, NodeOf, Blank
  <2> QED BY <1>2, <2>1, <2>2 DEF ListIntact, Init
<1>6. OrderOk(ver)
  BY <1>1, <1>2 DEF OrderOk, Init, NodeOf, Blank
<1>7. FreeOk(free)
  BY DEF FreeOk, FreeAt, Init
<1>8. PlacesOk(free, ver, place)
  <2>1. \A t \in Threads : ~Holding(t)
    BY DEF Holding, Init
  <2>2. Current(order[1], ver) /\ place[NodeOf(order[1])] = InList(1)
    BY <1>1, <1>2 DEF Current, NodeOf, Blank, Init
  <2>3. \A n \in 1 .. nextNode - 1 : NodeOf(order[1]) = n
    BY <1>2 DEF Init, NodeOf, Blank
  <2>4. ver \in [Nodes -> Nat] /\ DOMAIN place = Nodes
    OBVIOUS
  <2>5. 1 .. Len(free) = {}
    OBVIOUS
  <2> QED BY <1>2, <2>1, <2>2, <2>3, <2>4, <2>5 DEF PlacesOk
<1>9. ASSUME NEW p \in Producers PROVE ProducerOk(p, free, ver)
  <2>1. pc[p] = "idle"
    BY DEF Init, Threads
  <2> QED BY <2>1 DEF ProducerOk
<1>10. ASSUME NEW c \in Consumers PROVE ConsumerOk(c)
  <2>1. pc[c] = "idle"
    BY DEF Init, Threads
  <2> QED BY <2>1 DEF ConsumerOk
<1>11. Whole(free, ver, place)
  BY <1>3, <1>4, <1>5, <1>6, <1>7, <1>8, <1>9, <1>10 DEF Whole
<1> QED BY <1>11 DEF IInv

\* A step of enqueue.
LEMMA EnqueueInv ==
  ASSUME IInv, NEW p \in Producers, EnqueueStep(p)
  PROVE  IInv'
<1>1. PICK free, ver, place : Whole(free, ver, place)
  BY DEF IInv
<1>2. TypeOK'
  BY <1>1, EnqueueTypes
<1>3. CASE EnqLoadFree(p) \/ EnqLoadFreeNext(p)
  <2>1. Whole(free, ver, place)'
    BY <1>1, <1>2, <1>3, EnqueueLocalSteps
  <2> QED BY <2>1 DEF IInv
<1>4. CASE EnqNewNode(p)
  BY <1>1, <1>2, <1>4, EnqNewNodeStep
<1>5. CASE EnqPop(p) /\ freeListHead = seen[p]
  BY <1>1, <1>2, <1>5, EnqPopStep
<1>6. CASE EnqPop(p) /\ freeListHead # seen[p]
  <2>1. Whole(free, ver, place)'
    BY <1>1, <1>2, <1>6, EnqueueLocalSteps
  <2> QED BY <2>1 DEF IInv
<1>7. CASE EnqConstruct(p)
  <2>1. Whole(free, ver, place)'
    BY <1>1, <1>2, <1>7, EnqConstructStep
  <2> QED BY <2>1 DEF IInv
<1>8. CASE EnqMoveTail(p)
  BY <1>1, <1>2, <1>8, EnqMoveTailStep
<1>9. CASE EnqLink(p)
  <2>1. Whole(free, ver, place)'
    BY <1>1, <1>2, <1>9, EnqLinkStep
  <2> QED BY <2>1 DEF IInv
<1> QED BY <1>3, <1>4, <1>5, <1>6, <1>7, <1>8, <1>9 DEF EnqueueStep

\* A step of dequeue.
LEMMA DequeueInv ==
  ASSUME IInv, NEW c \in Consumers, DequeueStep(c)
  PROVE  IInv'
<1>1. PICK free, ver, place : Whole(free, ver, place)
  BY DEF IInv
<1>2. TypeOK'
  BY <1>1, DequeueTypes
<1>3. CASE \/ DeqLoadHead(c)
           \/ DeqLoadNext(c)
           \/ DeqMark(c) /\ (head # nodeIdx[c] \/ headConsumed)
           \/ DeqTakeMarked(c)
           \/ DeqMove(c) /\ (head # nodeIdx[c] \/ headConsumed # consumed[c])
           \/ DeqTakeMoved(c)
           \/ DeqLoadFree(c)
           \/ DeqPush(c) /\ freeListHead # seen[c]
  <2>1. Whole(free, ver, place)'
    BY <1>1, <1>2, <1>3, DequeueLocalSteps
  <2> QED BY <2>1 DEF IInv
<1>4. CASE DeqMark(c) /\ head = nodeIdx[c] /\ ~headConsumed
  <2>1. Whole(free, ver, place)'
    BY <1>1, <1>2, <1>4, DeqMarkStep
  <2> QED BY <2>1 DEF IInv
<1>5. CASE DeqMove(c) /\ head = nodeIdx[c] /\ headConsumed = consumed[c]
  BY <1>1, <1>2, <1>5, DeqMoveStep
<1>6. CASE DeqFreeLink(c)
  <2>1. Whole(free, ver, place)'
    BY <1>1, <1>2, <1>6, DeqFreeLinkStep
  <2> QED BY <2>1 DEF IInv
<1>7. CASE DeqPush(c) /\ freeListHead = seen[c]
  BY <1>1, <1>2, <1>7, DeqPushStep
<1> QED BY <1>3, <1>4, <1>5, <1>6, <1>7 DEF DequeueStep

\* What the invariant speaks of: everything but the items and the destructor's
\* history.
Observed == <<nextNode, head, headConsumed, tail, freeListHead, next, item, pc,
              nodeIdx, consumed, seen, link, order, claims>>

\* A step that leaves all that alone.
LEMMA InvFrame ==
  ASSUME IInv, UNCHANGED Observed
  PROVE  IInv'
<1>1. PICK free, ver, place : Whole(free, ver, place)
  BY DEF IInv
<1>2. TypeOK' /\ ClaimsInOrder' /\ ListIntact'
  BY <1>1 DEF Whole, Observed, TypeOK, ClaimsInOrder, ListIntact, First
<1>3. OrderOk(ver)' /\ FreeOk(free)'
  BY <1>1 DEF Whole, Observed, OrderOk, FreeOk
<1>4. PlacesOk(free, ver, place)'
  BY <1>1 DEF Whole, Observed, PlacesOk, Current, Holding, First
<1>5. ASSUME NEW p \in Producers PROVE ProducerOk(p, free, ver)'
  BY <1>1 DEF Whole, Observed, ProducerOk, Stale, First
<1>6. ASSUME NEW c \in Consumers PROVE ConsumerOk(c)'
  BY <1>1 DEF Whole, Observed, ConsumerOk, First
<1>7. Whole(free, ver, place)'
  BY <1>2, <1>3, <1>4, <1>5, <1>6 DEF Whole
<1> QED BY <1>7 DEF IInv

LEMMA InvStep == IInv /\ [Next]_vars => IInv'
<1> SUFFICES ASSUME IInv, [Next]_vars PROVE IInv'
  OBVIOUS
<1>1. CASE \E p \in Producers : EnqueueStep(p)
  BY <1>1, EnqueueInv
<1>2. CASE \E c \in Consumers : DequeueStep(c)
  BY <1>2, DequeueInv
<1>3. CASE Destroy
  <2>1. UNCHANGED Observed
    BY <1>3 DEF Destroy, Observed, ends, nodes, locals
  <2> QED BY <2>1, InvFrame
<1>4. CASE UNCHANGED vars
  <2>1. UNCHANGED Observed
    BY <1>4 DEF vars, Observed, ends, nodes, locals, history
  <2> QED BY <2>1, InvFrame
<1> QED BY <1>1, <1>2, <1>3, <1>4 DEF Next

\* The invariant holds throughout.
THEOREM Invariance == Spec => []IInv
BY InvInit, InvStep, PTL DEF Spec

\* Head and tail are never null, and every index is one of a node that exists.
THEOREM TypeCorrect == Spec => []TypeOK
<1>1. IInv => TypeOK
  BY DEF IInv, Whole
<1> QED BY <1>1, Invariance, PTL

\* Items are claimed once each and in the order in which enqueue moved the tail,
\* whether a consumer marks the last node or moves the head: the two words the
\* CASes compare, head with its flag, say how many items were claimed.
THEOREM ClaimsSafety == Spec => []ClaimsInOrder
<1>1. IInv => ClaimsInOrder
  BY DEF IInv, Whole
<1> QED BY <1>1, Invariance, PTL

-----------------------------------------------------------------------------
(* Every node has one place.                                                 *)

\* The free list and the list are no longer than the number of nodes.
LEMMA ListsFit ==
  ASSUME NEW free, NEW ver, NEW place, Whole(free, ver, place)
  PROVE  /\ Len(free) \in 0 .. MaxNodes
         /\ First \in 1 .. Len(order) /\ Len(order) \in Nat
         /\ Len(order) - First + 1 \in 1 .. MaxNodes
<1>1. /\ Len(free) \in Nat /\ Len(order) \in Nat /\ First \in 1 .. Len(order)
      /\ \A k \in 1 .. Len(free) : NodeOf(free[k]) \in Nodes
      /\ \A k \in First .. Len(order) : NodeOf(order[k]) \in Nodes
  BY DEF Whole, FreeOk, OrderOk, ListIntact, PlacesOk, Current, Cells, NodeOf
<1>2. IsFiniteSet(Nodes) /\ Cardinality(Nodes) = MaxNodes
  BY NodesAssumption, FS_Interval DEF Nodes
<1>3. Len(free) <= MaxNodes
  <2> PICK f : f = [k \in 1 .. Len(free) |-> NodeOf(free[k])]
    OBVIOUS
  <2>1. f \in Injection(1 .. Len(free), Nodes)
    BY <1>1, NodesApart DEF Injection, IsInjective
  <2>2. Cardinality(1 .. Len(free)) <= MaxNodes
    BY <1>2, <2>1, FS_Injection
  <2> QED BY <1>1, <2>2, FS_Interval, NodesAssumption
<1>4. Len(order) - First + 1 <= MaxNodes
  <2> PICK f : f = [k \in First .. Len(order) |-> NodeOf(order[k])]
    OBVIOUS
  <2>1. f \in Injection(First .. Len(order), Nodes)
    BY <1>1, NodesApart DEF Injection, IsInjective
  <2>2. Cardinality(First .. Len(order)) <= MaxNodes
    BY <1>2, <2>1, FS_Injection
  <2> QED BY <1>1, <2>2, FS_Interval, NodesAssumption
<1> QED BY <1>1, <1>3, <1>4, NodesAssumption

\* The chain from freeListHead is the free list, from its last element on.
LEMMA FreeChain ==
  ASSUME NEW free, NEW ver, NEW place, Whole(free, ver, place)
  PROVE  Chain(freeListHead) =
           [k \in 0 .. MaxNodes |-> IF k < Len(free) THEN free[Len(free) - k] ELSE Null]
<1> PICK last : last = Len(free)
  OBVIOUS
<1> PICK g : g = [k \in 0 .. MaxNodes |-> IF k < last THEN free[last - k] ELSE Null]
  OBVIOUS
<1>1. /\ last \in 0 .. MaxNodes
      /\ freeListHead = FreeAt(free, last)
      /\ \A k \in 1 .. last : /\ free[k] # Null
                              /\ next[NodeOf(free[k])] = FreeAt(free, k - 1)
  <2>1. \A k \in 1 .. last : free[k] \in Cells
    BY DEF Whole, PlacesOk, Current
  <2>2. \A i \in Cells : i # Null
    BY DEF Cells, Nodes, Null
  <2> QED BY <2>1, <2>2, ListsFit DEF Whole, FreeOk
<1>2. g[0] = freeListHead
  BY <1>1, NodesAssumption DEF FreeAt
<1>3. ASSUME NEW k \in 1 .. MaxNodes
      PROVE  g[k] = IF g[k - 1] = Null THEN Null ELSE next[NodeOf(g[k - 1])]
  <2>0. k \in 0 .. MaxNodes /\ k - 1 \in 0 .. MaxNodes
    BY NodesAssumption
  <2>1. CASE k - 1 < last
    <3>1. /\ last - (k - 1) \in 1 .. last /\ (last - (k - 1)) - 1 = last - k
          /\ last - k = 0 <=> ~(k < last)
      BY <1>1, <2>1
    <3>2. g[k - 1] = free[last - (k - 1)]
      BY <2>0, <2>1
    <3>3. g[k - 1] # Null /\ next[NodeOf(g[k - 1])] = FreeAt(free, last - k)
      BY <1>1, <3>1, <3>2
    <3>4. g[k] = FreeAt(free, last - k)
      BY <2>0, <3>1 DEF FreeAt
    <3> QED BY <3>3, <3>4
  <2>2. CASE ~(k - 1 < last)
    BY <1>1, <2>0, <2>2
  <2> QED BY <2>1, <2>2
<1>4. Chain(freeListHead) = g
  <2>1. g = [k \in 0 .. MaxNodes |-> g[k]]
    OBVIOUS
  <2>2. \A k \in 1 .. MaxNodes :
          g[k] = IF g[k - 1] = Null THEN Null ELSE next[NodeOf(g[k - 1])]
    BY <1>3
  <2> PICK i : i = freeListHead
    OBVIOUS
  <2>3. g[0] = i
    BY <1>2
  <2>4. Chain(i) = g
    <3>1. /\ g = [k \in 0 .. MaxNodes |-> g[k]] /\ g[0] = i
          /\ \A k \in 1 .. MaxNodes :
               g[k] = IF g[k - 1] = Null THEN Null ELSE next[NodeOf(g[k - 1])]
      BY <2>1, <2>2, <2>3
    <3> QED BY ONLY <3>1, ChainIs
  <2> QED BY <2>4
<1> QED BY <1>4

\* So a node is on the chain where it is in the free list.
LEMMA FreeCount ==
  ASSUME NEW free, NEW ver, NEW place, Whole(free, ver, place), NEW n \in Nodes
  PROVE  {k \in 0 .. MaxNodes : NodeOf(Chain(freeListHead)[k]) = n}
           = {Len(free) - k : k \in {l \in 1 .. Len(free) : NodeOf(free[l]) = n}}
<1> PICK last : last = Len(free)
  OBVIOUS
<1>1. last \in 0 .. MaxNodes
  BY ListsFit
<1>2. \A k \in 0 .. MaxNodes :
        Chain(freeListHead)[k] = IF k < last THEN free[last - k] ELSE Null
  BY FreeChain
<1>3. NodeOf(Null) # n
  BY DEF Nodes, Null, NodeOf
<1>4. ASSUME NEW k \in 0 .. MaxNodes, NodeOf(Chain(freeListHead)[k]) = n
      PROVE  k \in {last - j : j \in {l \in 1 .. last : NodeOf(free[l]) = n}}
  <2>1. k < last /\ NodeOf(free[last - k]) = n
    BY <1>2, <1>3, <1>4
  <2>2. last - k \in 1 .. last /\ k = last - (last - k)
    BY <1>1, <2>1
  <2> QED BY <2>1, <2>2
<1>5. ASSUME NEW j \in 1 .. last, NodeOf(free[j]) = n
      PROVE  last - j \in 0 .. MaxNodes /\ NodeOf(Chain(freeListHead)[last - j]) = n
  <2>1. last - j \in 0 .. MaxNodes /\ last - j < last /\ last - (last - j) = j
    BY <1>1, NodesAssumption
  <2> QED BY <1>2, <1>5, <2>1
<1> QED BY <1>4, <1>5

\* The counts of a node in the list, in the free list and with the threads.
LEMMA OnePlace == IInv => NodesHaveOnePlace
<1> SUFFICES ASSUME IInv, NEW n \in 1 .. nextNode - 1
             PROVE  Cardinality({k \in First .. Len(order) : NodeOf(order[k]) = n})
                      + Cardinality({k \in 0 .. MaxNodes : NodeOf(Chain(freeListHead)[k]) = n})
                      + Cardinality({t \in Threads : Holds(t, n)}) = 1
  BY DEF NodesHaveOnePlace
<1>1. PICK free, ver, place : Whole(free, ver, place)
  BY DEF IInv
<1>2. n \in Nodes
  BY <1>1, NodesAssumption DEF Whole, TypeOK, Nodes
<1> DEFINE L == {k \in First .. Len(order) : NodeOf(order[k]) = n}
           F == {k \in 1 .. Len(free) : NodeOf(free[k]) = n}
           G == {k \in 0 .. MaxNodes : NodeOf(Chain(freeListHead)[k]) = n}
           T == {t \in Threads : Holds(t, n)}
<1>3. G = {Len(free) - k : k \in F}
  BY <1>1, <1>2, FreeCount
<1>4. T = {t \in Threads : Holding(t) /\ NodeOf(nodeIdx[t]) = n}
  BY DEF Holds, Holding
<1>5. \/ \E k \in L : L = {k} /\ F = {} /\ T = {}
      \/ \E k \in F : F = {k} /\ L = {} /\ T = {}
      \/ \E t \in T : T = {t} /\ L = {} /\ F = {}
  <2>1. L # {} \/ F # {} \/ T # {}
    BY <1>1, <1>4 DEF Whole, PlacesOk
  <2>2. /\ \A k, l \in L : k = l
        /\ \A k, l \in F : k = l
        /\ \A t, u \in T : t = u
        /\ L = {} \/ F = {}
        /\ L = {} \/ T = {}
        /\ F = {} \/ T = {}
    BY <1>1, <1>4, NodesApart
  <2> QED BY <2>1, <2>2
<1>6. Cardinality({}) = 0 /\ \A x : Cardinality({x}) = 1
  BY FS_EmptySet, FS_Singleton
<1> HIDE DEF L, F, G, T
<1>7. Cardinality(L) + Cardinality(G) + Cardinality(T) = 1
  <2>1. CASE F = {}
    <3>1. G = {}
      BY <1>3, <2>1
    <3>2. \/ \E k \in L : L = {k} /\ T = {}
          \/ \E t \in T : T = {t} /\ L = {}
      BY <1>5, <2>1
    <3>4. \/ Cardinality(L) = 1 /\ Cardinality(T) = 0
          \/ Cardinality(L) = 0 /\ Cardinality(T) = 1
      BY <1>6, <3>2, Zenon
    <3>3. Cardinality(G) = 0
      BY <1>6, <3>1
    <3> QED BY <3>3, <3>4
  <2>2. CASE F # {}
    <3>1. PICK k \in F : F = {k} /\ L = {} /\ T = {}
      BY <1>5, <2>2
    <3>2. G = {Len(free) - k}
      BY <1>3, <3>1
    <3>3. Cardinality(G) = 1 /\ Cardinality(L) = 0 /\ Cardinality(T) = 0
      BY <1>6, <3>1, <3>2
    <3> QED BY <3>3
  <2> QED BY <2>1, <2>2
<1> QED BY <1>7 DEF L, G, T

-----------------------------------------------------------------------------
(* The destructor.                                                           *)

\* When no call runs no link is missing: the chain from head is the list.
LEMMA ListChain ==
  ASSUME NEW free, NEW ver, NEW place, Whole(free, ver, place),
         \A t \in Threads : pc[t] = "idle"
  PROVE  Chain(head) =
           [k \in 0 .. MaxNodes |-> IF First + k <= Len(order) THEN order[First + k] ELSE Null]
<1> PICK first : first = First
  OBVIOUS
<1> PICK last : last = Len(order)
  OBVIOUS
<1> PICK i : i = head
  OBVIOUS
<1> PICK g : g = [k \in 0 .. MaxNodes |-> IF first + k <= last THEN order[first + k] ELSE Null]
  OBVIOUS
<1>1. /\ last \in Nat /\ first \in 1 .. last /\ last - first + 1 <= MaxNodes
      /\ i = order[first]
      /\ next[NodeOf(order[last])] = Null
  BY ListsFit DEF Whole, ListIntact
<1>2. \A k \in first .. last : order[k] # Null
  <2>1. \A k \in first .. last : order[k] \in Cells
    BY DEF Whole, PlacesOk, Current
  <2>2. \A j \in Cells : j # Null
    BY DEF Cells, Nodes, Null
  <2> QED BY <2>1, <2>2
<1>3. \A k \in first .. last - 1 : next[NodeOf(order[k])] = order[k + 1]
  BY DEF Whole, ListIntact, Threads
<1>4. g[0] = i
  BY <1>1, NodesAssumption
<1>5. ASSUME NEW k \in 1 .. MaxNodes
      PROVE  g[k] = IF g[k - 1] = Null THEN Null ELSE next[NodeOf(g[k - 1])]
  <2>0. k \in 0 .. MaxNodes /\ k - 1 \in 0 .. MaxNodes
    BY NodesAssumption
  <2>1. CASE first + k <= last
    <3>1. /\ first + (k - 1) \in first .. last - 1 /\ first + (k - 1) + 1 = first + k
          /\ first + (k - 1) <= last /\ first + (k - 1) \in first .. last
      BY <1>1, <2>0, <2>1
    <3>2. g[k - 1] = order[first + (k - 1)] /\ g[k] = order[first + k]
      BY <2>0, <2>1, <3>1
    <3> QED BY <1>2, <1>3, <3>1, <3>2
  <2>2. CASE first + k = last + 1
    <3>1. first + (k - 1) = last /\ ~(first + k <= last) /\ last \in first .. last
      BY <1>1, <2>0, <2>2
    <3>2. g[k - 1] = order[last] /\ g[k] = Null
      BY <2>0, <3>1
    <3> QED BY <1>1, <1>2, <3>1, <3>2
  <2>3. CASE first + k > last + 1
    <3>1. ~(first + (k - 1) <= last) /\ ~(first + k <= last)
      BY <1>1, <2>0, <2>3
    <3>2. g[k - 1] = Null /\ g[k] = Null
      BY <2>0, <3>1
    <3> QED BY <3>2
  <2>4. first + k \in Int /\ last \in Int
    BY <1>1, <2>0
  <2> QED BY <2>1, <2>2, <2>3, <2>4
<1>6. Chain(i) = g
  <2>1. /\ g = [k \in 0 .. MaxNodes |-> g[k]] /\ g[0] = i
        /\ \A k \in 1 .. MaxNodes :
             g[k] = IF g[k - 1] = Null THEN Null ELSE next[NodeOf(g[k - 1])]
    BY <1>4, <1>5
  <2> QED BY ONLY <2>1, ChainIs
<1> QED BY <1>6

\* A walk is the chain without the null indices at its end.
LEMMA WalkIs ==
  ASSUME NEW i, NEW len \in 0 .. MaxNodes,
         \A k \in 0 .. MaxNodes : Chain(i)[k] # Null <=> k < len
  PROVE  Walk(i) = [k \in 1 .. len |-> Chain(i)[k - 1]]
<1>1. {j \in 0 .. MaxNodes : Chain(i)[j] # Null} = 0 .. len - 1
  BY NodesAssumption
<1>2. Cardinality(0 .. len - 1) = len
  BY FS_Interval, NodesAssumption
<1> QED BY <1>1, <1>2 DEF Walk

\* The walks of the destructor: the list from its first node on, and the free
\* list from its last element on.
LEMMA Walks ==
  ASSUME NEW free, NEW ver, NEW place, Whole(free, ver, place),
         \A t \in Threads : pc[t] = "idle"
  PROVE  /\ Walk(head) = [k \in 1 .. Len(order) - First + 1 |-> order[First + k - 1]]
         /\ Walk(freeListHead) = [k \in 1 .. Len(free) |-> free[Len(free) - k + 1]]
<1>1. /\ Len(free) \in 0 .. MaxNodes /\ Len(order) \in Nat
      /\ First \in 1 .. Len(order) /\ Len(order) - First + 1 \in 1 .. MaxNodes
  BY ListsFit
<1>2. /\ \A k \in First .. Len(order) : order[k] # Null
      /\ \A k \in 1 .. Len(free) : free[k] # Null
  <2>1. /\ \A k \in First .. Len(order) : order[k] \in Cells
        /\ \A k \in 1 .. Len(free) : free[k] \in Cells
    BY DEF Whole, PlacesOk, Current
  <2>2. \A j \in Cells : j # Null
    BY DEF Cells, Nodes, Null
  <2> QED BY <2>1, <2>2
<1>3. Walk(head) = [k \in 1 .. Len(order) - First + 1 |-> order[First + k - 1]]
  <2> PICK len : len = Len(order) - First + 1
    OBVIOUS
  <2>1. ASSUME NEW k \in 0 .. MaxNodes
        PROVE  /\ Chain(head)[k] # Null <=> k < len
               /\ k < len => Chain(head)[k] = order[First + k]
    <3>1. k < len <=> First + k <= Len(order)
      BY <1>1
    <3>2. k < len => First + k \in First .. Len(order)
      BY <1>1, <3>1
    <3> QED BY <1>2, <3>1, <3>2, ListChain
  <2>2. Walk(head) = [k \in 1 .. len |-> Chain(head)[k - 1]]
    <3>1. len \in 0 .. MaxNodes
      BY <1>1
    <3>2. \A k \in 0 .. MaxNodes : Chain(head)[k] # Null <=> k < len
      BY <2>1
    <3> QED BY ONLY <3>1, <3>2, WalkIs
  <2>3. \A k \in 1 .. len : /\ k - 1 \in 0 .. MaxNodes /\ k - 1 < len
                            /\ First + (k - 1) = First + k - 1
    BY <1>1, NodesAssumption
  <2> QED BY <2>1, <2>2, <2>3
<1>4. Walk(freeListHead) = [k \in 1 .. Len(free) |-> free[Len(free) - k + 1]]
  <2> PICK len : len = Len(free)
    OBVIOUS
  <2>1. ASSUME NEW k \in 0 .. MaxNodes
        PROVE  /\ Chain(freeListHead)[k] # Null <=> k < len
               /\ k < len => Chain(freeListHead)[k] = free[len - k]
    <3>1. k < len => len - k \in 1 .. len
      BY <1>1
    <3> QED BY <1>2, <3>1, FreeChain
  <2>2. Walk(freeListHead) = [k \in 1 .. len |-> Chain(freeListHead)[k - 1]]
    BY <1>1, <2>1, WalkIs
  <2>3. \A k \in 1 .. len : /\ k - 1 \in 0 .. MaxNodes /\ k - 1 < len
                            /\ len - (k - 1) = len - k + 1
    BY <1>1, NodesAssumption
  <2> QED BY <2>1, <2>2, <2>3
<1> QED BY <1>3, <1>4

\* What the destructor destroys.
LEMMA DestroyAll ==
  ASSUME IInv, Destroy
  PROVE  DestroyedOnce'
<1>1. PICK free, ver, place : Whole(free, ver, place)
  BY DEF IInv
<1>2. /\ \A t \in Threads : pc[t] = "idle"
      /\ destroyed' = [nodes |-> Walk(head) \o Walk(freeListHead),
                       items |-> IF headConsumed THEN Tail(Walk(head)) ELSE Walk(head)]
      /\ nextNode' = nextNode /\ order' = order /\ claims' = claims
  BY DEF Destroy
<1> PICK a : a = Walk(head)
  OBVIOUS
<1> PICK b : b = Walk(freeListHead)
  OBVIOUS
<1> PICK la : la = Len(order) - First + 1
  OBVIOUS
<1> PICK lb : lb = Len(free)
  OBVIOUS
<1> PICK d : d = a \o b
  OBVIOUS
<1>3. /\ la \in Nat \ {0} /\ lb \in Nat
      /\ Len(order) \in Nat /\ First \in 1 .. Len(order)
      /\ order \in Seq(Cells) /\ free \in Seq(Cells)
  <2>1. order \in Seq(Cells) /\ free \in Seq(Cells)
    BY <1>1 DEF Whole, OrderOk, FreeOk
  <2>2. /\ Len(free) \in 0 .. MaxNodes /\ First \in 1 .. Len(order) /\ Len(order) \in Nat
        /\ Len(order) - First + 1 \in 1 .. MaxNodes
    BY <1>1, ListsFit
  <2> QED BY <2>1, <2>2
<1>4. /\ a = [k \in 1 .. la |-> order[First + k - 1]]
      /\ b = [k \in 1 .. lb |-> free[lb - k + 1]]
  BY <1>1, <1>2, Walks
<1>5. /\ \A k \in 1 .. la : First + k - 1 \in First .. Len(order) /\ First + k - 1 \in 1 .. Len(order)
      /\ \A k \in 1 .. lb : lb - k + 1 \in 1 .. lb
  BY <1>3
<1>6. a \in Seq(Cells) /\ Len(a) = la /\ b \in Seq(Cells) /\ Len(b) = lb
  <2>1. \A k \in 1 .. la : order[First + k - 1] \in Cells
    BY <1>3, <1>5
  <2>2. \A k \in 1 .. lb : free[lb - k + 1] \in Cells
    BY <1>3, <1>5
  <2>3. a \in Seq(Cells) /\ Len(a) = la
    BY <1>3, <1>4, <2>1
  <2>4. b \in Seq(Cells) /\ Len(b) = lb
    BY <1>3, <1>4, <2>2
  <2> QED BY <2>3, <2>4
<1>7. /\ DOMAIN d = 1 .. la + lb
      /\ \A k \in 1 .. la : d[k] = a[k]
      /\ \A k \in la + 1 .. la + lb : d[k] = b[k - la]
  <2>1. /\ d \in Seq(Cells) /\ Len(d) = la + lb
        /\ \A k \in 1 .. la + lb : d[k] = IF k <= la THEN a[k] ELSE b[k - la]
    <3>1. /\ a \o b \in Seq(Cells) /\ Len(a \o b) = Len(a) + Len(b)
          /\ \A k \in 1 .. Len(a) + Len(b) :
               (a \o b)[k] = IF k <= Len(a) THEN a[k] ELSE b[k - Len(a)]
      BY ONLY <1>6, ConcatProperties
    <3> QED BY <1>6, <3>1
  <2>2. /\ \A k \in 1 .. la : k \in 1 .. la + lb /\ k <= la
        /\ \A k \in la + 1 .. la + lb : k \in 1 .. la + lb /\ ~(k <= la)
    BY <1>3
  <2>3. DOMAIN d = 1 .. la + lb
    BY <2>1, LenProperties
  <2> QED BY <2>1, <2>2, <2>3
<1>8. ASSUME NEW n \in 1 .. nextNode - 1
      PROVE  Cardinality({k \in DOMAIN d : NodeOf(d[k]) = n}) = 1
  <2>1. \A t \in Threads : ~Holding(t)
    BY <1>2 DEF Holding
  <2>2. \E j \in 1 .. la + lb : NodeOf(d[j]) = n
    <3>1. CASE \E k \in First .. Len(order) : NodeOf(order[k]) = n
      <4>1. PICK k \in First .. Len(order) : NodeOf(order[k]) = n
        BY <3>1
      <4>2. k - First + 1 \in 1 .. la /\ First + (k - First + 1) - 1 = k
        BY <1>3
      <4>3. d[k - First + 1] = order[k] /\ k - First + 1 \in 1 .. la + lb
        BY <1>3, <1>4, <1>7, <4>2
      <4> QED BY <4>1, <4>3
    <3>2. CASE \E k \in 1 .. lb : NodeOf(free[k]) = n
      <4>1. PICK k \in 1 .. lb : NodeOf(free[k]) = n
        BY <3>2
      <4>2. /\ lb - k + 1 \in 1 .. lb /\ lb - (lb - k + 1) + 1 = k
            /\ la + (lb - k + 1) \in la + 1 .. la + lb
            /\ (la + (lb - k + 1)) - la = lb - k + 1
        BY <1>3
      <4>3. d[la + (lb - k + 1)] = free[k] /\ la + (lb - k + 1) \in 1 .. la + lb
        <5>1. d[la + (lb - k + 1)] = b[lb - k + 1]
          BY <1>7, <4>2
        <5>2. b[lb - k + 1] = free[k]
          BY <1>4, <4>2
        <5>3. la + (lb - k + 1) \in 1 .. la + lb
          BY <1>3, <4>2
        <5> QED BY <5>1, <5>2, <5>3
      <4> QED BY <4>1, <4>3
    <3> QED BY <1>1, <2>1, <3>1, <3>2 DEF Whole, PlacesOk
  <2>3. ASSUME NEW j \in 1 .. la + lb, NEW k \in 1 .. la + lb,
               NodeOf(d[j]) = n, NodeOf(d[k]) = n
        PROVE  j = k
    <3> DEFINE oj == First + j - 1
               ok == First + k - 1
               fj == lb - (j - la) + 1
               fk == lb - (k - la) + 1
    <3>1. /\ j \in 1 .. la => d[j] = order[oj] /\ oj \in First .. Len(order)
          /\ k \in 1 .. la => d[k] = order[ok] /\ ok \in First .. Len(order)
      BY <1>4, <1>5, <1>7
    <3>2. /\ j \in la + 1 .. la + lb => d[j] = free[fj] /\ fj \in 1 .. lb
          /\ k \in la + 1 .. la + lb => d[k] = free[fk] /\ fk \in 1 .. lb
      <4>1. \A i \in la + 1 .. la + lb : /\ i - la \in 1 .. lb
                                        /\ lb - (i - la) + 1 \in 1 .. lb
        BY <1>3
      <4> QED BY <1>4, <1>7, <4>1
    <3>3. /\ j \in 1 .. la \/ j \in la + 1 .. la + lb
          /\ k \in 1 .. la \/ k \in la + 1 .. la + lb
      BY <1>3
    <3>4. /\ oj = ok => j = k
          /\ fj = fk => j = k
      BY <1>3
    <3> HIDE DEF oj, ok, fj, fk
    <3>a. /\ \A p, q \in First .. Len(order) : NodeOf(order[p]) = NodeOf(order[q]) => p = q
          /\ \A p, q \in 1 .. lb : NodeOf(free[p]) = NodeOf(free[q]) => p = q
          /\ \A p \in First .. Len(order), q \in 1 .. lb : NodeOf(order[p]) # NodeOf(free[q])
      BY <1>1, NodesApart
    <3>5. CASE j \in 1 .. la /\ k \in 1 .. la
      BY <2>3, <3>1, <3>4, <3>5, <3>a
    <3>6. CASE j \in 1 .. la /\ k \in la + 1 .. la + lb
      <4>1. NodeOf(order[oj]) # NodeOf(free[fk])
        BY <3>1, <3>2, <3>6, <3>a
      <4> QED BY <2>3, <3>1, <3>2, <3>6, <4>1
    <3>7. CASE j \in la + 1 .. la + lb /\ k \in 1 .. la
      <4>1. NodeOf(order[ok]) # NodeOf(free[fj])
        BY <3>1, <3>2, <3>7, <3>a
      <4> QED BY <2>3, <3>1, <3>2, <3>7, <4>1
    <3>8. CASE j \in la + 1 .. la + lb /\ k \in la + 1 .. la + lb
      BY <2>3, <3>2, <3>4, <3>8, <3>a
    <3> QED BY <3>3, <3>5, <3>6, <3>7, <3>8
  <2>4. PICK j \in 1 .. la + lb : NodeOf(d[j]) = n
    BY <2>2
  <2>5. {k \in DOMAIN d : NodeOf(d[k]) = n} = {j}
    BY <1>7, <2>3, <2>4
  <2> QED BY <2>5, FS_Singleton
<1>9. destroyed'.items = SubSeq(order, Len(claims) + 1, Len(order))
  <2>0. ClaimsInOrder /\ Len(claims) \in Nat
    BY <1>1 DEF Whole, TypeOK
  <2>1. a = SubSeq(order, First, Len(order))
    <3>1. SubSeq(order, First, Len(order))
            = [k \in 1 .. Len(order) - First + 1 |-> order[k + First - 1]]
      BY <1>3
    <3>2. \A k \in 1 .. la : k + First - 1 = First + k - 1
      BY <1>3
    <3> QED BY <1>4, <3>1, <3>2
  <2>2. Tail(a) = SubSeq(order, First + 1, Len(order))
    BY <1>3, <2>1, HeadTailOfSubSeq
  <2>3. First = IF headConsumed THEN Len(claims) ELSE Len(claims) + 1
    BY DEF First
  <2> QED BY <1>2, <2>1, <2>2, <2>3
<1> QED BY <1>2, <1>8, <1>9 DEF DestroyedOnce

\* No call runs after the destructor.
LEMMA DestroyedStep == IInv /\ DestroyedOnce /\ [Next]_vars => DestroyedOnce'
<1> SUFFICES ASSUME IInv, DestroyedOnce, [Next]_vars PROVE DestroyedOnce'
  OBVIOUS
<1>1. CASE destroyed.nodes = <<>> /\ \E p \in Producers : EnqueueStep(p)
  <2>1. destroyed' = destroyed
    BY <1>1 DEF EnqueueStep, EnqLoadFree, EnqNewNode, EnqLoadFreeNext, EnqPop, EnqConstruct,
                EnqMoveTail, EnqLink, history
  <2> QED BY <1>1, <2>1 DEF DestroyedOnce
<1>2. CASE destroyed.nodes = <<>> /\ \E c \in Consumers : DequeueStep(c)
  <2>1. destroyed' = destroyed
    BY <1>2 DEF DequeueStep, DeqLoadHead, DeqLoadNext, DeqMark, DeqTakeMarked, DeqMove,
                DeqTakeMoved, DeqLoadFree, DeqFreeLink, DeqPush, history
  <2> QED BY <1>2, <2>1 DEF DestroyedOnce
<1>3. CASE Destroy
  BY <1>3, DestroyAll
<1>4. CASE UNCHANGED vars
  BY <1>4 DEF vars, history, DestroyedOnce
<1> QED BY <1>1, <1>2, <1>3, <1>4 DEF Next

\* The list is never broken for good, every node is in the list, in the free list
\* or with one thread, and the destructor destroys each once, with the items
\* that were not claimed; for any number of threads and nodes.
THEOREM NodesSafety == Spec => []NodesAccounted
<1>1. Init => DestroyedOnce
  BY DEF Init, DestroyedOnce
<1>2. Spec => []DestroyedOnce
  BY <1>1, Invariance, DestroyedStep, PTL DEF Spec
<1>3. IInv /\ DestroyedOnce => NodesAccounted
  BY OnePlace DEF IInv, Whole, NodesAccounted
<1> QED BY <1>2, <1>3, Invariance, PTL
=============================================================================
