-------------------------- MODULE SimpleLockFreeQueue --------------------------
(***************************************************************************)
(* The linked queue of SimpleLockFreeQueue.h: nodes with versioned indices, *)
(* a head that carries a "consumed" flag, a tail, and a free list of nodes   *)
(* to use again.  One action per access to shared memory.                    *)
(*                                                                         *)
(* An index is a pair of a node and a version (bits 0-39 and 40-63 of idx_t; *)
(* versions are unbounded here).  The blocks that store the nodes never move *)
(* and are not modelled.  The item of an enqueue is named by the index of the *)
(* node allocated for it: no two enqueues get the same index.  The machine   *)
(* is sequentially consistent, a weak CAS fails only when the values differ  *)
(* (x86).  Stores to a node nobody else may claim are merged with the step   *)
(* before; the load and CAS loop on tail is an exchange, since a failed round *)
(* of it has no other effect.  The destructor runs when no call does.         *)
(***************************************************************************)
EXTENDS Integers, Sequences, FiniteSets, TLC

CONSTANTS
  Producers,   \* threads that call enqueue
  Consumers,   \* threads that call try_dequeue
  MaxNodes,    \* bound: nodes that may ever be allocated (the first one is blank)
  MaxEnqueues  \* bound: no enqueue starts once that many have moved the tail

ASSUME ThreadsAssumption == Producers \intersect Consumers = {}
ASSUME NodesAssumption == MaxNodes \in Nat \ {0} /\ MaxEnqueues \in Nat

Null == <<0, 0>>    \* index 0
None == <<0, 1>>    \* the item of a node that has none
Blank == <<1, 0>>   \* the node of the constructor

VARIABLES
  nextNode,      \* nextNodeIdx: the next node never used
  head,          \* index of the first node ...
  headConsumed,  \* ... and its consumed flag, one word together
  tail,
  freeListHead,
  next,          \* next[n], for each node
  item,          \* item[n], for each node
  pc,
  nodeIdx,       \* local: the producer's new node, the consumer's head_
  consumed,      \* local: the consumed flag of rawHead_
  seen,          \* local: the producer's tail_, or a free list head it works on
  link,          \* local: a link that was loaded
  destroyed,     \* the nodes and the items the destructor has destroyed, in order
  order,         \* history: the indices in the order tail was moved to them
  claims,        \* history: the indices in the order consumers claimed them
  received       \* history: pairs of the item claimed and the item received

nodes == <<next, item>>
ends == <<head, headConsumed, tail>>
locals == <<nodeIdx, consumed, seen, link>>
history == <<destroyed, order, claims, received>>
vars == <<nextNode, ends, freeListHead, nodes, pc, locals, history>>

Threads == Producers \union Consumers
Nodes == 1 .. MaxNodes
NodeOf(i) == i[1]

Goto(t, from, to) == pc[t] = from /\ pc' = [pc EXCEPT ![t] = to]

\* The locals of a call that is over, or that starts its loop again.
ClearLocals(t) == /\ nodeIdx' = [nodeIdx EXCEPT ![t] = Null]
                  /\ consumed' = [consumed EXCEPT ![t] = FALSE]
                  /\ seen' = [seen EXCEPT ![t] = Null]
                  /\ link' = [link EXCEPT ![t] = Null]

Init == /\ nextNode = 2
        /\ head = Blank /\ headConsumed = TRUE
        /\ tail = Blank
        /\ freeListHead = Null
        /\ next = [n \in Nodes |-> Null]
        /\ item = [n \in Nodes |-> None]
        /\ pc = [t \in Threads |-> "idle"]
        /\ nodeIdx = [t \in Threads |-> Null]
        /\ consumed = [t \in Threads |-> FALSE]
        /\ seen = [t \in Threads |-> Null]
        /\ link = [t \in Threads |-> Null]
        /\ destroyed = [nodes |-> <<>>, items |-> <<>>]
        /\ order = <<Blank>>
        /\ claims = <<Blank>>
        /\ received = {}

-----------------------------------------------------------------------------
(* enqueue, with allocate_node_for and try_get_node_from_free_list           *)

\* The call, and the load of freeListHead.
EnqLoadFree(p) ==
  /\ Len(order) <= MaxEnqueues
  /\ Goto(p, "idle", "enqFree")
  /\ seen' = [seen EXCEPT ![p] = freeListHead]
  /\ UNCHANGED <<nextNode, ends, freeListHead, nodes, nodeIdx, consumed, link,
                 history>>

\* The free list is empty: a new node, private to the caller until it is linked.
EnqNewNode(p) ==
  /\ seen[p] = Null /\ nextNode <= MaxNodes
  /\ Goto(p, "enqFree", "enqTail")
  /\ nodeIdx' = [nodeIdx EXCEPT ![p] = <<nextNode, 0>>]
  /\ nextNode' = nextNode + 1
  /\ next' = [next EXCEPT ![nextNode] = Null]
  /\ item' = [item EXCEPT ![nextNode] = <<nextNode, 0>>]
  /\ UNCHANGED <<ends, freeListHead, consumed, seen, link, history>>

EnqLoadFreeNext(p) ==
  /\ seen[p] # Null
  /\ Goto(p, "enqFree", "enqPop")
  /\ link' = [link EXCEPT ![p] = next[NodeOf(seen[p])]]
  /\ UNCHANGED <<nextNode, ends, freeListHead, nodes, nodeIdx, consumed, seen,
                 history>>

\* Mutant: the version is not incremented.
EnqPopSameVersion(p) ==
  /\ \/ /\ freeListHead = seen[p]
        /\ Goto(p, "enqPop", "enqConstruct")
        /\ freeListHead' = link[p]
        /\ nodeIdx' = [nodeIdx EXCEPT ![p] = seen[p]]
        /\ seen' = [seen EXCEPT ![p] = Null]
     \/ /\ freeListHead # seen[p]
        /\ Goto(p, "enqPop", "enqFree")
        /\ seen' = [seen EXCEPT ![p] = freeListHead]
        /\ UNCHANGED <<freeListHead, nodeIdx>>
  /\ link' = [link EXCEPT ![p] = Null]
  /\ UNCHANGED <<nextNode, ends, nodes, consumed, history>>

\* The CAS on freeListHead.  A node that is used again gets the next version; a
\* failed CAS has loaded the head anew.
EnqPop(p) ==
  /\ \/ /\ freeListHead = seen[p]
        /\ Goto(p, "enqPop", "enqConstruct")
        /\ freeListHead' = link[p]
        /\ nodeIdx' = [nodeIdx EXCEPT ![p] = <<seen[p][1], seen[p][2] + 1>>]
        /\ seen' = [seen EXCEPT ![p] = Null]
     \/ /\ freeListHead # seen[p]
        /\ Goto(p, "enqPop", "enqFree")
        /\ seen' = [seen EXCEPT ![p] = freeListHead]
        /\ UNCHANGED <<freeListHead, nodeIdx>>
  /\ link' = [link EXCEPT ![p] = Null]
  /\ UNCHANGED <<nextNode, ends, nodes, consumed, history>>

\* The link of the node is cleared and the item constructed in it.
EnqConstruct(p) ==
  /\ Goto(p, "enqConstruct", "enqTail")
  /\ next' = [next EXCEPT ![NodeOf(nodeIdx[p])] = Null]
  /\ item' = [item EXCEPT ![NodeOf(nodeIdx[p])] = nodeIdx[p]]
  /\ UNCHANGED <<nextNode, ends, freeListHead, locals, history>>

EnqMoveTail(p) ==
  /\ Goto(p, "enqTail", "enqLink")
  /\ seen' = [seen EXCEPT ![p] = tail]
  /\ tail' = nodeIdx[p]
  /\ order' = Append(order, nodeIdx[p])
  /\ UNCHANGED <<nextNode, head, headConsumed, freeListHead, nodes, nodeIdx,
                 consumed, link, destroyed, claims, received>>

\* The old tail is linked to the new one, and enqueue returns true.
EnqLink(p) ==
  /\ Goto(p, "enqLink", "idle")
  /\ next' = [next EXCEPT ![NodeOf(seen[p])] = nodeIdx[p]]
  /\ ClearLocals(p)
  /\ UNCHANGED <<nextNode, ends, freeListHead, item, history>>

-----------------------------------------------------------------------------
(* try_dequeue, with add_node_to_free_list                                   *)

DeqLoadHead(c) ==
  /\ Goto(c, "idle", "deqNext") \/ Goto(c, "deqAgain", "deqNext")
  /\ nodeIdx' = [nodeIdx EXCEPT ![c] = head]
  /\ consumed' = [consumed EXCEPT ![c] = headConsumed]
  /\ UNCHANGED <<nextNode, ends, freeListHead, nodes, seen, link, history>>

\* The load of the head's link; no link and nothing to consume: return false.
DeqLoadNext(c) ==
  /\ \/ /\ Goto(c, "deqNext", "idle")
        /\ next[NodeOf(nodeIdx[c])] = Null /\ consumed[c]
        /\ ClearLocals(c)
     \/ /\ Goto(c, "deqNext", "deqMark")
        /\ next[NodeOf(nodeIdx[c])] = Null /\ ~consumed[c]
        /\ UNCHANGED locals
     \/ /\ Goto(c, "deqNext", "deqMove")
        /\ next[NodeOf(nodeIdx[c])] # Null
        /\ link' = [link EXCEPT ![c] = next[NodeOf(nodeIdx[c])]]
        /\ UNCHANGED <<nodeIdx, consumed, seen>>
  /\ UNCHANGED <<nextNode, ends, freeListHead, nodes, history>>

\* Mutant: the CAS does not see that the head was consumed meanwhile.
DeqMarkAgain(c) ==
  /\ \/ /\ head = nodeIdx[c]
        /\ Goto(c, "deqMark", "deqTakeMarked")
        /\ headConsumed' = TRUE
        /\ claims' = Append(claims, head)
        /\ UNCHANGED locals
     \/ /\ head # nodeIdx[c]
        /\ Goto(c, "deqMark", "deqAgain")
        /\ ClearLocals(c)
        /\ UNCHANGED <<headConsumed, claims>>
  /\ UNCHANGED <<nextNode, head, tail, freeListHead, nodes, destroyed, order, received>>

\* The CAS that sets the consumed flag of the only node.
DeqMark(c) ==
  /\ \/ /\ head = nodeIdx[c] /\ ~headConsumed
        /\ Goto(c, "deqMark", "deqTakeMarked")
        /\ headConsumed' = TRUE
        /\ claims' = Append(claims, head)
        /\ UNCHANGED locals
     \/ /\ head # nodeIdx[c] \/ headConsumed
        /\ Goto(c, "deqMark", "deqAgain")
        /\ ClearLocals(c)
        /\ UNCHANGED <<headConsumed, claims>>
  /\ UNCHANGED <<nextNode, head, tail, freeListHead, nodes, destroyed, order, received>>

\* The item is moved out and destroyed.
Receive(c) ==
  /\ received' = received \union {<<nodeIdx[c], item[NodeOf(nodeIdx[c])]>>}
  /\ item' = [item EXCEPT ![NodeOf(nodeIdx[c])] = None]

\* The item of the node that was marked; the node stays at the head.
DeqTakeMarked(c) ==
  /\ Goto(c, "deqTakeMarked", "idle")
  /\ Receive(c)
  /\ ClearLocals(c)
  /\ UNCHANGED <<nextNode, ends, freeListHead, next, destroyed, order, claims>>

\* The CAS that moves the head to the next node.  Unless the old head was
\* consumed before, its item is claimed.
DeqMove(c) ==
  /\ \/ /\ head = nodeIdx[c] /\ headConsumed = consumed[c]
        /\ head' = link[c]
        /\ headConsumed' = FALSE
        /\ \/ /\ consumed[c]
              /\ Goto(c, "deqMove", "deqFree")
              /\ UNCHANGED claims
           \/ /\ ~consumed[c]
              /\ Goto(c, "deqMove", "deqTakeMoved")
              /\ claims' = Append(claims, head)
        /\ link' = [link EXCEPT ![c] = Null]
        /\ UNCHANGED <<nodeIdx, consumed, seen>>
     \/ /\ head # nodeIdx[c] \/ headConsumed # consumed[c]
        /\ Goto(c, "deqMove", "deqAgain")
        /\ ClearLocals(c)
        /\ UNCHANGED <<head, headConsumed, claims>>
  /\ UNCHANGED <<nextNode, tail, freeListHead, nodes, destroyed, order, received>>

DeqTakeMoved(c) ==
  /\ Goto(c, "deqTakeMoved", "deqFree")
  /\ Receive(c)
  /\ UNCHANGED <<nextNode, ends, freeListHead, next, locals, destroyed, order, claims>>

\* The load of freeListHead.
DeqLoadFree(c) ==
  /\ Goto(c, "deqFree", "deqFreeLink")
  /\ seen' = [seen EXCEPT ![c] = freeListHead]
  /\ UNCHANGED <<nextNode, ends, freeListHead, nodes, nodeIdx, consumed, link,
                 history>>

DeqFreeLink(c) ==
  /\ Goto(c, "deqFreeLink", "deqPush")
  /\ next' = [next EXCEPT ![NodeOf(nodeIdx[c])] = seen[c]]
  /\ UNCHANGED <<nextNode, ends, freeListHead, item, locals, history>>

\* The CAS that pushes the node; a call that only removed a consumed node goes
\* on to look for an item.
DeqPush(c) ==
  /\ \/ /\ freeListHead = seen[c]
        /\ freeListHead' = nodeIdx[c]
        /\ \/ consumed[c] /\ Goto(c, "deqPush", "deqAgain")
           \/ ~consumed[c] /\ Goto(c, "deqPush", "idle")
        /\ ClearLocals(c)
     \/ /\ freeListHead # seen[c]
        /\ Goto(c, "deqPush", "deqFreeLink")
        /\ seen' = [seen EXCEPT ![c] = freeListHead]
        /\ UNCHANGED <<freeListHead, nodeIdx, consumed, link>>
  /\ UNCHANGED <<nextNode, ends, nodes, history>>

-----------------------------------------------------------------------------
(* The destructor                                                            *)

\* The indices a walk along the links visits, from i to the end.
Chain(i) ==
  LET index[k \in 0 .. MaxNodes] ==
        IF k = 0 THEN i
        ELSE IF index[k - 1] = Null THEN Null
        ELSE next[NodeOf(index[k - 1])]
  IN index
Walk(i) == [k \in 1 .. Cardinality({j \in 0 .. MaxNodes : Chain(i)[j] # Null}) |->
              Chain(i)[k - 1]]

\* The nodes from head on with their items, without the item of a head that was
\* consumed, and then the nodes of the free list.
Destroy ==
  /\ destroyed.nodes = <<>> /\ \A t \in Threads : pc[t] = "idle"
  /\ destroyed' = [nodes |-> Walk(head) \o Walk(freeListHead),
                   items |-> IF headConsumed THEN Tail(Walk(head)) ELSE Walk(head)]
  /\ UNCHANGED <<nextNode, ends, freeListHead, nodes, pc, locals, order, claims, received>>

-----------------------------------------------------------------------------
EnqueueStep(p) == \/ EnqLoadFree(p)
                  \/ EnqNewNode(p)
                  \/ EnqLoadFreeNext(p)
                  \/ EnqPop(p)
                  \/ EnqConstruct(p)
                  \/ EnqMoveTail(p)
                  \/ EnqLink(p)

DequeueStep(c) == \/ DeqLoadHead(c)
                  \/ DeqLoadNext(c)
                  \/ DeqMark(c)
                  \/ DeqTakeMarked(c)
                  \/ DeqMove(c)
                  \/ DeqTakeMoved(c)
                  \/ DeqLoadFree(c)
                  \/ DeqFreeLink(c)
                  \/ DeqPush(c)

Next == \/ destroyed.nodes = <<>> /\ \E p \in Producers : EnqueueStep(p)
        \/ destroyed.nodes = <<>> /\ \E c \in Consumers : DequeueStep(c)
        \/ Destroy

Spec == Init /\ [][Next]_vars

-----------------------------------------------------------------------------
(* Properties                                                                *)

PCs == {"idle", "enqFree", "enqPop", "enqConstruct", "enqTail", "enqLink",
        "deqAgain", "deqNext", "deqMark", "deqTakeMarked", "deqMove",
        "deqTakeMoved", "deqFree", "deqFreeLink", "deqPush"}

Indices == {Null} \union (Nodes \X Nat)

\* Type invariant; head and tail are never null (SimpleLockFreeQueue.h:36).
TypeOK ==
  /\ nextNode \in 2 .. MaxNodes + 1
  /\ {head, tail} \subseteq Nodes \X Nat
  /\ freeListHead \in Indices
  /\ headConsumed \in BOOLEAN
  /\ next \in [Nodes -> Indices]
  /\ item \in [Nodes -> Indices \union {None}]
  /\ pc \in [Threads -> PCs]
  /\ \A f \in {nodeIdx, seen, link} : f \in [Threads -> Indices]
  /\ consumed \in [Threads -> BOOLEAN]
  /\ order \in Seq(Indices) /\ claims \in Seq(Indices)

\* Items are claimed once each and in the order enqueue moved the tail, although
\* there are two ways to claim one: to mark the last node, or to move the head.
ClaimsInOrder ==
  /\ Len(claims) <= Len(order)
  /\ \A k \in DOMAIN claims : claims[k] = order[k]

\* The position of head among all nodes ever enqueued.
First == IF headConsumed THEN Len(claims) ELSE Len(claims) + 1

\* The list is never broken for good: from head, which is never null, the links
\* lead to tail through all enqueued nodes in order; a link that is missing is
\* about to be stored by the producer that moved the tail there.
ListIntact ==
  /\ First \in DOMAIN order /\ head = order[First]
  /\ tail = order[Len(order)] /\ next[NodeOf(tail)] = Null
  /\ \A k \in First .. Len(order) - 1 :
       \/ next[NodeOf(order[k])] = order[k + 1]
       \/ /\ next[NodeOf(order[k])] = Null
          /\ \E p \in Producers : /\ pc[p] = "enqLink"
                                  /\ seen[p] = order[k]
                                  /\ nodeIdx[p] = order[k + 1]

\* A producer has a node until it enqueues it, a consumer has the one it removed
\* until it frees it.
Holds(t, n) ==
  /\ NodeOf(nodeIdx[t]) = n
  /\ pc[t] \in {"enqConstruct", "enqTail", "deqTakeMoved", "deqFree",
               "deqFreeLink", "deqPush"}

\* Every node ever used is in exactly one place: in the list, in the free list
\* (which has no cycle) or with one thread, so none is lost or used twice,
\* although pops work on links that may be stale (the ABA problem the versions
\* are for).
NodesHaveOnePlace ==
  \A n \in 1 .. nextNode - 1 :
    Cardinality({k \in First .. Len(order) : NodeOf(order[k]) = n})
      + Cardinality({k \in 0 .. MaxNodes : NodeOf(Chain(freeListHead)[k]) = n})
      + Cardinality({t \in Threads : Holds(t, n)}) = 1

\* The destructor destroys every node once, and the items that were enqueued and
\* not claimed, whatever way the last ones before them were claimed.
DestroyedOnce ==
  destroyed.nodes # <<>> =>
    /\ \A n \in 1 .. nextNode - 1 :
         Cardinality({k \in DOMAIN destroyed.nodes : NodeOf(destroyed.nodes[k]) = n}) = 1
    /\ destroyed.items = SubSeq(order, Len(claims) + 1, Len(order))

\* The list is whole and so is the set of nodes.
NodesAccounted == TypeOK /\ ListIntact /\ NodesHaveOnePlace /\ DestroyedOnce

\* What SimpleLockFreeQueue.h:3 says ("simple, yet correct"): whoever claims an item
\* receives it.
ReceivesItsItem == \A r \in received : r[1] = r[2]

\* The threads of a kind are alike: sound for the runs, which have no liveness property.
ThreadSymmetry == Permutations(Producers) \union Permutations(Consumers)
=============================================================================
