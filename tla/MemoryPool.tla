------------------------------ MODULE MemoryPool ------------------------------
(***************************************************************************)
(* The memory pool of mmpool.c: a chain of nodes of equal size from which      *)
(* small blocks are cut, and a list of large blocks that come from malloc.     *)
(* Addresses are relative to the memory of a node and count words of 8 bytes;  *)
(* posix_memalign returns aligned memory.  The header of the first node comes   *)
(* after the pool structure, so that its end is not aligned, while the nodes    *)
(* added later (mp_alloc_block) begin with theirs.  A client may allocate in    *)
(* every way, free large blocks and reset the pool, and malloc may fail.        *)
(***************************************************************************)
EXTENDS Integers, Sequences, SequencesExt

CONSTANTS
  PoolSize,     \* the size given to mp_create_pool, in words
  Sizes,        \* sizes of small blocks that are asked for
  MaxFailed,    \* failures after which current moves on (4 in the code)
  MaxProbe,     \* entries looked at for a free one (3 in the code)
  MaxNodes, MaxLarge   \* bounds: nodes, and large blocks in the list

PoolHeader == 3     \* sizeof(struct mp_pool_s)
NodeHeader == 4     \* sizeof(struct mp_node_s)
LargeHeader == 2    \* sizeof(struct mp_large_s)
Alignment == 4      \* MP_ALIGNMENT
SizeT == 1048576    \* the numbers of a size_t (fewer than 2^64, more than a block has)

NULL == 0

VARIABLES
  nodes,      \* the chain: [last, end, failed]
  current,    \* index of pool->current
  large,      \* pool->large: the ids of the blocks, NULL for a freed one
  heap,       \* ids of the large blocks that malloc has handed out
  blocks      \* history: [node, from, to] of the small blocks in use

vars == <<nodes, current, large, heap, blocks>>

\* Offset of the first byte after the header of a node.
Start(i) == IF i = 1 THEN PoolHeader + NodeHeader ELSE NodeHeader

Align(n) == ((n + Alignment - 1) \div Alignment) * Alignment

\* mp_create_pool.  (The memory it gets is zero, which it relies on for next.)
Init == /\ nodes = <<[last |-> Start(1), end |-> Start(1) + PoolSize, failed |-> 0]>>
        /\ current = 1 /\ large = <<>> /\ heap = {} /\ blocks = {}

\* The start of a block in node i: mp_alloc aligns it, mp_nalloc does not.
From(i, aligned) == IF aligned THEN Align(nodes[i].last) ELSE nodes[i].last

\* The difference is converted to size_t: it wraps if the start is past the end.
Fits(i, size, aligned) == (nodes[i].end - From(i, aligned)) % SizeT >= size

\* Small allocations, as the new values of nodes, current and blocks; refused
\* where malloc fails.
CutFrom(i, size, aligned) ==
  [nodes   |-> [nodes EXCEPT ![i].last = From(i, aligned) + size],
   current |-> current,
   blocks  |-> blocks \union {[node |-> i, from |-> From(i, aligned),
                               to |-> From(i, aligned) + size]}]

\* mp_alloc_block: a new node at the end, and current moves past those that have
\* failed too often (the last one never counts).
AllocBlock(size) ==
  LET n == Len(nodes)
      failedTooOften == {i \in current..(n - 1) : nodes[i].failed > MaxFailed}
  IN [nodes   |-> Append([i \in 1..n |-> IF i \in current..(n - 1)
                                         THEN [nodes[i] EXCEPT !.failed = @ + 1]
                                         ELSE nodes[i]],
                         [last |-> Align(NodeHeader) + size,
                          end |-> nodes[1].end - PoolHeader, failed |-> 0]),
      current |-> IF failedTooOften = {} THEN current
                  ELSE 1 + CHOOSE i \in failedTooOften : \A j \in failedTooOften : j <= i,
      blocks  |-> blocks \union {[node |-> n + 1, from |-> Align(NodeHeader),
                                  to |-> Align(NodeHeader) + size]}]

\* The first node from current on that has room.
FirstFit(size, aligned) ==
  {i \in current..Len(nodes) : /\ Fits(i, size, aligned)
                               /\ \A j \in current..(i - 1) : ~Fits(j, size, aligned)}

\* mp_alloc and mp_nalloc of a small block.
Allocated(size, aligned) ==
  IF FirstFit(size, aligned) # {}
  THEN {CutFrom(i, size, aligned) : i \in FirstFit(size, aligned)}
  ELSE IF Len(nodes) < MaxNodes THEN {AllocBlock(size)} ELSE {}

Set(new) == nodes' = new.nodes /\ current' = new.current /\ blocks' = new.blocks

Alloc(size, aligned) ==
  /\ \E new \in Allocated(size, aligned) : Set(new)
  /\ UNCHANGED <<large, heap>>

-----------------------------------------------------------------------------
NewId == CHOOSE id \in 1..MaxLarge : id \notin heap

\* The entry of a new large block is a small block; if there is no room for it,
\* the large block is given back.
Listed(id) ==
  \/ /\ Len(large) < MaxLarge
     /\ \E new \in Allocated(LargeHeader, TRUE) : Set(new)
     /\ large' = <<id>> \o large /\ heap' = heap \union {id}
  \/ UNCHANGED vars

\* The entries mp_alloc_large looks at.
Probed == {i \in DOMAIN large : i <= MaxProbe + 2}

\* Mutant: the first entry is used although it may not be a free one.
AllocLargeReuse ==
  /\ heap # 1..MaxLarge
  /\ IF \E i \in Probed : large[i] = NULL
     THEN /\ large' = [large EXCEPT ![1] = NewId] /\ heap' = heap \union {NewId}
          /\ UNCHANGED <<nodes, current, blocks>>
     ELSE Listed(NewId)

\* mp_alloc_large: the first freed entry among the probed ones, or a new one.
AllocLarge ==
  /\ heap # 1..MaxLarge
  /\ LET free == {i \in Probed : large[i] = NULL} IN
       IF free # {}
       THEN /\ large' = [large EXCEPT ![CHOOSE i \in free : \A j \in free : i <= j] = NewId]
            /\ heap' = heap \union {NewId}
            /\ UNCHANGED <<nodes, current, blocks>>
       ELSE Listed(NewId)

\* mp_memalign
Memalign == heap # 1..MaxLarge /\ Listed(NewId)

\* mp_free: only large blocks.
Free(id) == /\ id \in ToSet(large) \ {NULL}
            /\ large' = [large EXCEPT ![SelectInSeq(large, LAMBDA x : x = id)] = NULL]
            /\ heap' = heap \ {id}
            /\ UNCHANGED <<nodes, current, blocks>>

\* mp_reset_pool frees what is listed and empties the nodes; current and the
\* counts of failures stay.
Reset == /\ heap' = heap \ ToSet(large) /\ large' = <<>>
         /\ nodes' = [i \in DOMAIN nodes |-> [nodes[i] EXCEPT !.last = Start(i)]]
         /\ blocks' = {}
         /\ UNCHANGED current

\* After a block past the end of its node anything may happen: the model stops.
Corrupted == \E i \in DOMAIN nodes : nodes[i].last > nodes[i].end

Next == /\ ~Corrupted
        /\ \/ \E size \in Sizes, aligned \in BOOLEAN : Alloc(size, aligned)
           \/ AllocLarge \/ Memalign
           \/ \E id \in heap : Free(id)
           \/ Reset

Spec == Init /\ [][Next]_vars

-----------------------------------------------------------------------------
TypeOK == /\ nodes \in Seq([last : Nat, end : Nat, failed : Nat])
          /\ current \in DOMAIN nodes
          /\ large \in Seq(0..MaxLarge) /\ heap \subseteq 1..MaxLarge
          /\ \A b \in blocks : b.node \in DOMAIN nodes /\ b.from <= b.to

\* Blocks in use never overlap each other or a header, in any sequence of calls.
\* They lie inside their node, too, except for those cut when the aligned start
\* was past the unaligned end of the first node, where the test of mp_alloc
\* wraps around (mp_alloc, mp_nalloc, mp_alloc_block, mp_reset_pool).
BlocksDisjoint ==
  /\ \A a, b \in blocks : a.node = b.node /\ a # b => a.to <= b.from \/ b.to <= a.from
  /\ \A b \in blocks : /\ b.from >= Start(b.node)
                       /\ b.to <= nodes[b.node].end \/ b.from > nodes[b.node].end

\* Every large block that malloc handed out is in exactly one entry of the list,
\* so that mp_reset_pool and mp_destory_pool free it, once.
LargeBlocksListed ==
  /\ heap = ToSet(large) \ {NULL}
  /\ \A i, j \in DOMAIN large : i # j /\ large[i] = large[j] => large[i] = NULL
=============================================================================
