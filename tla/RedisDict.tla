------------------------------- MODULE RedisDict -------------------------------
(***************************************************************************)
(* The hash table that holds the channels of a subscribed context              *)
(* (hiredis/dict.c, dict.h; used by hiredis/async.c, where RedisPubSub takes     *)
(* it for a map).  A chain is a sequence, its first entry the head.  The          *)
(* variables map and freed are the promise: a map, whose values are each          *)
(* freed once.  Out-of-memory paths are left out.                                 *)
(***************************************************************************)
EXTENDS Integers, Sequences, SequencesExt, FiniteSetsExt

CONSTANTS Keys, NoKey,
          Hash,                   \* dictHashKey, a function of the keys
          DICT_HT_INITIAL_SIZE,
          MaxVals                 \* bound: values ever put into the table

VARIABLES table,    \* index -> chain of [key, val]; empty before the first entry
          used,
          iter,     \* [index, entry, nextEntry] of the iterator, or NoIter
          returned, \* keys that the iterator has returned
          vals,     \* values made so far
          freed,    \* value -> how often it was freed
          map       \* key -> value

vars == <<table, used, iter, returned, vals, freed, map>>

NoIter == [index |-> -2, entry |-> NoKey, nextEntry |-> NoKey]
Entries(t, S) == FoldFunctionOnSet(LAMBDA chain, n : Len(chain) + n, 0, t, S)
Without(t, i) == SubSeq(t, 1, i - 1) \o SubSeq(t, i + 1, Len(t))
-----------------------------------------------------------------------------
Size(t) == Cardinality(DOMAIN t)
\* dictHashKey(ht, key) & ht->sizemask, the size being a power of two.
Index(t, key) == Hash[key] % Size(t)
Position(chain, key) == SelectInSeq(chain, LAMBDA e : e.key = key)

RECURSIVE PowerFrom(_, _)
PowerFrom(i, size) == IF i >= size THEN i ELSE PowerFrom(i * 2, size)
_dictNextPower(size) == PowerFrom(DICT_HT_INITIAL_SIZE, size)

\* The old chains are taken from slot 0 on, each entry to the head of its new chain.
dictExpand(t, size) ==
  LET n == _dictNextPower(size)
      old == FlattenSeq([i \in 1..Size(t) |-> t[i - 1]])
  IN FoldLeft(LAMBDA new, e : [new EXCEPT ![Index(new, e.key)] = <<e>> \o @],
              [i \in 0..n - 1 |-> <<>>], old)

_dictExpandIfNeeded == CASE Size(table) = 0 -> dictExpand(table, DICT_HT_INITIAL_SIZE)
                         [] Size(table) > 0 /\ used = Size(table) -> dictExpand(table, Size(table) * 2)
                         [] OTHER -> table

\* The position of the key in its chain, or 0.
dictFind(t, key) == IF Size(t) = 0 THEN 0 ELSE Position(t[Index(t, key)], key)

-----------------------------------------------------------------------------
Init == /\ table = [i \in {} |-> <<>>] /\ used = 0 /\ iter = NoIter /\ returned = {}
        /\ vals = 0 /\ freed = [v \in {} |-> 0] /\ map = [k \in {} |-> 0]

\* dictReplace: dictAdd, which may have expanded the table although the key is in it,
\* or else the new value for the old one, which is freed.
dictReplace(key) ==
  LET t == _dictExpandIfNeeded
      i == Index(t, key)
      at == dictFind(t, key)
      val == vals + 1
  IN /\ iter = NoIter /\ vals < MaxVals
     /\ vals' = val
     /\ IF at = 0
        THEN /\ table' = [t EXCEPT ![i] = <<[key |-> key, val |-> val]>> \o @]
             /\ used' = used + 1
             /\ freed' = [v \in 1..val |-> IF v = val THEN 0 ELSE freed[v]]
        ELSE /\ table' = [t EXCEPT ![i][at].val = val]
             /\ freed' = [v \in 1..val |-> IF v = val THEN 0
                                           ELSE freed[v] + IF v = t[i][at].val THEN 1 ELSE 0]
             /\ UNCHANGED used
     /\ map' = [k \in DOMAIN map \union {key} |-> IF k = key THEN val ELSE map[k]]
     /\ UNCHANGED <<iter, returned>>

\* Of an iterated table only the entry that dictNext has returned may be deleted.
dictDelete(key) ==
  /\ iter = NoIter \/ (iter.entry = key /\ key \in DOMAIN map)
  /\ LET at == dictFind(table, key) IN
     IF at = 0 THEN UNCHANGED <<table, used, freed>>
     ELSE LET i == Index(table, key) IN
          /\ table' = [table EXCEPT ![i] = Without(@, at)]
          /\ freed' = [freed EXCEPT ![table[i][at].val] = @ + 1]
          /\ used' = used - 1
  /\ map' = [k \in DOMAIN map \ {key} |-> map[k]]
  /\ UNCHANGED <<iter, returned, vals>>

\* dictRelease: the chains are cleared until no entry is left.
dictRelease ==
  /\ iter = NoIter /\ used > 0
  /\ LET before == [i \in DOMAIN table |-> Entries(table, 0..i - 1)]
         cleared == UNION {{e.val : e \in ToSet(table[i])} : i \in {j \in DOMAIN table : before[j] < used}}
     IN freed' = [v \in DOMAIN freed |-> freed[v] + IF v \in cleared THEN 1 ELSE 0]
  /\ table' = [i \in {} |-> <<>>] /\ used' = 0 /\ map' = [k \in {} |-> 0]
  /\ UNCHANGED <<iter, returned, vals>>

dictGetIterator == /\ iter = NoIter
                   /\ iter' = [NoIter EXCEPT !.index = -1]
                   /\ returned' = {}
                   /\ UNCHANGED <<table, used, vals, freed, map>>

\* dictNext keeps the successor of what it returns, as the user may delete that.
Returned(index, key) ==
  LET at == dictFind(table, key)
      chain == table[index]
  IN /\ iter' = [index |-> index, entry |-> key,
                 nextEntry |-> IF at = Len(chain) THEN NoKey ELSE chain[at + 1].key]
     /\ returned' = returned \union {key}
dictNext ==
  LET later == {i \in DOMAIN table : i > iter.index /\ table[i] # <<>>} IN
  /\ iter # NoIter
  /\ IF iter.nextEntry # NoKey THEN Returned(iter.index, iter.nextEntry)
     ELSE IF later # {} THEN Returned(Min(later), table[Min(later)][1].key)
     ELSE iter' = NoIter /\ UNCHANGED returned
  /\ UNCHANGED <<table, used, vals, freed, map>>

Next == \/ \E key \in Keys : dictReplace(key) \/ dictDelete(key)
        \/ dictRelease \/ dictGetIterator \/ dictNext

Spec == Init /\ [][Next]_vars
-----------------------------------------------------------------------------
\* The table has no chains, or a power of two of them.
TypeOK == /\ DOMAIN table = {} \/ DOMAIN table = 0.._dictNextPower(Size(table)) - 1
          /\ iter.entry \in Keys \union {NoKey} /\ vals \in 0..MaxVals

\* The chains hold the map, each entry where dictFind looks for it and nowhere else,
\* however often the table was expanded; each value that left it was freed once.
AgreesWithMap ==
  /\ used = Cardinality(DOMAIN map)
  /\ used = Entries(table, DOMAIN table)
  /\ \A key \in Keys :
       LET at == dictFind(table, key) IN
       IF key \in DOMAIN map THEN at # 0 /\ table[Index(table, key)][at].val = map[key] ELSE at = 0
  /\ \A v \in 1..vals : freed[v] = IF \E k \in DOMAIN map : map[k] = v THEN 0 ELSE 1

\* An iterator that ends has returned every entry, deleted ones included, and before
\* that returns none twice.
IteratesOnce ==
  [][/\ (iter # NoIter /\ iter' = NoIter => DOMAIN map \subseteq returned)
     /\ (iter' # NoIter /\ iter # NoIter /\ iter' # iter => iter'.entry \notin returned)]_vars
=============================================================================
