--------------------------------- MODULE YPipe ---------------------------------
(***************************************************************************)
(* The one-writer one-reader pipe of ypipe.hpp on the chunked queue of       *)
(* yqueue.hpp, with the condition variable that the test                      *)
(* (4_test_lock_free_queue.cpp) puts around it: the producer notifies when    *)
(* flush says that the reader is asleep and once more at its end; a consumer  *)
(* that reads nothing locks the mutex and waits, without reading again.       *)
(*                                                                         *)
(* A pointer into the queue is an address <<chunk, position>>.  Each access   *)
(* to c and to spare_chunk, the only shared variables, is in an action of     *)
(* its own; the rest of a step is private to its thread.  Items are their     *)
(* numbers, written in order.                                               *)
(***************************************************************************)
EXTENDS Naturals, FiniteSets

CONSTANTS
  N,          \* items per chunk
  Chunks,     \* the chunks malloc can hand out, numbered from 1
  MaxItems    \* items the producer writes

NULL == <<0, 0>>

VARIABLES
  begin, back, end,     \* begin_chunk/begin_pos, back_..., end_...
  next, prev,           \* the links of the chunks, 0 for NULL
  values,               \* values[a] for address a
  spare_chunk,          \* 0 or a chunk
  allocated,            \* chunks that are not freed
  w, f, r, c,           \* the pointers of ypipe_t
  producer,             \* "write", "set", "notify" or "done"
  consumer,             \* "read", "pop", "toWait", "wait", "done", or "gone" with the pipe
  items, popped,        \* items in or through the pipe, items read
  flushed,              \* history: items flushed
  lastRead,             \* history: the item read last
  early                 \* history: the notify came between the failed read and the wait

queue == <<begin, back, end, next, prev, values, spare_chunk, allocated>>
vars == <<queue, w, f, r, c, producer, consumer, items, popped, flushed, lastRead, early>>

\* The constructor has already pushed the terminator.
Init == /\ begin = <<1, 0>> /\ back = <<1, 0>> /\ end = <<1, 1>>
        /\ next = [k \in Chunks |-> 0] /\ prev = [k \in Chunks |-> 0]
        /\ values = [a \in Chunks \X (0..(N - 1)) |-> 0]
        /\ spare_chunk = 0 /\ allocated = {1}
        /\ w = <<1, 0>> /\ f = <<1, 0>> /\ r = <<1, 0>> /\ c = <<1, 0>>
        /\ producer = "write" /\ consumer = "read"
        /\ items = 0 /\ popped = 0 /\ flushed = 0 /\ lastRead = 0 /\ early = FALSE

-----------------------------------------------------------------------------
\* atomic_ptr_t, whose cas leaves a pointer that is not cmp as it is.
Set(val) == c' = val
Cas(cmp, val) == c' = IF c = cmp THEN val ELSE c
Xchg(chunk) == spare_chunk' = chunk

\* yqueue_t::push: the end moves on, into the spare chunk or a new one when the
\* last chunk is full.
Push ==
  /\ back' = end
  /\ IF end[2] + 1 # N
     THEN /\ end' = <<end[1], end[2] + 1>>
          /\ UNCHANGED <<next, prev, spare_chunk, allocated>>
     ELSE LET k == IF spare_chunk # 0 THEN spare_chunk
                   ELSE CHOOSE j \in Chunks \ allocated :
                          \A i \in Chunks \ allocated : j <= i
          IN /\ end' = <<k, 0>>
             /\ next' = [next EXCEPT ![end[1]] = k] /\ prev' = [prev EXCEPT ![k] = end[1]]
             /\ allocated' = allocated \union {k}
             /\ Xchg(0)

\* write; only a complete item moves f.
Write(incomplete) ==
  /\ producer = "write" /\ items < MaxItems
  /\ incomplete => items < MaxItems - 1
  /\ values' = [values EXCEPT ![back] = items + 1]
  /\ Push
  /\ f' = IF incomplete THEN f ELSE end
  /\ items' = items + 1
  /\ UNCHANGED <<begin, w, r, c, producer, consumer, popped, flushed, lastRead, early>>

\* yqueue_t::unpush: a chunk left empty at the end is freed.
Unpush ==
  /\ back' = IF back[2] > 0 THEN <<back[1], back[2] - 1>> ELSE <<prev[back[1]], N - 1>>
  /\ IF end[2] > 0
     THEN end' = <<end[1], end[2] - 1>> /\ UNCHANGED <<next, allocated>>
     ELSE /\ end' = <<prev[end[1]], N - 1>>
          /\ next' = [next EXCEPT ![prev[end[1]]] = 0]
          /\ allocated' = allocated \ {end[1]}

\* unwrite: an incomplete item is taken back.
Unwrite ==
  /\ producer = "write" /\ f # back
  /\ Unpush
  /\ items' = items - 1
  /\ UNCHANGED <<begin, prev, values, spare_chunk, w, f, r, c, producer, consumer, popped,
                 flushed, lastRead, early>>

\* The items below address f have all been made visible (f only ever stands
\* behind a complete item).
FlushedUpTo == IF f = back THEN items ELSE values[f] - 1

\* flush: the compare-and-swap of c succeeds, or fails because c is NULL.
FlushCas ==
  /\ producer = "write" /\ w # f
  /\ Cas(w, f)
  /\ IF c = w THEN w' = f /\ flushed' = FlushedUpTo /\ UNCHANGED producer
     ELSE producer' = "set" /\ UNCHANGED <<w, flushed>>
  /\ UNCHANGED <<queue, f, r, consumer, items, popped, lastRead, early>>

\* The reader is asleep: c is set, flush returns FALSE.
FlushSet ==
  /\ producer = "set"
  /\ Set(f) /\ w' = f /\ flushed' = FlushedUpTo
  /\ producer' = "notify"
  /\ UNCHANGED <<queue, f, r, consumer, items, popped, lastRead, early>>

\* The producer notifies: after a FALSE flush, and once when it has written all.
Notify ==
  /\ \/ producer = "notify" /\ producer' = "write"
     \/ producer = "write" /\ items = MaxItems /\ w = f /\ f = back /\ producer' = "done"
  /\ consumer' = IF consumer = "wait" THEN "read" ELSE consumer
  /\ early' = (consumer = "toWait")
  /\ UNCHANGED <<queue, w, f, r, c, items, popped, flushed, lastRead>>

\* check_read with nothing prefetched: fetch c, and set it to NULL if it holds
\* nothing new.  (After a spurious wakeup c, and then r, is NULL already.)
CheckRead ==
  /\ consumer = "read" /\ r \in {begin, NULL}
  /\ r' = c
  /\ Cas(begin, NULL)
  /\ consumer' = IF c \in {begin, NULL} THEN "toWait" ELSE "pop"
  /\ UNCHANGED <<queue, w, f, producer, items, popped, flushed, lastRead, early>>

\* check_read finds the item prefetched.
Prefetched ==
  /\ consumer = "read" /\ r \notin {begin, NULL}
  /\ consumer' = "pop"
  /\ UNCHANGED <<queue, w, f, r, c, producer, items, popped, flushed, lastRead, early>>

\* yqueue_t::pop: an emptied chunk becomes the spare one, and the spare one of
\* before is freed.
PopFront ==
  IF begin[2] + 1 = N
  THEN /\ begin' = <<next[begin[1]], 0>>
       /\ prev' = [prev EXCEPT ![next[begin[1]]] = 0]
       /\ Xchg(begin[1])
       /\ allocated' = allocated \ ({spare_chunk} \ {0})
  ELSE /\ begin' = <<begin[1], begin[2] + 1>>
       /\ UNCHANGED <<prev, spare_chunk, allocated>>

\* read, when check_read has found an item.  The consumer stops when it has read
\* everything.
Pop ==
  /\ consumer = "pop"
  /\ lastRead' = values[begin]
  /\ PopFront
  /\ popped' = popped + 1
  /\ consumer' = IF popped + 1 = MaxItems THEN "done" ELSE "read"
  /\ UNCHANGED <<back, end, next, values, w, f, r, c, producer, items, flushed, early>>

\* After a failed read the consumer waits, come what may.
Wait == /\ consumer = "toWait" /\ consumer' = "wait"
        /\ UNCHANGED <<queue, w, f, r, c, producer, items, popped, flushed, lastRead, early>>

Spurious == /\ consumer = "wait" /\ consumer' = "read" /\ early' = FALSE
            /\ UNCHANGED <<queue, w, f, r, c, producer, items, popped, flushed, lastRead>>

\* The chunks from begin_chunk to end_chunk.
Linked ==
  LET chunk[i \in Nat] == IF i = 0 THEN begin[1]
                          ELSE IF chunk[i - 1] \in {0, end[1]} THEN 0 ELSE next[chunk[i - 1]]
  IN {chunk[i] : i \in 0..Cardinality(Chunks)} \ {0}

\* ~yqueue_t, when the threads are joined.
Destroy ==
  /\ producer = "done" /\ consumer = "done" /\ consumer' = "gone"
  /\ allocated' = allocated \ (Linked \union {spare_chunk})
  /\ begin' = end /\ Xchg(0)
  /\ UNCHANGED <<back, end, next, prev, values, w, f, r, c, producer, items, popped, flushed,
                 lastRead, early>>

Next == \/ \E incomplete \in BOOLEAN : Write(incomplete)
        \/ Unwrite \/ FlushCas \/ FlushSet \/ Notify
        \/ CheckRead \/ Prefetched \/ Pop \/ Wait \/ Spurious \/ Destroy

Spec == Init /\ [][Next]_vars

-----------------------------------------------------------------------------
Addresses == Chunks \X (0..(N - 1))

TypeOK ==
  /\ {begin, back, end, w, f} \subseteq Addresses /\ {r, c} \subseteq Addresses \union {NULL}
  /\ next \in [Chunks -> Chunks \union {0}] /\ prev \in [Chunks -> Chunks \union {0}]
  /\ values \in [Addresses -> 0..MaxItems]
  /\ spare_chunk \in Chunks \union {0} /\ allocated \subseteq Chunks
  /\ producer \in {"write", "set", "notify", "done"}
  /\ consumer \in {"read", "pop", "toWait", "wait", "done", "gone"}
  /\ items \in 0..MaxItems /\ popped \in 0..MaxItems /\ flushed \in 0..MaxItems
  /\ lastRead \in 0..MaxItems /\ early \in BOOLEAN

\* The reader gets every item, once, in the order written, never one that is
\* not flushed (so never an incomplete one or one that may be taken back), and
\* no chunk in use has been freed or is about to be reused, whichever chunks
\* the two threads hand each other through spare_chunk; none is lost, and none is
\* left when the pipe is destroyed (ypipe.hpp, yqueue.hpp).
ReadsWhatWasFlushed ==
  /\ lastRead = popped /\ popped <= flushed
  /\ consumer # "gone" =>
       /\ {begin[1], back[1], end[1], w[1], f[1]} \subseteq Linked
       /\ spare_chunk \notin Linked
       /\ allocated = Linked \union ({spare_chunk} \ {0})
  /\ consumer = "gone" => allocated = {}

\* The reader is never left asleep while flushed items are waiting for it,
\* unless the producer is about to notify it or has notified it between the
\* failed read and the wait (flush; the two threads of the condition test).
AsleepOnlyWhenEmpty ==
  consumer = "wait" /\ popped < flushed => producer = "notify" \/ early
=============================================================================
