------------------------------- MODULE TimerHeap -------------------------------
(***************************************************************************)
(* The timers of mh-timer.h on the binary heap of minheap.c, used by one     *)
(* thread: add_timer and del_timer, from the program or from a callback, and *)
(* expire_timer, which runs the callback of the top entry before it pops.    *)
(*                                                                         *)
(* Times are uint32_t milliseconds, Wrap of them here.  What the program does *)
(* after it reaches memory it has freed is undefined: phase "undefined" ends  *)
(* the behaviour.                                                           *)
(***************************************************************************)
EXTENDS Integers

CONSTANTS
  Entries,   \* the timer_entry_t's malloc can hand out, numbered
  NoEntry,
  Wrap,      \* 2^32
  MaxMsec    \* bound on add_timer's argument

VARIABLES
  p,         \* s->p[0 .. n - 1]; its domain is 0 .. n - 1
  idx,       \* min_heap_idx, -1 when not in the heap
  entry,     \* "free" memory, "live", or "deleted" by del_timer, which frees nothing
  etime,     \* te->time
  now,       \* the clock; the behaviour ends before it wraps
  cur,       \* expire_timer's reading of the clock
  running,   \* the entry whose callback runs
  phase,     \* "wait", "expire", "callback" or "undefined"
  due        \* history: when the timer is to run, without wrapping

vars == <<p, idx, entry, etime, now, cur, running, phase, due>>

Size == IF DOMAIN p = {} THEN 0 ELSE 1 + (CHOOSE i \in DOMAIN p : i + 1 \notin DOMAIN p)
Parent(i) == (i - 1) \div 2
Greater(a, b) == etime[a] > etime[b]
Top == p[0]
Cut(f, n) == [i \in 0..(n - 1) |-> f[i]]

\* Entry e moved to position i of heap h: its index follows.
Move(h, i, e) == [arr |-> [h.arr EXCEPT ![i] = e], pos |-> [h.pos EXCEPT ![e] = i]]

\* min_heap_shift_up_ with e's key t: the ancestors of the hole that are greater
\* come down one by one.
ShiftUp(h, hole, e, t) ==
  LET up[i \in 0..hole] ==
        IF i > 0 /\ etime[h.arr[Parent(i)]] > t
        THEN Move(up[Parent(i)], i, h.arr[Parent(i)])
        ELSE Move(h, i, e)
  IN up[hole]

\* min_heap_shift_down_: below the hole the smaller child goes up while it is
\* smaller than e; n is the size of the heap.
ShiftDown(h, hole, e, n) ==
  LET Child(i) == IF 2 * i + 2 = n \/ Greater(h.arr[2 * i + 2], h.arr[2 * i + 1])
                  THEN 2 * i + 1 ELSE 2 * i + 2
      down[i \in 0..(n + 1)] ==
        IF 2 * i + 2 <= n /\ Greater(e, h.arr[Child(i)])
        THEN Move(down[Child(i)], i, h.arr[Child(i)])
        ELSE Move(h, i, e)
  IN down[hole]

Heap == [arr |-> p, pos |-> idx]

\* The heap after a call; the last slot is cut off when the size shrank.
Becomes(h, n) == p' = Cut(h.arr, n) /\ idx' = h.pos

Init == /\ p = [i \in {} |-> NoEntry]
        /\ idx = [e \in Entries |-> -1]
        /\ entry = [e \in Entries |-> "free"]
        /\ etime = [e \in Entries |-> 0]
        /\ due = [e \in Entries |-> 0]
        /\ now = 0 /\ cur = 0 /\ running = NoEntry /\ phase = "wait"

Tick == /\ now < Wrap - 1 /\ phase # "undefined"
        /\ now' = now + 1
        /\ UNCHANGED <<p, idx, entry, etime, cur, running, phase, due>>

\* The program's own code runs between two expire_timers and in callbacks.
UserCode == phase \in {"wait", "callback"}

\* add_timer; a failing malloc or realloc leaves everything as it was.  Which
\* free memory malloc picks does not matter: the lowest.
AddTimer(e, msec) ==
  LET t == (now + msec) % Wrap
      room == [i \in 0..Size |-> IF i = Size THEN e ELSE p[i]]
  IN /\ UserCode /\ entry[e] = "free" /\ \A f \in Entries : entry[f] = "free" => e <= f
     /\ etime' = [etime EXCEPT ![e] = t]
     /\ due' = [due EXCEPT ![e] = now + msec]
     /\ entry' = [entry EXCEPT ![e] = "live"]
     /\ Becomes(ShiftUp([Heap EXCEPT !.arr = room], Size, e, t), Size + 1)
     /\ UNCHANGED <<now, cur, running, phase>>

\* Mutant: the last element always goes down from e's place.
EraseDownOnly(e) ==
  LET h == ShiftDown(Heap, idx[e], p[Size - 1], Size - 1)
  IN Becomes([h EXCEPT !.pos[e] = -1], Size - 1)

\* min_heap_erase_: the last element takes e's place and moves up or down.
Erase(e) ==
  LET last == p[Size - 1]
      h == IF idx[e] > 0 /\ Greater(p[Parent(idx[e])], last)
           THEN ShiftUp(Heap, idx[e], last, etime[last])
           ELSE ShiftDown(Heap, idx[e], last, Size - 1)
  IN Becomes([h EXCEPT !.pos[e] = -1], Size - 1)

\* del_timer; FALSE for an entry that is not in the heap.
DelTimer(e) ==
  /\ UserCode /\ entry[e] = "live" /\ idx[e] # -1
  /\ entry' = [entry EXCEPT ![e] = "deleted"]
  /\ Erase(e)
  /\ UNCHANGED <<etime, now, cur, running, phase, due>>

\* expire_timer reads the clock once.
BeginExpire ==
  /\ phase = "wait"
  /\ cur' = now /\ phase' = "expire"
  /\ UNCHANGED <<p, idx, entry, etime, now, running, due>>

Due == Size > 0 /\ etime[Top] <= cur

EndExpire ==
  /\ phase = "expire" /\ ~Due
  /\ phase' = "wait" /\ cur' = 0
  /\ UNCHANGED <<p, idx, entry, etime, now, running, due>>

\* The callback of the top entry starts, the entry still in the heap.
Callback ==
  /\ phase = "expire" /\ Due
  /\ running' = Top /\ phase' = "callback"
  /\ UNCHANGED <<p, idx, entry, etime, now, cur, due>>

\* min_heap_pop_: whatever is on top by now.
Pop ==
  IF Size = 0 THEN UNCHANGED <<p, idx>>
  ELSE LET h == ShiftDown(Heap, 0, p[Size - 1], Size - 1)
       IN Becomes([h EXCEPT !.pos[Top] = -1], Size - 1)

\* The callback returns: pop, then free the entry that ran.
CallbackReturns ==
  /\ phase = "callback"
  /\ Pop
  /\ entry' = [entry EXCEPT ![running] = "free"]
  /\ running' = NoEntry
  /\ etime' = [etime EXCEPT ![running] = 0]
  /\ due' = [due EXCEPT ![running] = 0]
  /\ phase' = IF idx'[running] = -1 THEN "expire" ELSE "undefined"
  /\ UNCHANGED <<now, cur>>

Next == \/ Tick \/ BeginExpire \/ EndExpire \/ Callback \/ CallbackReturns
        \/ \E e \in Entries : DelTimer(e) \/ \E msec \in 0..MaxMsec : AddTimer(e, msec)

Spec == Init /\ [][Next]_vars

-----------------------------------------------------------------------------
InHeap(e) == \E i \in DOMAIN p : p[i] = e
Wrapped(e) == due[e] # etime[e]

TypeOK == /\ DOMAIN p = 0..(Size - 1) /\ \A i \in DOMAIN p : p[i] \in Entries
          /\ idx \in [Entries -> -1..Size]
          /\ entry \in [Entries -> {"free", "live", "deleted"}]
          /\ etime \in [Entries -> 0..(Wrap - 1)] /\ now \in 0..(Wrap - 1)
          /\ cur <= now /\ running \in Entries \union {NoEntry}
          /\ phase \in {"wait", "expire", "callback", "undefined"}

\* The heap is ordered, and every entry knows its place, also while a callback
\* that added and deleted timers is running (minheap.c).
HeapIndexed ==
  phase # "undefined" =>
    /\ \A i \in DOMAIN p : i > 0 => ~Greater(p[Parent(i)], p[i])
    /\ \A e \in Entries : InHeap(e) <=> idx[e] # -1
    /\ \A i \in DOMAIN p : idx[p[i]] = i

\* A timer runs when it is due, and leaves the heap only by running or by
\* del_timer: unless the callback that returns had deleted its own timer, in
\* which case the pop of expire_timer drops another one, or a time wrapped.
NoTimerDropped ==
  [][/\ phase' = "callback" => due[running'] <= now \/ Wrapped(running')
     /\ \A e \in Entries : InHeap(e) /\ ~InHeap(e)' =>
          \/ e = running \/ entry'[e] = "deleted"
          \/ entry[running] = "deleted" \/ \E w \in Entries : Wrapped(w)]_vars
=============================================================================
