------------------------------- MODULE TimeWheel -------------------------------
(***************************************************************************)
(* The hierarchical timing wheel of timewheel.c with the threads of          *)
(* tw-timer.c: workers add timers, the main thread runs expire_timer until a *)
(* callback sets ctx.quit, then clears the wheel.                            *)
(*                                                                         *)
(* TI->lock makes each call one action, except that timer_execute releases   *)
(* it while it runs the callbacks.  The lists of the wheel are sets: no       *)
(* property depends on the order inside one slot.  add_timer with a time of   *)
(* at most 0 runs the callback at once and leaves the wheel as it is, so it   *)
(* has no action.  The 8 + 4 * 6 bits of the clock become NearShift +         *)
(* Levels * LevelShift bits.                                                 *)
(***************************************************************************)
EXTENDS Naturals

CONSTANTS
  Timers,      \* timer nodes malloc can hand out
  QuitTimer,   \* the one whose callback is do_quit
  NearShift,   \* TIME_NEAR_SHIFT
  LevelShift,  \* TIME_LEVEL_SHIFT
  Levels,      \* the number of arrays t[i] above near
  Delays,      \* add_timer's arguments: positive ints, so below half of Wrap
  MaxDiff      \* bound: ticks of the clock between two calls of expire_timer

VARIABLES
  time,     \* TI->time
  where,    \* "free", "wheel" or "batch" (unlinked, being dispatched)
  slot,     \* <<0, i>> for near[i], <<k, i>> for t[k - 1][i]
  expire, cancel,
  pc,       \* of the main thread: "poll", "execute", "dispatch" or "done"
  shifted,  \* timer_update is past timer_shift
  pending,  \* calls of timer_update that expire_timer still has to make
  quit      \* ctx.quit

vars == <<time, where, slot, expire, cancel, pc, shifted, pending, quit>>

Near == 2 ^ NearShift
Level == 2 ^ LevelShift
\* The first difference that does not fit into the arrays below t[k].
Span(k) == 2 ^ (NearShift + k * LevelShift)
Wrap == Span(Levels)

\* The slot index of clock value t in array t[k - 1].
Digit(t, k) == (t \div Span(k - 1)) % Level

Diff(e, now) == (e + Wrap - now) % Wrap

LevelFor(d) ==
  CHOOSE k \in 1..Levels : /\ d < Span(k) \/ k = Levels
                           /\ \A j \in 1..(k - 1) : d >= Span(j)

\* Mutant: a difference of exactly Near counts as near.
SlotForOffByOne(e, now) ==
  IF Diff(e, now) <= Near THEN <<0, e % Near>>
  ELSE LET k == LevelFor(Diff(e, now)) IN <<k, Digit(e, k)>>

\* add_node: the level by the distance, the index by the expiry itself.
SlotFor(e, now) ==
  IF Diff(e, now) < Near THEN <<0, e % Near>>
  ELSE LET k == LevelFor(Diff(e, now)) IN <<k, Digit(e, k)>>

Init == /\ time = 0
        /\ where = [n \in Timers |-> "free"]
        /\ slot = [n \in Timers |-> <<0, 0>>]
        /\ expire = [n \in Timers |-> 0]
        /\ cancel = [n \in Timers |-> FALSE]
        /\ pc = "poll" /\ shifted = FALSE /\ pending = 0 /\ quit = FALSE

\* timer_update holds the lock from timer_shift to its next callback.
Locked == pc = "execute" /\ shifted

\* add_timer.  node->cancel keeps whatever the memory held.
AddTimer(n, d) ==
  /\ where[n] = "free" /\ ~Locked
  /\ LET e == (d + time) % Wrap
     IN /\ expire' = [expire EXCEPT ![n] = e]
        /\ slot' = [slot EXCEPT ![n] = SlotFor(e, time)]
  /\ where' = [where EXCEPT ![n] = "wheel"]
  /\ \E garbage \in BOOLEAN : cancel' = [cancel EXCEPT ![n] = garbage]
  /\ UNCHANGED <<time, pc, shifted, pending, quit>>

\* del_timer, without the lock, by the owner of a timer that has not run.
DelTimer(n) ==
  /\ where[n] # "free" /\ ~cancel[n]
  /\ cancel' = [cancel EXCEPT ![n] = TRUE]
  /\ UNCHANGED <<time, where, slot, expire, pc, shifted, pending, quit>>

\* expire_timer finds that the clock has moved.
ExpireTimer ==
  /\ pc = "poll" /\ ~quit
  /\ pending' \in 1..MaxDiff
  /\ pc' = "execute"
  /\ UNCHANGED <<time, where, slot, expire, cancel, shifted, quit>>

In(s) == {n \in Timers : where[n] = "wheel" /\ slot[n] = s}

\* timer_execute: unlink the current slot and run it without the lock.
Execute ==
  LET now == In(<<0, time % Near>>)
  IN /\ pc = "execute" /\ now # {}
     /\ where' = [n \in Timers |-> IF n \in now THEN "batch" ELSE where[n]]
     /\ pc' = "dispatch"
     /\ UNCHANGED <<time, slot, expire, cancel, shifted, pending, quit>>

\* The nodes timer_shift moves down at clock value ct: at the first level
\* whose digit is not 0, and the last slot 0 when the clock wraps.
Cascaded(ct) ==
  IF ct = 0 THEN In(<<Levels, 0>>)
  ELSE {n \in Timers :
          /\ ct % Near = 0
          /\ \E k \in 1..Levels :
               /\ Digit(ct, k) # 0 /\ \A j \in 1..(k - 1) : Digit(ct, j) = 0
               /\ n \in In(<<k, Digit(ct, k)>>)}

TimerShift ==
  LET ct == (time + 1) % Wrap
  IN /\ pc = "execute" /\ ~shifted /\ In(<<0, time % Near>>) = {}
     /\ time' = ct
     /\ slot' = [n \in Timers |-> IF n \in Cascaded(ct) THEN SlotFor(expire[n], ct)
                                  ELSE slot[n]]
     /\ shifted' = TRUE
     /\ UNCHANGED <<where, expire, cancel, pc, pending, quit>>

\* The end of timer_update.
Updated ==
  /\ pc = "execute" /\ shifted /\ In(<<0, time % Near>>) = {}
  /\ shifted' = FALSE
  /\ pending' = pending - 1
  /\ pc' = IF pending = 1 THEN "poll" ELSE "execute"
  /\ UNCHANGED <<time, where, slot, expire, cancel, quit>>

\* Free the nodes of a set; their contents mean nothing from then on.
FreeNodes(set) ==
  LET Cleared(f, v) == [n \in Timers |-> IF n \in set THEN v ELSE f[n]]
  IN /\ where' = Cleared(where, "free") /\ slot' = Cleared(slot, <<0, 0>>)
     /\ expire' = Cleared(expire, 0) /\ cancel' = Cleared(cancel, FALSE)

\* dispatch_list: run the callback unless cancelled, free the node.
Dispatch(n) ==
  /\ pc = "dispatch" /\ where[n] = "batch"
  /\ FreeNodes({n})
  /\ quit' = (quit \/ (n = QuitTimer /\ ~cancel[n]))
  /\ pc' = IF \E m \in Timers \ {n} : where[m] = "batch" THEN pc ELSE "execute"
  /\ UNCHANGED <<time, shifted, pending>>

\* clear_timer, after the main loop; workers on their last round may still add.
ClearTimer ==
  /\ pc = "poll" /\ quit
  /\ FreeNodes(Timers)
  /\ pc' = "done"
  /\ UNCHANGED <<time, shifted, pending, quit>>

Next == \/ \E n \in Timers : \/ \E d \in Delays : AddTimer(n, d)
                             \/ DelTimer(n)
                             \/ Dispatch(n)
        \/ ExpireTimer \/ Execute \/ TimerShift \/ Updated \/ ClearTimer

Spec == Init /\ [][Next]_vars

-----------------------------------------------------------------------------
TypeOK ==
  /\ time \in 0..(Wrap - 1)
  /\ where \in [Timers -> {"free", "wheel", "batch"}]
  /\ slot \in [Timers -> (0..Levels) \X (0..(Near + Level))]
  /\ expire \in [Timers -> 0..(Wrap - 1)]
  /\ cancel \in [Timers -> BOOLEAN]
  /\ pc \in {"poll", "execute", "dispatch", "done"}
  /\ shifted \in BOOLEAN /\ quit \in BOOLEAN /\ pending \in 0..MaxDiff

\* timer_shift never looks at slot 0 of a middle level, while add_node, which
\* goes by distance, fills it when the expiry lies beyond the next multiple of
\* that level's span: such a timer is lost.
Stranded(n) == slot[n][1] \in 1..(Levels - 1) /\ slot[n][2] = 0

\* Every timer but the stranded ones is dispatched at the very tick it expires:
\* none is overdue, whatever cascades moved it, whenever it was added, and no
\* batch holds a timer of another tick (timewheel.c, timer_shift and add_node).
TimersOnTime ==
  \A n \in Timers :
    /\ where[n] = "batch" => expire[n] = time
    /\ where[n] = "wheel" /\ ~Stranded(n) /\ pc # "done" =>
         \/ Diff(expire[n], time) \in 1..(Wrap \div 2 - 1)
         \/ expire[n] = time /\ Locked /\ slot[n] = <<0, time % Near>>
=============================================================================
