------------------------------- MODULE TimerTree -------------------------------
(***************************************************************************)
(* The timers of rbt-timer.h on the red-black tree of rbtree.c, used by the  *)
(* one thread of rbt-timer.c: find_nearest_expire_timer gives the time to    *)
(* wait, the program handles its events, and expire_timer runs the callback  *)
(* of the first timer before it deletes it.                                  *)
(*                                                                         *)
(* Times are uint32_t milliseconds, Wrap of them here; now counts on without  *)
(* wrapping and current_time is now % Wrap.  add_timer returns no handle: a   *)
(* program that deletes another timer has found its entry in the tree.  What  *)
(* happens after a callback deleted its own timer is undefined, because       *)
(* expire_timer deletes and frees it again.                                  *)
(***************************************************************************)
EXTENDS Integers, Sequences

CONSTANTS
  Nodes,          \* the timer_entry_t's malloc can hand out, numbered
  SENTINEL, NULL, \* no nodes; the sentinel has a colour and a parent too
  Wrap,           \* 2^32
  Start, MaxNow,  \* first and last reading of the clock
  MaxMsec         \* bound on add_timer's argument

VARIABLES
  tree,    \* root, and per node: child[side], parent, red, key
  entry,   \* "free" memory or "live"
  now,
  cur,     \* expire_timer's reading of the clock
  running, \* the timer whose callback runs, or NULL
  phase,   \* "start", "wait" (epoll_wait), "events", "expire", "callback",
           \* "dangling" (a callback that deleted its own timer) or "undefined"
  until,   \* when epoll_wait times out; Forever for -1
  due      \* history: when the timer is to run, without wrapping

vars == <<tree, entry, now, cur, running, phase, until, due>>

Forever == -1
Sides == {"left", "right"}
Other(side) == IF side = "left" THEN "right" ELSE "left"

SideOf(t, n) == IF t.child["left"][t.parent[n]] = n THEN "left" ELSE "right"

\* The link to old, in its parent or the root, points to new.
Relinked(t, old, new) ==
  IF old = t.root THEN [t EXCEPT !.root = new]
  ELSE [t EXCEPT !.child[SideOf(t, old)][t.parent[old]] = new]

\* ngx_rbtree_left_rotate and ngx_rbtree_right_rotate: n goes down on this side.
Rotate(t, n, side) ==
  LET up == t.child[Other(side)][n]
      inner == t.child[side][up]
  IN [Relinked(t, n, up) EXCEPT
        !.child[Other(side)][n] = inner,
        !.child[side][up] = n,
        !.parent = [m \in DOMAIN t.parent |-> CASE m = n -> up
                                                [] m = up -> t.parent[n]
                                                [] m = inner /\ m # SENTINEL -> n
                                                [] OTHER -> t.parent[m]]]

\* node->key < temp->key of ngx_rbtree_insert_timer_value, as a signed difference.
Signed(x) == IF x % Wrap >= Wrap \div 2 THEN (x % Wrap) - Wrap ELSE x % Wrap
KeyBefore(k, l) == Signed(k - l) < 0

\* The parent that the walk down from m finds for key k, and the side.
RECURSIVE Place(_, _, _)
Place(t, m, k) ==
  LET side == IF KeyBefore(k, t.key[m]) THEN "left" ELSE "right"
  IN IF t.child[side][m] = SENTINEL THEN [up |-> m, side |-> side]
     ELSE Place(t, t.child[side][m], k)

\* The re-balancing loop of ngx_rbtree_insert, from the red node n.
RECURSIVE InsertFixup(_, _)
InsertFixup(t, n) ==
  IF n = t.root \/ ~t.red[t.parent[n]] THEN [t EXCEPT !.red[t.root] = FALSE]
  ELSE LET up == t.parent[n]
           grand == t.parent[up]
           side == SideOf(t, up)
           uncle == t.child[Other(side)][grand]
           inner == n = t.child[Other(side)][up]
           outer == IF inner THEN Rotate(t, up, side) ELSE t
       IN IF t.red[uncle]
          THEN InsertFixup([t EXCEPT !.red[up] = FALSE, !.red[uncle] = FALSE,
                                     !.red[grand] = TRUE], grand)
          ELSE InsertFixup(Rotate([outer EXCEPT !.red[IF inner THEN n ELSE up] = FALSE,
                                                !.red[grand] = TRUE], grand, Other(side)),
                           IF inner THEN up ELSE n)

\* Node n with its key k as the child of up on this side; up is NULL for the root.
Leaf(t, n, k, up) ==
  [t EXCEPT !.child = [s \in Sides |-> [t.child[s] EXCEPT ![n] = SENTINEL]],
            !.parent[n] = up, !.key[n] = k]

\* ngx_rbtree_insert.
Inserted(t, n, k) ==
  IF t.root = SENTINEL THEN [Leaf(t, n, k, NULL) EXCEPT !.root = n, !.red[n] = FALSE]
  ELSE LET place == Place(t, t.root, k)
       IN InsertFixup([Leaf(t, n, k, place.up) EXCEPT
                         !.child[place.side][place.up] = n, !.red[n] = TRUE], n)

\* ngx_rbtree_min.
RECURSIVE Min(_, _)
Min(t, n) == IF t.child["left"][n] = SENTINEL THEN n ELSE Min(t, t.child["left"][n])

\* The fixup loop of ngx_rbtree_delete: the paths through n are one black short.
RECURSIVE DeleteFixup(_, _)
DeleteFixup(t, n) ==
  IF n = t.root \/ t.red[n] THEN [t EXCEPT !.red[n] = FALSE]
  ELSE LET up == t.parent[n]
           side == SideOf(t, n)
           far == Other(side)
           sibling == t.child[far][up]
           a == IF t.red[sibling]
                THEN Rotate([t EXCEPT !.red[sibling] = FALSE, !.red[up] = TRUE], up, side)
                ELSE t
           w == a.child[far][up]
           near == a.child[side][w]
           b == IF a.red[a.child[far][w]] THEN a
                ELSE Rotate([a EXCEPT !.red[near] = FALSE, !.red[w] = TRUE], w, far)
           v == b.child[far][up]
           c == Rotate([b EXCEPT !.red[v] = b.red[up], !.red[up] = FALSE,
                                 !.red[b.child[far][v]] = FALSE], up, side)
       IN IF ~a.red[near] /\ ~a.red[a.child[far][w]]
          THEN DeleteFixup([a EXCEPT !.red[w] = TRUE], up)
          ELSE [c EXCEPT !.red[c.root] = FALSE]

\* Node s, already cut off, takes the links, the colour and the place of n.
Substituted(t, n, s) ==
  [Relinked(t, n, s) EXCEPT
     !.child = [side \in Sides |-> [@[side] EXCEPT ![s] = t.child[side][n]]],
     !.red[s] = t.red[n],
     !.parent = [m \in DOMAIN t.parent |->
                   CASE m = s -> t.parent[n]
                     [] m # SENTINEL /\ \E side \in Sides : m = t.child[side][n] -> s
                     [] OTHER -> t.parent[m]]]

\* The deleted node's fields are cleared, and it is freed.
Cleared(t, n) ==
  [t EXCEPT !.child = [side \in Sides |-> [@[side] EXCEPT ![n] = NULL]],
            !.parent[n] = NULL, !.key[n] = 0, !.red[n] = FALSE]

\* ngx_rbtree_delete: subst is n or the next node, temp its only child, which
\* may be the sentinel.  A node that becomes the root here keeps its parent field.
Deleted(t, n) ==
  LET lone == \E side \in Sides : t.child[side][n] = SENTINEL
      subst == IF lone THEN n ELSE Min(t, t.child["right"][n])
      temp == t.child[IF t.child["left"][subst] = SENTINEL THEN "right" ELSE "left"][subst]
      cut == [Relinked(t, subst, temp) EXCEPT
                !.parent[temp] = IF ~lone /\ t.parent[subst] = n THEN subst
                                 ELSE t.parent[subst]]
      rest == Cleared(IF lone THEN cut ELSE Substituted(cut, n, subst), n)
  IN IF subst = t.root THEN Cleared([t EXCEPT !.root = temp, !.red[temp] = FALSE], n)
     ELSE IF t.red[subst] THEN rest ELSE DeleteFixup(rest, temp)

Empty(all) == [root |-> SENTINEL,
               child |-> [side \in Sides |-> [n \in all |-> NULL]],
               parent |-> [n \in all |-> NULL],
               red |-> [n \in all |-> FALSE],
               key |-> [n \in all |-> 0]]

\* init_timer.
Init == /\ tree = Empty(Nodes \union {SENTINEL})
        /\ entry = [n \in Nodes |-> "free"]
        /\ due = [n \in Nodes |-> 0]
        /\ now = Start /\ cur = 0 /\ running = NULL /\ phase = "start" /\ until = 0

Tick == /\ now < MaxNow /\ phase # "undefined"
        /\ now' = now + 1
        /\ UNCHANGED <<tree, entry, cur, running, phase, until, due>>

UserCode == phase \in {"start", "events", "callback", "dangling"}

\* add_timer; which free memory malloc picks does not matter: the lowest.
AddTimer(n, msec) ==
  /\ UserCode /\ entry[n] = "free" /\ \A m \in Nodes : entry[m] = "free" => n <= m
  /\ tree' = Inserted(tree, n, (now + msec) % Wrap)
  /\ due' = [due EXCEPT ![n] = now + msec]
  /\ entry' = [entry EXCEPT ![n] = "live"]
  /\ UNCHANGED <<now, cur, running, phase, until>>

\* The tree without n, and n freed.
Dropped(n) ==
  /\ tree' = Deleted(tree, n)
  /\ entry' = [entry EXCEPT ![n] = "free"]
  /\ due' = [due EXCEPT ![n] = 0]

\* del_timer.
DelTimer(n) ==
  /\ UserCode /\ entry[n] = "live"
  /\ Dropped(n)
  /\ phase' = IF phase = "callback" /\ n = running THEN "dangling" ELSE phase
  /\ UNCHANGED <<now, cur, running, until>>

First == Min(tree, tree.root)

\* find_nearest_expire_timer, before epoll_wait.
Timeout == IF tree.root = SENTINEL THEN Forever
           ELSE LET diff == Signed(tree.key[First] - now)
                IN now + (IF diff > 0 THEN diff ELSE 0)

Sleep == /\ phase' = "wait" /\ until' = Timeout
         /\ UNCHANGED <<tree, entry, now, cur, running, due>>

EnterLoop == phase = "start" /\ Sleep

\* epoll_wait returns, at its timeout or with events.
Wake == /\ phase = "wait"
        /\ phase' = "events" /\ until' = 0
        /\ UNCHANGED <<tree, entry, now, cur, running, due>>

\* expire_timer reads the clock once.
BeginExpire == /\ phase = "events"
               /\ cur' = now /\ phase' = "expire"
               /\ UNCHANGED <<tree, entry, now, running, until, due>>

\* Keys are compared as they are here, although the tree is ordered by their
\* signed differences.
Due == tree.root # SENTINEL /\ tree.key[First] <= cur % Wrap

EndExpire == phase = "expire" /\ ~Due /\ Sleep

\* The callback of the first timer starts, the timer still in the tree.
Callback == /\ phase = "expire" /\ Due
            /\ running' = First /\ phase' = "callback"
            /\ UNCHANGED <<tree, entry, now, cur, until, due>>

\* The callback returns: its timer is deleted and freed.
CallbackReturns ==
  /\ phase = "callback"
  /\ Dropped(running)
  /\ running' = NULL /\ phase' = "expire"
  /\ UNCHANGED <<now, cur, until>>

\* A freed timer is deleted and freed again.
CallbackReturnsDangling ==
  /\ phase = "dangling"
  /\ phase' = "undefined"
  /\ UNCHANGED <<tree, entry, now, cur, running, until, due>>

Next == \/ Tick \/ EnterLoop \/ Wake \/ BeginExpire \/ EndExpire
        \/ Callback \/ CallbackReturns \/ CallbackReturnsDangling
        \/ \E n \in Nodes : DelTimer(n) \/ \E msec \in 0..MaxMsec : AddTimer(n, msec)

Spec == Init /\ [][Next]_vars

-----------------------------------------------------------------------------
Live == {n \in Nodes : entry[n] = "live"}

\* The nodes below n, in order.
RECURSIVE InOrder(_)
InOrder(n) == IF n = SENTINEL THEN <<>>
              ELSE InOrder(tree.child["left"][n]) \o <<n>> \o InOrder(tree.child["right"][n])

\* The numbers of black nodes on the paths from n down to the sentinel.
RECURSIVE Blacks(_)
Blacks(n) == IF n = SENTINEL THEN {0}
             ELSE {b + (IF tree.red[n] THEN 0 ELSE 1) :
                     b \in UNION {Blacks(tree.child[side][n]) : side \in Sides}}

TypeOK ==
  LET all == Nodes \union {SENTINEL}
  IN /\ tree.root \in all
     /\ tree.child \in [Sides -> [all -> all \union {NULL}]]
     /\ tree.parent \in [all -> all \union {NULL}]
     /\ tree.red \in [all -> BOOLEAN] /\ tree.key \in [all -> 0..(Wrap - 1)]
     /\ entry \in [Nodes -> {"free", "live"}]
     /\ now \in Start..MaxNow /\ cur \in 0..now /\ until \in Int
     /\ running \in Nodes \union {NULL}
     /\ phase \in {"start", "wait", "events", "expire", "callback", "dangling", "undefined"}

\* After any insertions and deletions the tree holds exactly the live timers in
\* the order they are due, also across the wrap of the clock; every node but
\* the root has its parent; no red node has a red child, every path has as many
\* black nodes, and the shared sentinel is black (rbtree.c).
TreeBalanced ==
  LET order == InOrder(tree.root)
  IN /\ {order[i] : i \in DOMAIN order} = Live
     /\ \A i \in DOMAIN order : i > 1 => due[order[i - 1]] <= due[order[i]]
     /\ \A n \in Live, side \in Sides :
          LET m == tree.child[side][n]
          IN m # SENTINEL => tree.parent[m] = n /\ ~(tree.red[n] /\ tree.red[m])
     /\ \E b \in 0..Len(order) : Blacks(tree.root) = {b}
     /\ ~tree.red[tree.root] /\ ~tree.red[SENTINEL]

\* A timer from before the clock wrapped is first and does not run.
Stuck == \E n \in Live : due[n] \div Wrap < now \div Wrap

\* While the loop sleeps, every timer due when expire_timer began has run, and
\* the loop wakes up when the first of the others is due; a callback runs when
\* its timer is due.  The exceptions come from the wrap of the clock, which
\* find_nearest_expire_timer and the tree allow for and expire_timer does not:
\* a timer for after the wrap runs at once, and one left from before it stops
\* all others.
TreeTimersOnTime ==
  /\ phase = "callback" =>
       due[running] <= cur \/ due[running] \div Wrap > cur \div Wrap
  /\ phase = "wait" => \A n \in Live : \/ Stuck
                                       \/ due[n] > cur /\ until # Forever
                                            /\ (until <= due[n] \/ due[n] < now)
=============================================================================
