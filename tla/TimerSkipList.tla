----------------------------- MODULE TimerSkipList -----------------------------
(***************************************************************************)
(* The timers of skl-timer.c on the skip list of skiplist.c, used by one     *)
(* thread.  The program and the callbacks add and delete timers;             *)
(* expire_timer runs the callback of the first node and then deletes         *)
(* whatever node is first.  A node that ran is never freed, and a client      *)
(* deletes a timer it added at most once, and not after it ran.              *)
(*                                                                         *)
(* The level of a node is random.  Sums of times do not wrap here.           *)
(***************************************************************************)
EXTENDS Naturals, Sequences

CONSTANTS
  Nodes,       \* the nodes malloc can hand out, numbered
  HEADER, NIL, \* zsl->header and NULL, numbers that are no nodes
  MaxLevel,    \* ZSKIPLIST_MAXLEVEL
  MaxTime,     \* bound of the clock
  MaxMsec      \* bound on add_timer's argument

VARIABLES
  forward,     \* forward[i][x]: x->level[i].forward, i from 0
  level,       \* zsl->level
  length,      \* zsl->length
  height,      \* levels of each node
  score,
  state,       \* "free", "live" (its owner may still delete it), "ran",
               \* "deleted" by its owner, or "freed" in another node's place
  now, cur, running, phase

vars == <<forward, level, length, height, score, state, now, cur, running, phase>>

Links == 0..(MaxLevel - 1)

\* The last node at link level i, from x on, whose score is below s.
Before(i, x, s) ==
  LET walk[y \in Nodes \union {HEADER}] ==
        IF forward[i][y] # NIL /\ score[forward[i][y]] < s THEN walk[forward[i][y]] ELSE y
  IN walk[x]

\* update[i] of zslInsert and zslDelete: each level starts where the one above
\* ended; levels above zsl->level start at the header.
Update(s) ==
  LET upd[j \in Links] ==     \* j counts downwards from the top
        LET i == MaxLevel - 1 - j
        IN IF i >= level THEN HEADER
           ELSE Before(i, IF j = 0 THEN HEADER ELSE upd[j - 1], s)
  IN [i \in Links |-> upd[MaxLevel - 1 - i]]

First == forward[0][HEADER]

\* The lowest level count under which the header has no empty levels.
Trimmed(fwd) ==
  CHOOSE l \in 1..level : /\ l = 1 \/ fwd[l - 1][HEADER] # NIL
                          /\ \A k \in (l + 1)..level : fwd[k - 1][HEADER] = NIL

Init == /\ forward = [i \in Links |-> [x \in Nodes \union {HEADER} |-> NIL]]
        /\ level = 1 /\ length = 0
        /\ height = [n \in Nodes |-> 0]
        /\ score = [n \in Nodes |-> 0]
        /\ state = [n \in Nodes |-> "free"]
        /\ now = 0 /\ cur = 0 /\ running = NIL /\ phase = "wait"

Tick == /\ now < MaxTime
        /\ now' = now + 1
        /\ UNCHANGED <<forward, level, length, height, score, state, cur, running, phase>>

UserCode == phase \in {"wait", "callback"}

\* Node n of height h after update[i] at each of its levels.
Linked(n, h, upd) ==
  [i \in Links |-> IF i < h THEN [forward[i] EXCEPT ![n] = forward[i][upd[i]], ![upd[i]] = n]
                   ELSE forward[i]]

\* add_timer with zslInsert: before the nodes with the same score.
AddTimer(n, msec, h) ==
  LET s == now + msec
  IN /\ UserCode /\ state[n] = "free" /\ \A m \in Nodes : state[m] = "free" => n <= m
     /\ forward' = Linked(n, h, Update(s))
     /\ level' = IF h > level THEN h ELSE level
     /\ length' = length + 1
     /\ height' = [height EXCEPT ![n] = h]
     /\ score' = [score EXCEPT ![n] = s]
     /\ state' = [state EXCEPT ![n] = "live"]
     /\ UNCHANGED <<now, cur, running, phase>>

\* Node x taken out of every list in which it follows prev[i].
Unlinked(x, prev) ==
  [i \in Links |-> IF i < level /\ forward[i][prev[i]] = x
                   THEN [forward[i] EXCEPT ![prev[i]] = forward[i][x], ![x] = NIL]
                   ELSE forward[i]]

Remove(x, prev) ==
  /\ forward' = Unlinked(x, prev)
  /\ level' = Trimmed(Unlinked(x, prev))
  /\ length' = length - 1

\* The node zslDelete(zn) finds: the first with zn's score.
Found(zn) == forward[0][Update(score[zn])[0]]

Hit(zn) == Found(zn) # NIL /\ score[Found(zn)] = score[zn]

\* Mutant: the node found is not compared with zn's score.
DelTimerUnchecked(zn) ==
  /\ UserCode /\ state[zn] = "live" /\ Found(zn) # NIL
  /\ Remove(Found(zn), Update(score[zn]))
  /\ state' = [state EXCEPT ![Found(zn)] = "freed", ![zn] = "deleted"]
  /\ UNCHANGED <<height, score, now, cur, running, phase>>

\* del_timer: the node found is unlinked and freed, which need not be zn.
DelTimer(zn) ==
  /\ UserCode /\ state[zn] = "live" /\ Hit(zn)
  /\ Remove(Found(zn), Update(score[zn]))
  /\ state' = [state EXCEPT ![Found(zn)] = "freed", ![zn] = "deleted"]
  /\ UNCHANGED <<height, score, now, cur, running, phase>>

\* The owner deletes a timer that is no longer in the list: nothing is found.
DelTimerGone(zn) ==
  /\ UserCode /\ state[zn] = "live" /\ ~Hit(zn)
  /\ state' = [state EXCEPT ![zn] = "deleted"]
  /\ UNCHANGED <<forward, level, length, height, score, now, cur, running, phase>>

BeginExpire ==
  /\ phase = "wait"
  /\ cur' = now /\ phase' = "expire"
  /\ UNCHANGED <<forward, level, length, height, score, state, now, running>>

DueNow == First # NIL /\ score[First] <= cur

EndExpire ==
  /\ phase = "expire" /\ ~DueNow
  /\ phase' = "wait" /\ cur' = 0
  /\ UNCHANGED <<forward, level, length, height, score, state, now, running>>

\* The callback of the first node starts, the node still in the list.
Callback ==
  /\ phase = "expire" /\ DueNow
  /\ running' = First /\ phase' = "callback"
  /\ UNCHANGED <<forward, level, length, height, score, state, now, cur>>

\* zslDeleteHead: the node that is first by now.
DeleteHead ==
  IF First # NIL THEN Remove(First, [i \in Links |-> HEADER])
  ELSE UNCHANGED <<forward, level, length>>

CallbackReturns ==
  /\ phase = "callback"
  /\ DeleteHead
  /\ state' = [state EXCEPT ![running] = IF @ = "live" THEN "ran" ELSE @]
  /\ running' = NIL /\ phase' = "expire"
  /\ UNCHANGED <<height, score, now, cur>>

Next == \/ Tick \/ BeginExpire \/ EndExpire \/ Callback \/ CallbackReturns
        \/ \E n \in Nodes : \/ \E msec \in 0..MaxMsec, h \in 1..MaxLevel : AddTimer(n, msec, h)
                            \/ DelTimer(n) \/ DelTimerGone(n)

Spec == Init /\ [][Next]_vars

-----------------------------------------------------------------------------
\* The nodes linked at level i, in order.
Chain(i) ==
  LET from[x \in Nodes \union {HEADER}] ==
        IF forward[i][x] = NIL THEN <<>> ELSE <<forward[i][x]>> \o from[forward[i][x]]
  IN from[HEADER]

InList(n) == \E i \in DOMAIN Chain(0) : Chain(0)[i] = n

TypeOK ==
  /\ forward \in [Links -> [Nodes \union {HEADER} -> Nodes \union {NIL}]]
  /\ level \in 1..MaxLevel /\ length \in Nat
  /\ height \in [Nodes -> 0..MaxLevel]
  /\ score \in [Nodes -> 0..(MaxTime + MaxMsec)]
  /\ state \in [Nodes -> {"free", "live", "ran", "deleted", "freed"}]
  /\ now \in 0..MaxTime /\ cur \in 0..now /\ running \in Nodes \union {NIL}
  /\ phase \in {"wait", "expire", "callback"}

\* The bottom list is sorted and as long as length says, and every higher list
\* holds, in the same order, the nodes of that height and no others, so that a
\* search from the top misses nothing (skiplist.c).
LevelsAgree ==
  /\ length = Len(Chain(0))
  /\ \A i \in 1..(length - 1) : score[Chain(0)[i]] <= score[Chain(0)[i + 1]]
  /\ \A i \in Links : Chain(i) = SelectSeq(Chain(0), LAMBDA n : height[n] > i)
  /\ \A i \in Links : i >= level => Chain(i) = <<>>

\* Another timer was set for the same time.
Tie(n) == \E m \in Nodes \ {n} : state[m] # "free" /\ score[m] = score[n]

\* A timer leaves the list when it has run, or when its owner deletes it:
\* unless another timer has the same score, which zslDelete and zslDeleteHead
\* cannot tell apart, or the running callback's own node is already gone.
NoTimerDropped ==
  [][\A n \in Nodes : InList(n) /\ ~InList(n)' =>
       \/ n = running
       \/ state[n] = "live" /\ state'[n] = "deleted"
       \/ Tie(n)
       \/ phase = "callback" /\ ~InList(running)]_vars
=============================================================================
