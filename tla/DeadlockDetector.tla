--------------------------- MODULE DeadlockDetector ---------------------------
(***************************************************************************)
(* The deadlock detector of deadlock_success.c with its test.  Hooks around   *)
(* pthread_mutex_lock and pthread_mutex_unlock keep a list of held locks and  *)
(* a graph of who waits for whom, in which a checker thread looks for cycles.  *)
(* The hooks run before and after the real call, outside of the mutex: each   *)
(* hook and each real call is an action.  (The hooks are not synchronised      *)
(* with each other; here each is one step.)                                  *)
(*                                                                         *)
(* In the test thread t locks mutex t and then mutex t + 1, in a ring, and     *)
(* unlocks them in the opposite order.                                       *)
(***************************************************************************)
EXTENDS Integers, Sequences, SequencesExt, FiniteSetsExt

CONSTANT N          \* threads and mutexes, numbered from 1

Threads == 1..N
NOBODY == 0

VARIABLES
  locklist,   \* entries [id, lock_id, degress]; its length is lockidx
  edges,      \* the adjacency lists of the graph, a set of <<from, to>>
  vertices,   \* the list of the graph
  owner,      \* the real mutexes
  seen,       \* history: threads that found the real owner on record when they came
  step, pc    \* per thread: its place in the routine, and in the hooked call

vars == <<locklist, edges, vertices, owner, seen, step, pc>>

Free == [id |-> NOBODY, lock_id |-> 0, degress |-> 0]

\* The thread_rountine_* functions.
First(t) == t
Second(t) == (t % N) + 1
Routine(t) == << <<"lock", First(t)>>, <<"lock", Second(t)>>,
                 <<"unlock", Second(t)>>, <<"unlock", First(t)>> >>
Op(t) == Routine(t)[step[t]][1]
Mutex(t) == Routine(t)[step[t]][2]

Init == /\ locklist = <<>> /\ edges = {} /\ vertices = {}
        /\ owner = [m \in Threads |-> NOBODY]
        /\ seen = {}
        /\ step = [t \in Threads |-> 1]
        /\ pc = [t \in Threads |-> "before"]

search_lock(lock) == SelectInSeq(locklist, LAMBDA entry : entry.lock_id = lock)
search_empty_lock == SelectInSeq(locklist, LAMBDA entry : entry.lock_id = 0)

\* add_vertex, of both ends of an edge; search_vertex finds those that are there.
add_vertices(from, to) == vertices' = vertices \union {from, to}

\* verify_edge compares the vertex itself, too.
verify_edge(from, to) == from = to \/ <<from, to>> \in edges
add_edge(from, to) == edges' = edges \union {<<from, to>>}

\* An edge that is not there is no error.
remove_edge(from, to) == edges' = edges \ {<<from, to>>}

-----------------------------------------------------------------------------
NextOp(t) == /\ step' = [step EXCEPT ![t] = @ + 1]
             /\ pc' = [pc EXCEPT ![t] = IF step[t] = 4 THEN "done"
                                        ELSE IF Routine(t)[step[t] + 1][1] = "lock"
                                             THEN "before" ELSE "call"]

\* lock_before: an edge to the thread that is on record as the holder.  (No mutex
\* has two entries.)
LockBefore(t) ==
  /\ pc[t] = "before"
  /\ LET i == search_lock(Mutex(t)) IN
       IF i = 0
       THEN UNCHANGED <<locklist, edges, vertices>>
       ELSE /\ locklist' = [locklist EXCEPT ![i].degress = @ + 1]
            /\ add_vertices(t, locklist[i].id)
            /\ IF verify_edge(t, locklist[i].id) THEN UNCHANGED edges
               ELSE add_edge(t, locklist[i].id)
  /\ seen' = IF search_lock(Mutex(t)) # 0
                 /\ locklist[search_lock(Mutex(t))].id = owner[Mutex(t)]
             THEN seen \union {t} ELSE seen \ {t}
  /\ pc' = [pc EXCEPT ![t] = "call"]
  /\ UNCHANGED <<owner, step>>

\* The real pthread_mutex_lock.
Lock(t) == /\ pc[t] = "call" /\ Op(t) = "lock" /\ owner[Mutex(t)] = NOBODY
           /\ owner' = [owner EXCEPT ![Mutex(t)] = t]
           /\ pc' = [pc EXCEPT ![t] = "after"]
           /\ UNCHANGED <<locklist, edges, vertices, seen, step>>

\* lock_after: a new entry, in a free place if there is one (but lockidx grows in
\* any case), or the entry changes hands and the edge goes.
LockAfter(t) ==
  /\ pc[t] = "after" /\ Op(t) = "lock"
  /\ LET i == search_lock(Mutex(t))
         entry == [Free EXCEPT !.id = t, !.lock_id = Mutex(t)]
         e == search_empty_lock
     IN IF i = 0
        THEN /\ locklist' = IF e = 0 THEN Append(locklist, entry)
                            ELSE Append([locklist EXCEPT ![e].id = t,
                                                         ![e].lock_id = Mutex(t)], Free)
             /\ UNCHANGED edges
        ELSE /\ locklist' = [locklist EXCEPT ![i].id = t, ![i].degress = @ - 1]
             /\ remove_edge(t, locklist[i].id)
  /\ NextOp(t)
  /\ UNCHANGED <<vertices, owner, seen>>

\* The real pthread_mutex_unlock.
Unlock(t) == /\ pc[t] = "call" /\ Op(t) = "unlock"
             /\ owner' = [owner EXCEPT ![Mutex(t)] = NOBODY]
             /\ pc' = [pc EXCEPT ![t] = "after"]
             /\ UNCHANGED <<locklist, edges, vertices, seen, step>>

\* unlock_after: an entry nobody waits for is freed, whoever is on record there by
\* now.  When the lock is not in the list, the code reads and may clear the memory
\* in front of the list, which nothing else uses.
UnlockAfter(t) ==
  /\ pc[t] = "after" /\ Op(t) = "unlock"
  /\ LET i == search_lock(Mutex(t)) IN
       locklist' = IF i # 0 /\ locklist[i].degress = 0
                   THEN [locklist EXCEPT ![i].id = NOBODY, ![i].lock_id = 0]
                   ELSE locklist
  /\ NextOp(t)
  /\ UNCHANGED <<edges, vertices, owner, seen>>

Next == \E t \in Threads : \/ LockBefore(t) \/ Lock(t) \/ LockAfter(t)
                           \/ Unlock(t) \/ UnlockAfter(t)

Spec == Init /\ [][Next]_vars

-----------------------------------------------------------------------------
\* DFS: whatever is visited twice counts as a cycle.
RECURSIVE DFS(_, _)
DFS(v, search) ==
  IF v \in search.visited THEN [search EXCEPT !.deadlock = TRUE]
  ELSE FoldSet(DFS, [search EXCEPT !.visited = @ \union {v}],
               {to \in vertices : <<v, to>> \in edges})


\* search_for_cycle clears the marks for every edge of its vertex.
search_for_cycle(v) ==
  \E to \in vertices : /\ <<v, to>> \in edges
                       /\ DFS(to, [visited |-> {v}, deadlock |-> FALSE]).deadlock

\* check_dead_lock
Reported == \E v \in vertices : search_for_cycle(v)

-----------------------------------------------------------------------------
TypeOK ==
  /\ \A i \in DOMAIN locklist :
       locklist[i] \in [id : Threads \union {NOBODY}, lock_id : 0..N, degress : Int]
  /\ edges \subseteq vertices \X vertices /\ vertices \subseteq Threads
  /\ owner \in [Threads -> Threads \union {NOBODY}]
  /\ seen \subseteq Threads
  /\ step \in [Threads -> 1..5]
  /\ pc \in [Threads -> {"before", "call", "after", "done"}]

\* Thread t cannot go on before the owner of a mutex has released it.
Blocked(t) == pc[t] = "call" /\ Op(t) = "lock" /\ owner[Mutex(t)] # NOBODY

Deadlock == \A t \in Threads : Blocked(t)

\* A report of the checker is never false: when it finds a cycle, the threads wait
\* for each other and will do so for ever, whatever stale edges and entries the
\* hooks leave behind.  And a deadlock is reported, unless one of the threads
\* came for its second mutex before the hook of the holder had put it on record;
\* the sleep in the test only makes this unlikely (check_dead_lock on the graph
\* of lock_before and lock_after).
CheckerRight ==
  /\ Reported => Deadlock
  /\ Deadlock /\ seen = Threads => Reported
=============================================================================
