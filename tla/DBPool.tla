-------------------------------- MODULE DBPool --------------------------------
(***************************************************************************)
(* The MySQL connection pool of DBPool.cpp, used the way workUsePool of      *)
(* test_dbpool.cpp uses it: a client gets a connection, with or without a    *)
(* timeout, and releases whatever GetDBConn returned, NULL included.         *)
(*                                                                         *)
(* All of the pool's state is guarded by m_mutex, so a call is one action,   *)
(* split where it waits on m_cond_var.  The server is abstracted: opening a  *)
(* connection succeeds or fails.  A timeout may strike at any moment of a    *)
(* timed wait.  m_used_list is a set: it is only searched by remove(), which *)
(* erases every occurrence.  The destructor may run while calls wait for the *)
(* mutex or for a connection; these then read what it wrote last.            *)
(***************************************************************************)
EXTENDS Naturals, Sequences, FiniteSets

CONSTANTS
  Clients,            \* the threads that use the pool
  Conns,              \* the CDBConn objects that can be allocated
  NULL,
  m_db_max_conn_cnt,  \* argument of the constructor
  MaxCalls            \* bound: GetDBConn calls per client (its share of the tasks)

ASSUME ClientsAssumption == IsFiniteSet(Clients)
ASSUME ConnsAssumption == NULL \notin Conns /\ IsFiniteSet(Conns)
ASSUME MaxAssumption == m_db_max_conn_cnt \in Nat /\ MaxCalls \in Nat

MIN_DB_CONN_CNT == 1

VARIABLES
  m_free_list,        \* released connections, oldest first
  m_used_list,        \* connections GetDBConn handed out
  m_db_cur_conn_cnt,
  m_abort_request,
  m_cond_var,         \* clients that wait on it and have not been woken
  pc,                 \* "idle", "wait", "waitFor" or "holding" (a result)
  pConn,              \* the result of the client's last GetDBConn
  calls,              \* GetDBConn calls each client may still make
  state               \* of the pool object: "new", "ready", "failed", "deleted"

vars == <<m_free_list, m_used_list, m_db_cur_conn_cnt, m_abort_request,
          m_cond_var, pc, pConn, calls, state>>

Elements(list) == {list[i] : i \in DOMAIN list}

\* Connections somebody still has a pointer to.
Live == (Elements(m_free_list) \union {pConn[c] : c \in Clients}) \ {NULL}

\* The constructor.
Init == /\ m_free_list = <<>>
        /\ m_used_list = {}
        /\ m_db_cur_conn_cnt = MIN_DB_CONN_CNT
        /\ m_abort_request = FALSE
        /\ m_cond_var = {}
        /\ pc = [c \in Clients |-> "idle"]
        /\ pConn = [c \in Clients |-> NULL]
        /\ calls = [c \in Clients |-> MaxCalls]
        /\ state = "new"

\* CDBPool::Init opens the MIN_DB_CONN_CNT connections the constructor counted;
\* callers give up when it fails.
InitPool ==
  /\ state = "new"
  /\ \/ /\ \E conn \in Conns : m_free_list' = Append(m_free_list, conn)
        /\ state' = "ready"
     \/ /\ state' = "failed"
        /\ UNCHANGED m_free_list
  /\ UNCHANGED <<m_used_list, m_db_cur_conn_cnt, m_abort_request, m_cond_var, pc,
                 pConn, calls>>

-----------------------------------------------------------------------------
(* GetDBConn                                                                 *)

ReturnNull(c) ==
  /\ pc' = [pc EXCEPT ![c] = "holding"]
  /\ pConn' = [pConn EXCEPT ![c] = NULL]
  /\ UNCHANGED <<m_free_list, m_used_list>>

\* Mutant: the connection is looked at but not popped.
TakeFrontNoPop(c, list) ==
  /\ pc' = [pc EXCEPT ![c] = "holding"]
  /\ pConn' = [pConn EXCEPT ![c] = Head(list)]
  /\ m_free_list' = list
  /\ m_used_list' = m_used_list \union {Head(list)}

\* The end of the call: the front of the free list is handed out.
TakeFront(c, list) ==
  /\ pc' = [pc EXCEPT ![c] = "holding"]
  /\ pConn' = [pConn EXCEPT ![c] = Head(list)]
  /\ m_free_list' = Tail(list)
  /\ m_used_list' = m_used_list \union {Head(list)}

\* The free list is empty and all connections are in use: wait, for ever or
\* with a timeout.
BeginWait(c) ==
  /\ m_db_cur_conn_cnt >= m_db_max_conn_cnt
  /\ pc' \in {[pc EXCEPT ![c] = to] : to \in {"wait", "waitFor"}}
  /\ m_cond_var' = m_cond_var \union {c}
  /\ UNCHANGED <<m_free_list, m_used_list, m_db_cur_conn_cnt, pConn>>

\* The free list is empty and another connection is allowed: open one, still
\* under the mutex, or fail.
Open(c) ==
  /\ m_db_cur_conn_cnt < m_db_max_conn_cnt
  /\ \/ /\ \E conn \in Conns \ Live : TakeFront(c, Append(m_free_list, conn))
        /\ m_db_cur_conn_cnt' = m_db_cur_conn_cnt + 1
     \/ /\ ReturnNull(c)
        /\ UNCHANGED m_db_cur_conn_cnt
  /\ UNCHANGED m_cond_var

GetDBConn(c) ==
  /\ state \in {"ready", "deleted"} /\ pc[c] = "idle" /\ calls[c] > 0
  /\ calls' = [calls EXCEPT ![c] = @ - 1]
  /\ \/ /\ m_abort_request
        /\ ReturnNull(c)
        /\ UNCHANGED <<m_db_cur_conn_cnt, m_cond_var>>
     \/ /\ ~m_abort_request /\ m_free_list = <<>>
        /\ BeginWait(c) \/ Open(c)
     \/ /\ ~m_abort_request /\ m_free_list # <<>>
        /\ TakeFront(c, m_free_list)
        /\ UNCHANGED <<m_db_cur_conn_cnt, m_cond_var>>
  /\ UNCHANGED <<m_abort_request, state>>

\* Mutant: the abort flag is not looked at again after the wait.
AfterWaitNoAbort(c) ==
  \/ m_free_list = <<>> /\ ReturnNull(c)
  \/ m_free_list # <<>> /\ TakeFront(c, m_free_list)

\* The rest of the call after the wait: NULL if a timed wait found nothing, NULL
\* if the pool is being destroyed, else the front.
AfterWait(c) ==
  \/ (m_abort_request \/ m_free_list = <<>>) /\ ReturnNull(c)
  \/ ~m_abort_request /\ m_free_list # <<>> /\ TakeFront(c, m_free_list)

\* A woken waiter evaluates the predicate, and goes on or waits again.
GetWoken(c) ==
  /\ pc[c] \in {"wait", "waitFor"} /\ c \notin m_cond_var
  /\ \/ /\ m_free_list # <<>> \/ m_abort_request
        /\ AfterWait(c)
        /\ UNCHANGED m_cond_var
     \/ /\ m_free_list = <<>> /\ ~m_abort_request
        /\ m_cond_var' = m_cond_var \union {c}
        /\ UNCHANGED <<m_free_list, m_used_list, pc, pConn>>
  /\ UNCHANGED <<m_db_cur_conn_cnt, m_abort_request, calls, state>>

\* The timeout of wait_for; a connection released meanwhile is still taken.
GetTimeout(c) ==
  /\ pc[c] = "waitFor"
  /\ m_cond_var' = m_cond_var \ {c}
  /\ AfterWait(c)
  /\ UNCHANGED <<m_db_cur_conn_cnt, m_abort_request, calls, state>>

\* A wait on a condition variable may end although nobody notified.
SpuriousWakeup(c) ==
  /\ c \in m_cond_var
  /\ m_cond_var' = m_cond_var \ {c}
  /\ UNCHANGED <<m_free_list, m_used_list, m_db_cur_conn_cnt, m_abort_request, pc,
                 pConn, calls, state>>

-----------------------------------------------------------------------------
(* RelDBConn and the destructor                                              *)

\* m_cond_var.notify_one().
NotifyOne == \/ m_cond_var = {} /\ UNCHANGED m_cond_var
             \/ \E c \in m_cond_var : m_cond_var' = m_cond_var \ {c}

\* Mutant: a waiter is woken only when the list was empty.
RelDBConnNotifyIfEmpty(c) ==
  /\ pc[c] = "holding"
  /\ \/ /\ pConn[c] \notin Elements(m_free_list)
        /\ m_used_list' = m_used_list \ {pConn[c]}
        /\ m_free_list' = Append(m_free_list, pConn[c])
        /\ IF m_free_list = <<>> THEN NotifyOne ELSE UNCHANGED m_cond_var
     \/ /\ pConn[c] \in Elements(m_free_list)
        /\ UNCHANGED <<m_free_list, m_used_list, m_cond_var>>
  /\ pc' = [pc EXCEPT ![c] = "idle"]
  /\ pConn' = [pConn EXCEPT ![c] = NULL]
  /\ UNCHANGED <<m_db_cur_conn_cnt, m_abort_request, calls, state>>

\* Mutant: nobody is woken.
RelDBConnSilently(c) ==
  /\ pc[c] = "holding"
  /\ \/ /\ pConn[c] \notin Elements(m_free_list)
        /\ m_used_list' = m_used_list \ {pConn[c]}
        /\ m_free_list' = Append(m_free_list, pConn[c])
     \/ /\ pConn[c] \in Elements(m_free_list)
        /\ UNCHANGED <<m_free_list, m_used_list>>
  /\ pc' = [pc EXCEPT ![c] = "idle"]
  /\ pConn' = [pConn EXCEPT ![c] = NULL]
  /\ UNCHANGED <<m_cond_var, m_db_cur_conn_cnt, m_abort_request, calls, state>>

\* What GetDBConn returned goes back, unless it is in the free list already.
RelDBConn(c) ==
  /\ pc[c] = "holding"
  /\ \/ /\ pConn[c] \notin Elements(m_free_list)
        /\ m_used_list' = m_used_list \ {pConn[c]}
        /\ m_free_list' = Append(m_free_list, pConn[c])
        /\ NotifyOne
     \/ /\ pConn[c] \in Elements(m_free_list)
        /\ UNCHANGED <<m_free_list, m_used_list, m_cond_var>>
  /\ pc' = [pc EXCEPT ![c] = "idle"]
  /\ pConn' = [pConn EXCEPT ![c] = NULL]
  /\ UNCHANGED <<m_db_cur_conn_cnt, m_abort_request, calls, state>>

\* ~CDBPool: free connections are closed, waiters told to give up.
Destroy ==
  /\ state = "ready"
  /\ state' = "deleted"
  /\ m_abort_request' = TRUE
  /\ m_cond_var' = {}
  /\ m_free_list' = <<>>
  /\ UNCHANGED <<m_used_list, m_db_cur_conn_cnt, pc, pConn, calls>>

-----------------------------------------------------------------------------
Next == \/ InitPool
        \/ Destroy
        \/ \E c \in Clients : \/ GetDBConn(c)
                              \/ GetWoken(c)
                              \/ GetTimeout(c)
                              \/ SpuriousWakeup(c)
                              \/ RelDBConn(c)

Spec == Init /\ [][Next]_vars

\* Clients are scheduled, their timeouts pass, and they release what they got.
\* Nobody is obliged to call GetDBConn or to destroy the pool.
Fairness == \A c \in Clients : /\ WF_vars(GetWoken(c))
                               /\ WF_vars(GetTimeout(c))
                               /\ WF_vars(RelDBConn(c))

FairSpec == Spec /\ Fairness

-----------------------------------------------------------------------------
(* Properties                                                                *)

\* Type invariant; m_cond_var holds clients inside a wait only.
TypeOK ==
  /\ m_free_list \in Seq(Conns \union {NULL})
  /\ m_used_list \subseteq Conns \union {NULL}
  /\ m_db_cur_conn_cnt \in Nat
  /\ m_abort_request \in BOOLEAN
  /\ m_cond_var \subseteq {c \in Clients : pc[c] \in {"wait", "waitFor"}}
  /\ pc \in [Clients -> {"idle", "wait", "waitFor", "holding"}]
  /\ pConn \in [Clients -> Conns \union {NULL}]
  /\ calls \in [Clients -> 0 .. MaxCalls]
  /\ state \in {"new", "ready", "failed", "deleted"}

Holders(conn) == {c \in Clients : pConn[c] = conn}

\* A connection is used by one client at a time: it is in the free list once or
\* in the hands of one client, and then in m_used_list, never both.
ConnExclusive ==
  \A conn \in Conns :
    /\ Cardinality({i \in DOMAIN m_free_list : m_free_list[i] = conn})
         + Cardinality(Holders(conn)) <= 1
    /\ conn \in m_used_list <=> Holders(conn) # {}

\* The server never sees more connections than allowed, and the count that
\* GetDBConn decides on is exact while the pool lives: failed openings, the NULL
\* that clients release and timeouts leave it alone.
ConnCountExact ==
  state = "ready" =>
    /\ m_db_cur_conn_cnt = Cardinality(Live)
    /\ m_db_cur_conn_cnt <= m_db_max_conn_cnt \/ m_db_cur_conn_cnt = MIN_DB_CONN_CNT

\* Who has which connection, and how many there are.
ConnsAccounted == TypeOK /\ ConnExclusive /\ ConnCountExact

\* No wakeup is lost, although woken clients compete with callers that barge in
\* and with timeouts: a client waits unwoken only if the free list has no more
\* entries than there are woken clients on their way to it.
EnoughWoken ==
  m_cond_var # {} =>
    Len(m_free_list) <=
      Cardinality({c \in Clients : pc[c] \in {"wait", "waitFor"}} \ m_cond_var)

\* A pool that is going away hands out no connection, not even one released
\* after the destructor ran.
NothingAfterAbort ==
  [][m_abort_request =>
       \A c \in Clients : pc[c] # "holding" /\ pc'[c] = "holding"
                            => pConn'[c] = NULL]_vars

\* A client that waits without timeout gets an answer as long as the others
\* release what they hold (each makes finitely many calls).
WaiterServed == \A c \in Clients : pc[c] = "wait" ~> pc[c] = "holding"

\* What DBPool.cpp:504 says of GetDBConn without timeout: it waits until there is
\* a connection or the pool is going away.
WaitYieldsConnection ==
  [][\A c \in Clients : pc[c] = "wait" /\ pc'[c] = "holding"
                          => pConn'[c] # NULL \/ m_abort_request]_vars
=============================================================================
