------------------------------- MODULE CachePool -------------------------------
(***************************************************************************)
(* The Redis connection pool of CachePool.cpp.  m_free_notify is a mutex and  *)
(* a condition variable; what a call does under it is one action, split      *)
(* where it waits.  A command (set, get and the others share one pattern)     *)
(* runs outside the mutex, on the connection its caller holds.                *)
(*                                                                         *)
(* m_pContext of a connection: "none", "ready", or "half" when the connection  *)
(* was made but AUTH or SELECT failed: CacheConn::Init keeps that context and  *)
(* takes it for a good one from then on.  Any command, connection or login    *)
(* can fail.  A caller that gets NULL uses it (as workUsePool does), which is  *)
(* undefined: crashed ends the behaviour.                                    *)
(***************************************************************************)
EXTENDS Naturals, Sequences, SequencesExt

CONSTANTS
  Workers,         \* the threads that use the pool, its clients
  MIN_CACHE_CONN_CNT, m_max_conn_cnt

VARIABLES
  m_free_list,     \* connections nobody holds, a sequence
  m_cur_conn_cnt,  \* connections are numbered as they are created
  m_pContext,
  m_free_notify,   \* clients asleep on the condition variable
  client,          \* "out", "wait", "holding" or "used" (the command is over)
  pConn,           \* the connection a client holds, 0 for none
  crashed

cacheVars == <<m_free_list, m_cur_conn_cnt, m_pContext, m_free_notify, client, pConn,
               crashed>>

MaxConns == IF m_max_conn_cnt > MIN_CACHE_CONN_CNT THEN m_max_conn_cnt ELSE MIN_CACHE_CONN_CNT
Conns == 1..MaxConns

\* The constructor and CachePool::Init, without which the program ends.
CacheInit ==
  /\ m_free_list = [i \in 1..MIN_CACHE_CONN_CNT |-> i]
  /\ m_cur_conn_cnt = MIN_CACHE_CONN_CNT
  /\ m_pContext = [c \in Conns |-> IF c <= MIN_CACHE_CONN_CNT THEN "ready" ELSE "none"]
  /\ m_free_notify = {}
  /\ client = [c \in Workers |-> "out"]
  /\ pConn = [c \in Workers |-> 0]
  /\ crashed = FALSE

\* In GetCacheConn, with the mutex: on entry, or woken from the wait.
InGet(c) == \/ client[c] = "out"
            \/ client[c] = "wait" /\ c \notin m_free_notify

HandOut(c, list) ==
  /\ client' = [client EXCEPT ![c] = "holding"]
  /\ pConn' = [pConn EXCEPT ![c] = Head(list)]
  /\ m_free_list' = Tail(list)

Wait(c) ==
  /\ InGet(c) /\ m_free_list = <<>> /\ m_cur_conn_cnt >= m_max_conn_cnt
  /\ client' = [client EXCEPT ![c] = "wait"]
  /\ m_free_notify' = m_free_notify \union {c}
  /\ UNCHANGED <<m_free_list, m_cur_conn_cnt, m_pContext, pConn, crashed>>

\* A new connection, made and logged in under the mutex, or NULL.
Open(c) ==
  /\ InGet(c) /\ m_free_list = <<>> /\ m_cur_conn_cnt < m_max_conn_cnt
  /\ \/ /\ HandOut(c, <<m_cur_conn_cnt + 1>>)
        /\ m_cur_conn_cnt' = m_cur_conn_cnt + 1
        /\ m_pContext' = [m_pContext EXCEPT ![m_cur_conn_cnt + 1] = "ready"]
        /\ UNCHANGED crashed
     \/ /\ crashed' = TRUE
        /\ UNCHANGED <<m_free_list, m_cur_conn_cnt, m_pContext, client, pConn>>
  /\ UNCHANGED m_free_notify

\* Mutant: the front is handed out but stays in the list.
ReuseNoPop(c) ==
  /\ InGet(c) /\ m_free_list # <<>>
  /\ client' = [client EXCEPT ![c] = "holding"]
  /\ pConn' = [pConn EXCEPT ![c] = Head(m_free_list)]
  /\ UNCHANGED <<m_free_list, m_cur_conn_cnt, m_pContext, m_free_notify, crashed>>

Reuse(c) ==
  /\ InGet(c) /\ m_free_list # <<>>
  /\ HandOut(c, m_free_list)
  /\ UNCHANGED <<m_cur_conn_cnt, m_pContext, m_free_notify, crashed>>

GetCacheConn(c) == Wait(c) \/ Open(c) \/ Reuse(c)

\* What CacheConn::Init and the command after it leave in m_pContext: no reply
\* drops the context, a failed login keeps it.
AfterCommand(ctx) == IF ctx = "none" THEN {"none", "half", "ready"} ELSE {ctx, "none"}

Command(c) ==
  /\ client[c] = "holding"
  /\ \E ctx \in AfterCommand(m_pContext[pConn[c]]) :
       m_pContext' = [m_pContext EXCEPT ![pConn[c]] = ctx]
  /\ client' = [client EXCEPT ![c] = "used"]
  /\ UNCHANGED <<m_free_list, m_cur_conn_cnt, m_free_notify, pConn, crashed>>

\* RelCacheConn: unless it is in the list already, the connection goes to the
\* end; one sleeper is signalled.
RelCacheConn(c) ==
  /\ client[c] = "used"
  /\ m_free_list' = IF Contains(m_free_list, pConn[c]) THEN m_free_list
                    ELSE Append(m_free_list, pConn[c])
  /\ client' = [client EXCEPT ![c] = "out"]
  /\ pConn' = [pConn EXCEPT ![c] = 0]
  /\ IF m_free_notify = {} THEN UNCHANGED m_free_notify
     ELSE \E d \in m_free_notify : m_free_notify' = m_free_notify \ {d}
  /\ UNCHANGED <<m_cur_conn_cnt, m_pContext, crashed>>

CacheSpurious ==
  /\ \E c \in m_free_notify : m_free_notify' = m_free_notify \ {c}
  /\ UNCHANGED <<m_free_list, m_cur_conn_cnt, m_pContext, client, pConn, crashed>>

\* The destructor deletes the connections in the list.
Delete == /\ m_free_list' = <<>> /\ m_cur_conn_cnt' = 0
          /\ m_pContext' = [c \in Conns |-> IF Contains(m_free_list, c) THEN "none"
                                            ELSE m_pContext[c]]
          /\ UNCHANGED <<m_free_notify, client, pConn, crashed>>

CacheTypeOK ==
  /\ \A i \in DOMAIN m_free_list : m_free_list[i] \in Conns
  /\ m_cur_conn_cnt \in 0..MaxConns
  /\ m_pContext \in [Conns -> {"none", "ready", "half"}]
  /\ m_free_notify \subseteq Workers /\ crashed \in BOOLEAN
  /\ client \in [Workers -> {"out", "wait", "holding", "used"}]
  /\ pConn \in [Workers -> 0..MaxConns]
=============================================================================
