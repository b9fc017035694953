SPECIFICATION FairSpec
\* The program stops when the clients have made their calls.
CHECK_DEADLOCK FALSE
CONSTANTS
  Clients = {t1, t2, t3, t4}
  Conns = {d1, d2}
  NULL = NULL
  m_db_max_conn_cnt = 2
  MaxCalls = 2
INVARIANTS ConnsAccounted EnoughWoken
PROPERTIES NothingAfterAbort WaiterServed
