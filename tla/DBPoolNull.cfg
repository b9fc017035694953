SPECIFICATION Spec
CHECK_DEADLOCK FALSE
CONSTANTS
  Clients = {t1, t2, t3}
  Conns = {d1}
  NULL = NULL
  m_db_max_conn_cnt = 1
  MaxCalls = 1
PROPERTY WaitYieldsConnection
