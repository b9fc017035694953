SPECIFICATION Spec
CONSTANTS
  Workers = {1, 2, 3}
  Jobs = 4
  queue_max_num = 2
  MIN_CACHE_CONN_CNT = 1
  m_max_conn_cnt = 2
  Capacity = 1
  MaxQueued = 3
  MaxLines = 6
  Arguments <- SmallArguments
  Q_SIZE = 2
  Batch = 2
  Incrementers = {1, 2}
  FOR_LOOP_COUNT = 3
  Starters = {1, 2}
  Share = 2
  Queries = 5
  Descriptors = {1, 2, 3}
  Num = 3
  MaxCommands = 2
  Names = {"get", "set", "mget", "del", "hset", "hgetAll", "hmset", "hincrBy", "decr",
           "rpush", "lrange", "flushdb"}
  MaxConnCalls = 2
  MaxClock = 2
  MaxValue = 3
  Ops = {"update", "query", "start", "commit", "rollback", "create", "prepare", "execute"}
  MaxOps = 4
  MaxLost = 1
  MaxFd = 2
  Addresses = 2
  REDIS_CONNECT_RETRIES = 2
  MaxOpened = 4
  Settings <- SmallSettings
  MaxAsked = 2
  MaxPushes = 2
  MaxConnects = 2
  Tasks = {"task"}
  Inserts = 2
  Tracers = {1, 2}
  Ptrs = {1, 2}
  PoolSize = 6
  Sizes = {3, 4}
  MaxFailed = 0
  MaxProbe = 0
  MaxNodes = 4
  MaxLarge = 2
  Exceptions = {"A", "B"}
  NoException = "none"
  CatchLists <- SmallCatchLists
  MaxDepth = 2
\* The programs come to their ends, or to a longjmp into a frame that is gone.
CHECK_DEADLOCK FALSE
INVARIANTS TypeOK ConnsAccounted JobsRunBeforeFree CallbacksMatch NothingLost
            ToolsRight
PROPERTIES ProgramsEnd NothingStays
