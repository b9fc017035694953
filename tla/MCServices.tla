------------------------------ MODULE MCServices ------------------------------
(***************************************************************************)
(* The multi-threaded and event-driven programs of the repository that have   *)
(* liveness properties, the connections of its pools to their servers, and the *)
(* memory pool, the leak detector and the exceptions of its threads, one small *)
(* instance of each.  As in MCStructures the initial state picks one of them   *)
(* (component), and the variables of the others stay as they are.              *)
(***************************************************************************)
EXTENDS ThreadedPrograms, PeerPrograms

\* The program that runs.
VARIABLE component

programVars == <<testVars, asyncVars, logVars, dnsVars>>
serverVars == <<connVars, dbVars, connectVars, statementVars>>
clientVars == <<eventsVars, contextVars>>
benchmarkVars == <<benchVars, counterVars, threadsVars>>
toolVars == <<leakVars, memoryVars, tryVars>>
vars == <<component, programVars, serverVars, clientVars, benchmarkVars, toolVars>>

\* Items that fill whole batches, and one that does not.
SmallArguments == {<<1, 1, 2>>, <<1, 1, 3>>, <<2, 2, 2>>, <<2, 1, 2>>}
\* A context over TCP that blocks or not, one whose timeout is too long, and the socket of
\* the user with a limit.
SmallSettings == {[type |-> "tcp", block |-> TRUE, valid |-> TRUE, limit |-> FALSE],
                  [type |-> "tcp", block |-> FALSE, valid |-> TRUE, limit |-> FALSE],
                  [type |-> "unix", block |-> TRUE, valid |-> FALSE, limit |-> FALSE],
                  [type |-> "userfd", block |-> TRUE, valid |-> TRUE, limit |-> TRUE]}
\* A Try without a Catch, with one, and with one for each exception.
SmallCatchLists == {{}, {"A"}, {"A", "B"}}

Components == {"test", "async", "log", "dns", "conn", "db", "connect", "bench", "counter",
               "events", "context", "threads", "statements", "leak", "memory", "try"}

Init == /\ component \in Components
        /\ Test!Init /\ Async!Init /\ Log!Init /\ Dns!Init
        /\ Conn!Init /\ DB!Init /\ Connect!Init
        /\ Bench!Init /\ Bench!CounterInit
        /\ Events!Init /\ Context!Init /\ Threads!Init /\ Statements!Init
        /\ Leak!Init /\ Memory!Init /\ Exception!Init
        /\ component # "leak" => tracing = "hook"
        /\ component # "conn" => ~m_password
        /\ component # "bench" => arguments = CHOOSE any \in Arguments : TRUE
        /\ component # "events" =>
             options = [connect |-> FALSE, command |-> FALSE, keep |-> FALSE]

InTest == /\ component = "test"
          /\ UNCHANGED <<component, asyncVars, logVars, dnsVars, serverVars, clientVars,
                           benchmarkVars, toolVars>>
InAsync == /\ component = "async"
           /\ UNCHANGED <<component, testVars, logVars, dnsVars, serverVars, clientVars,
                           benchmarkVars, toolVars>>
InLog == /\ component = "log"
         /\ UNCHANGED <<component, testVars, asyncVars, dnsVars, serverVars, clientVars,
                           benchmarkVars, toolVars>>
InDns == /\ component = "dns"
         /\ UNCHANGED <<component, testVars, asyncVars, logVars, serverVars, clientVars,
                           benchmarkVars, toolVars>>
InConn == /\ component = "conn"
          /\ UNCHANGED <<component, programVars, dbVars, connectVars, statementVars,
                         clientVars, benchmarkVars, toolVars>>
InDB == /\ component = "db"
        /\ UNCHANGED <<component, programVars, connVars, connectVars, statementVars,
                       clientVars, benchmarkVars, toolVars>>
InConnect == /\ component = "connect"
             /\ UNCHANGED <<component, programVars, connVars, dbVars, statementVars,
                            clientVars, benchmarkVars, toolVars>>
InBench == /\ component = "bench"
           /\ UNCHANGED <<component, programVars, serverVars, clientVars, counterVars,
                          threadsVars, toolVars>>
InCounter == /\ component = "counter"
             /\ UNCHANGED <<component, programVars, serverVars, clientVars, benchVars,
                            threadsVars, toolVars>>
InEvents == /\ component = "events"
            /\ UNCHANGED <<component, programVars, serverVars, contextVars, benchmarkVars, toolVars>>
InContext == /\ component = "context"
             /\ UNCHANGED <<component, programVars, serverVars, eventsVars, benchmarkVars, toolVars>>
InThreads == /\ component = "threads"
             /\ UNCHANGED <<component, programVars, serverVars, clientVars, benchVars,
                            counterVars, toolVars>>
InStatements == /\ component = "statements"
                /\ UNCHANGED <<component, programVars, connVars, dbVars, connectVars,
                               clientVars, benchmarkVars, toolVars>>
InLeak == /\ component = "leak"
          /\ UNCHANGED <<component, programVars, serverVars, clientVars, benchmarkVars,
                         memoryVars, tryVars>>
InMemory == /\ component = "memory"
            /\ UNCHANGED <<component, programVars, serverVars, clientVars, benchmarkVars,
                           leakVars, tryVars>>
InTry == /\ component = "try"
         /\ UNCHANGED <<component, programVars, serverVars, clientVars, benchmarkVars,
                        leakVars, memoryVars>>

Next == \/ InTest /\ Test!Next
        \/ InAsync /\ Async!Next
        \/ InLog /\ Log!Next
        \/ InDns /\ Dns!Next
        \/ InConn /\ Conn!Next
        \/ InDB /\ DB!Next
        \/ InConnect /\ Connect!Next
        \/ InBench /\ Bench!Next
        \/ InCounter /\ Bench!CounterNext
        \/ InEvents /\ Events!Next
        \/ InContext /\ Context!Next
        \/ InThreads /\ Threads!Next
        \/ InStatements /\ Statements!Next
        \/ InLeak /\ Leak!Next
        \/ InMemory /\ Memory!Next
        \/ InTry /\ Exception!Next

\* The producers and consumers of the benchmark.
Parties == UNION {1..any[1] \union 1..any[2] : any \in Arguments}

\* The fairness of each program, as its module states it, over its own variables.
Fairness ==
  /\ WF_testVars(component = "test" /\ Test!MainStep)
  /\ \A w \in Workers : WF_testVars(component = "test" /\ Test!WorkerStep(w))
  /\ WF_asyncVars(component = "async" /\ Async!Loop)
  /\ WF_asyncVars(component = "async" /\ Async!Server)
  /\ WF_logVars(component = "log" /\ Log!Backend)
  /\ WF_logVars(component = "log" /\ Log!Stop /\ stopper # "running")
  /\ WF_dnsVars(component = "dns" /\ Dns!Committer)
  /\ WF_dnsVars(component = "dns" /\ Dns!Proc)
  /\ \A i \in Parties :
       /\ WF_benchVars(component = "bench" /\ i \in DOMAIN producer /\ Bench!Producer(i))
       /\ WF_benchVars(component = "bench" /\ i \in DOMAIN consumer /\ Bench!Consumer(i))
  /\ \A t \in Incrementers : WF_counterVars(component = "counter" /\ Bench!Thread(t))
  /\ \A t \in Starters :
       /\ WF_threadsVars(component = "threads" /\ ~aborted /\ Threads!Runner(t))
       /\ SF_threadsVars(component = "threads" /\ ~aborted /\ Threads!CountDown(t))
  /\ WF_benchVars(component = "bench" /\ Bench!Main)
  /\ WF_counterVars(component = "counter" /\ Bench!Join)
  /\ WF_threadsVars(component = "threads" /\ ~aborted /\ Threads!MainStep)
  /\ WF_eventsVars(component = "events" /\ Events!Loop)
  /\ WF_eventsVars(component = "events" /\ Events!Establish)
  /\ WF_contextVars(component = "context" /\ Context!Library /\ where # "out")

Spec == Init /\ [][Next]_vars /\ Fairness

-----------------------------------------------------------------------------
\* The variables of all the programs keep their types.
TypeOK ==
  CASE component = "test" -> Test!TypeOK [] component = "async" -> Async!TypeOK
    [] component = "log" -> Log!TypeOK [] component = "dns" -> Dns!TypeOK
    [] component = "conn" -> Conn!TypeOK [] component = "db" -> DB!TypeOK
    [] component = "connect" -> Connect!TypeOK [] component = "bench" -> Bench!TypeOK
    [] component = "counter" -> Bench!CounterTypeOK [] component = "events" -> Events!TypeOK
    [] component = "context" -> Context!TypeOK [] component = "threads" -> Threads!TypeOK
    [] component = "statements" -> Statements!TypeOK [] component = "leak" -> Leak!TypeOK
    [] component = "memory" -> Memory!TypeOK [] component = "try" -> Exception!TypeOK

\* Redis connection pool (CachePool.cpp): no connection is shared, lost or leaked.
ConnsAccounted == component = "test" => Test!ConnsAccounted

\* Redis connection (CachePool.cpp on redis_pool/hiredis.c): a call gets its own
\* answer, or the value that means failure.  MySQL connection (DBPool.cpp): what it has
\* told its user is so.  Sockets of a Redis context (redis_pool/net.c): it closes its
\* own ones, each once, and reports the attempts that fail.  Synchronous client
\* (hiredis/hiredis.c): the replies are those to the commands of the connection, in
\* order, push messages go to their handler, and a call that fails says why.  Prepared
\* statements (CPrepareStatement, test_curd.cpp, IMUser.cpp): a row holds what was meant,
\* and the program sees the row it has inserted.  Each but for the causes that the
\* modules CacheConn, DBConn, RedisConnect, RedisContext and DBStatements name.
ConnectionsTruthful ==
  /\ component = "conn" => Conn!AnswersOwnCall
  /\ component = "db" => DB!TransactionsKept
  /\ component = "connect" => Connect!DescriptorsOwned /\ Connect!ErrorReported
  /\ component = "context" => /\ Context!RepliesInOrder /\ Context!PushOutOfBand
                             /\ Context!FailureHasError
  /\ component = "statements" => /\ Statements!RowsAsMeant /\ Statements!QueriesOwnRow
                                /\ Statements!ResultsFreed

\* Bounded thread pool (test_ThreadPool.cpp): destroy frees the pool only when
\* every accepted job is over and every worker gone.
JobsRunBeforeFree == component = "test" => Test!JobsRunBeforeFree

\* Redis client (hiredis/async.c): one callback per command, in order; with timeouts
\* and callbacks that disconnect or free, they run before the context goes, and neither
\* it nor its event record (hiredis/adapters/libevent.h) is used afterwards.  DNS client
\* (async_dns_client_noblock.c): one callback per query, with its own answer.
CallbacksMatch == /\ component = "async" => Async!EachCallbackOnce
                  /\ component = "dns" => Dns!QueriesAccounted
                  /\ component = "events" => /\ Events!CallbacksComplete
                                            /\ Events!NotUsedAfterFree
                                            /\ Events!TimeoutAsked

\* Log (AsyncLogging.cc): every line is in one place, in order, and each round
\* begins with two empty spare buffers.  Queue benchmark (4_test_lock_free_queue.cpp):
\* the items come out in order, and its consumers stay until the last one.  Counters
\* (3_test_mutex_spin_lock.cpp): no increment is lost.  Threads of the log (Thread.cc,
\* CountDownLatch.cc, BlockingQueue.h): none touches a latch that is gone, and the items
\* come in order.
NothingLost == /\ component = "log" => Log!EveryLineOnce /\ Log!SparesReady
               /\ component = "bench" => Bench!LeavesAfterLast /\ Bench!NumbersInOrder
               /\ component = "counter" => Bench!CountsExact
               /\ component = "threads" => Threads!ThreadsStartSafely /\ Threads!ItemsInOrder

\* Memory pool (mmpool.c): blocks in use are disjoint, and every large block is listed
\* once.  Leak detector (memleak.c) and exceptions (trycatch_finally.c): what they report
\* and miss, each but for the causes that MemLeak and TryCatch name.
ToolsRight == /\ component = "leak" => Leak!FilesAreLeaks
              /\ component = "memory" => Memory!BlocksDisjoint /\ Memory!LargeBlocksListed
              /\ component = "try" => Exception!CaughtByInnermost /\ Exception!FinallyRuns

\* The programs that should end do (TestEnds, LoopStops, StopEnds): the pool test,
\* the loop of the Redis client, the stop of the log, the queue benchmark (but for an
\* incomplete batch), the counters, the threads of the log, a blocking call of the
\* synchronous Redis client with a limit, and the wait of an asynchronous command with a
\* timer.
ProgramsEnd == []<>(/\ component = "test" => Test!TestEnded
                    /\ component = "async" => Async!LoopStopped
                    /\ component = "bench" => Bench!BenchmarkEnded
                    /\ component = "counter" => Bench!TestsEnd
                    /\ component = "threads" => Threads!AllEnd
                    /\ component = "context" => Context!CallReturns
                    /\ component = "events" => ~Events!Waiting
                    /\ ~Log!Stopping)

\* Nothing stays in memory for ever: no line of the log (AsyncLogging.cc), and no
\* answer without its callback (async_dns_client_noblock.c).
NothingStays == Log!LinesLeave /\ Dns!AnswerDelivered
-----------------------------------------------------------------------------
(* The bundle.                                                                *)

\* The log, the queue benchmark, the counters and the threads of the log, in every state
\* of the bundle.
THEOREM ProgramsInvariant == Spec => [](LogInv /\ BenchInv /\ CounterInv /\ StartInv /\ ItemsInv)
<1> DEFINE AllInv == LogInv /\ BenchInv /\ CounterInv /\ StartInv /\ ItemsInv
<1>1. Init => AllInv
  <2> SUFFICES ASSUME Init PROVE AllInv
    OBVIOUS
  <2>1. Log!Init /\ Bench!Init /\ Bench!CounterInit /\ Threads!Init
    BY DEF Init
  <2> QED BY <2>1, LogInitInv, BenchInitInv, CounterInitInv, StartInitInv, ItemsInitInv
<1>2. AllInv /\ [Next]_vars => AllInv'
  <2> SUFFICES ASSUME AllInv, [Next]_vars PROVE AllInv'
    OBVIOUS
  <2>1. LogInv'
    <3>1. Log!Next \/ UNCHANGED logVars
      BY DEF Next, vars, programVars, InTest, InAsync, InLog, InDns, InConn, InDB, InConnect,
             InBench, InCounter, InEvents, InContext, InThreads, InStatements,
             InLeak, InMemory, InTry
    <3> QED BY <3>1, LogStep, LogFrame
  <2>2. BenchInv'
    <3>1. Bench!Next \/ UNCHANGED benchVars
      BY DEF Next, vars, benchmarkVars, InTest, InAsync, InLog, InDns, InConn, InDB,
             InConnect, InBench, InCounter, InEvents, InContext, InThreads, InStatements,
             InLeak, InMemory, InTry
    <3>2. CASE UNCHANGED benchVars
      <4>1. UNCHANGED <<arguments, round, queue, flushed, s_count_push, s_count_pop,
                        producer, consumer, taken>>
        BY <3>2 DEF benchVars
      <4> QED BY <4>1, BenchFrame
    <3> QED BY <3>1, <3>2, BenchStep
  <2>3. CounterInv'
    <3>1. Bench!CounterNext \/ UNCHANGED counterVars
      BY DEF Next, vars, benchmarkVars, InTest, InAsync, InLog, InDns, InConn, InDB,
             InConnect, InBench, InCounter, InEvents, InContext, InThreads, InStatements,
             InLeak, InMemory, InTry
    <3> QED BY <3>1, CounterStep, CounterFrame
  <2>4. StartInv' /\ ItemsInv'
    <3>1. Threads!Next \/ UNCHANGED threadsVars
      BY DEF Next, vars, benchmarkVars, InTest, InAsync, InLog, InDns, InConn, InDB,
             InConnect, InBench, InCounter, InEvents, InContext, InThreads, InStatements,
             InLeak, InMemory, InTry
    <3>2. CASE UNCHANGED threadsVars
      <4>1. /\ UNCHANGED <<object, tid_, count_, holder_, owner, mainAt, runner, aborted>>
            /\ UNCHANGED <<queue_, sleepers, put, share, order>>
        BY <3>2 DEF threadsVars
      <4>2. runner' = runner
        BY <4>1
      <4>3. StartInv'
        BY <4>1, StartFrame
      <4>4. ItemsInv'
        BY <4>1, <4>2, ItemsFrame
      <4> QED BY <4>3, <4>4
    <3> QED BY <3>1, <3>2, StartStep, ItemsStep
  <2> QED BY <2>1, <2>2, <2>3, <2>4
<1> QED BY <1>1, <1>2, PTL DEF Spec

\* Log (AsyncLogging.cc): every line is in one place, in order, and each round begins
\* with two empty spare buffers.  Queue benchmark (4_test_lock_free_queue.cpp): the items
\* come out in order, and its consumers stay until the last one.  Counters
\* (3_test_mutex_spin_lock.cpp): no increment is lost.  Threads of the log (Thread.cc,
\* CountDownLatch.cc, BlockingQueue.h): none touches a latch that is gone, and the items
\* come in order.
THEOREM LinesAndItemsKept == Spec => []NothingLost
<1>1. LogInv /\ BenchInv /\ CounterInv /\ StartInv /\ ItemsInv => NothingLost
  <2>1. CounterInv => Bench!CountsExact
    BY DEF CounterInv
  <2> QED BY <2>1, LogSafe, BenchSafe, StartSafe, ItemsSafe DEF NothingLost
<1> QED BY <1>1, ProgramsInvariant, PTL

-----------------------------------------------------------------------------
(* The two pools of the Redis test: a step of another program leaves their          *)
(* variables as they are.                                                           *)

\* The invariant of the pool test, in every state of the bundle.
THEOREM TestInvariant == Spec => []TestInv
<1>1. Init => TestInv
  BY TestInitInv DEF Init
<1>2. TestInv /\ [Next]_vars => TestInv'
  <2> SUFFICES ASSUME TestInv, [Next]_vars PROVE TestInv'
    OBVIOUS
  <2>1. Test!Next \/ UNCHANGED testVars
    BY DEF Next, vars, programVars, InTest, InAsync, InLog, InDns, InConn, InDB, InConnect,
           InBench, InCounter, InEvents, InContext, InThreads, InStatements,
             InLeak, InMemory, InTry
  <2> QED BY <2>1, TestStep, TestFrame
<1> QED BY <1>1, <1>2, PTL DEF Spec

\* Redis connection pool (CachePool.cpp): no connection is shared, lost or leaked.
THEOREM ConnectionsKept == Spec => []ConnsAccounted
<1>1. TestInv => ConnsAccounted
  BY DEF TestInv, ConnsAccounted
<1> QED BY <1>1, TestInvariant, PTL

\* Bounded thread pool (test_ThreadPool.cpp): every accepted job is over, and every
\* worker gone, when destroy frees the pool.
THEOREM JobsOver == Spec => []JobsRunBeforeFree
<1>1. TestInv => JobsRunBeforeFree
  BY TestSafe DEF JobsRunBeforeFree
<1> QED BY <1>1, TestInvariant, PTL

-----------------------------------------------------------------------------
(* The programs that talk to a server.                                         *)

\* The DNS client and the asynchronous Redis client, in every state of the bundle.
THEOREM PeersInvariant == Spec => [](DnsInv /\ AsyncInv /\ EventsInv)
<1> DEFINE AllInv == DnsInv /\ AsyncInv /\ EventsInv
<1>1. Init => AllInv
  <2> SUFFICES ASSUME Init PROVE AllInv
    OBVIOUS
  <2>1. Dns!Init /\ Async!Init /\ Events!Init
    BY DEF Init
  <2> QED BY <2>1, DnsInitInv, AsyncInitInv, EventsInitInv
<1>2. AllInv /\ [Next]_vars => AllInv'
  <2> SUFFICES ASSUME AllInv, [Next]_vars PROVE AllInv'
    OBVIOUS
  <2>1. DnsInv'
    <3>1. Dns!Next \/ UNCHANGED dnsVars
      BY DEF Next, vars, programVars, InTest, InAsync, InLog, InDns, InConn, InDB, InConnect,
             InBench, InCounter, InEvents, InContext, InThreads, InStatements,
             InLeak, InMemory, InTry
    <3> QED BY <3>1, DnsStep, DnsFrame
  <2>2. AsyncInv'
    <3>1. Async!Next \/ UNCHANGED asyncVars
      BY DEF Next, vars, programVars, InTest, InAsync, InLog, InDns, InConn, InDB, InConnect,
             InBench, InCounter, InEvents, InContext, InThreads, InStatements,
             InLeak, InMemory, InTry
    <3> QED BY <3>1, AsyncStep, AsyncFrame
  <2>3. EventsInv'
    <3>1. Events!Next \/ UNCHANGED eventsVars
      BY DEF Next, vars, clientVars, InTest, InAsync, InLog, InDns, InConn, InDB, InConnect,
             InBench, InCounter, InEvents, InContext, InThreads, InStatements,
             InLeak, InMemory, InTry
    <3> QED BY <3>1, EventsStep, EventsFrame
  <2> QED BY <2>1, <2>2, <2>3
<1> QED BY <1>1, <1>2, PTL DEF Spec

\* Redis client (hiredis/async.c): one callback per command, in order; with timeouts
\* and callbacks that disconnect or free, they run before the context goes, and neither
\* it nor its event record (hiredis/adapters/libevent.h) is used afterwards.  DNS client
\* (async_dns_client_noblock.c): one callback per query, with its own answer.
THEOREM CallbacksOnce == Spec => []CallbacksMatch
<1>1. DnsInv /\ AsyncInv /\ EventsInv => CallbacksMatch
  BY DnsSafe, AsyncSafe, EventsSafe DEF CallbacksMatch
<1> QED BY <1>1, PeersInvariant, PTL
-----------------------------------------------------------------------------
(* The connections of the pools to their servers.                               *)

\* The connection of each pool, the socket of a Redis context, the synchronous client and
\* the prepared statements, in every state of the bundle.
THEOREM ServersInvariant ==
  Spec => [](ConnInv /\ DBInv /\ ConnectInv /\ ContextInv /\ StatementsInv)
<1> DEFINE AllInv == ConnInv /\ DBInv /\ ConnectInv /\ ContextInv /\ StatementsInv
<1>1. Init => AllInv
  <2> SUFFICES ASSUME Init PROVE AllInv
    OBVIOUS
  <2>1. Conn!Init /\ DB!Init /\ Connect!Init /\ Context!Init /\ Statements!Init
    BY DEF Init
  <2> QED BY <2>1, ConnInitInv, DBInitInv, ConnectInitInv, ContextInitInv, StatementsInitInv
<1>2. AllInv /\ [Next]_vars => AllInv'
  <2> SUFFICES ASSUME AllInv, [Next]_vars PROVE AllInv'
    OBVIOUS
  <2>1. ConnInv'
    <3>1. Conn!Next \/ UNCHANGED connVars
      BY DEF Next, vars, serverVars, InTest, InAsync, InLog, InDns, InConn, InDB, InConnect,
             InBench, InCounter, InEvents, InContext, InThreads, InStatements,
             InLeak, InMemory, InTry
    <3> QED BY <3>1, ConnStep, ConnFrame
  <2>2. DBInv'
    <3>1. DB!Next \/ UNCHANGED dbVars
      BY DEF Next, vars, serverVars, InTest, InAsync, InLog, InDns, InConn, InDB, InConnect,
             InBench, InCounter, InEvents, InContext, InThreads, InStatements,
             InLeak, InMemory, InTry
    <3> QED BY <3>1, DBStep, DBFrame
  <2>3. ConnectInv'
    <3>1. Connect!Next \/ UNCHANGED connectVars
      BY DEF Next, vars, serverVars, InTest, InAsync, InLog, InDns, InConn, InDB, InConnect,
             InBench, InCounter, InEvents, InContext, InThreads, InStatements,
             InLeak, InMemory, InTry
    <3> QED BY <3>1, ConnectStep, ConnectFrame
  <2>4. ContextInv'
    <3>1. Context!Next \/ UNCHANGED contextVars
      BY DEF Next, vars, clientVars, InTest, InAsync, InLog, InDns, InConn, InDB, InConnect,
             InBench, InCounter, InEvents, InContext, InThreads, InStatements,
             InLeak, InMemory, InTry
    <3> QED BY <3>1, ContextStep, ContextFrame
  <2>5. StatementsInv'
    <3>1. Statements!Next \/ UNCHANGED statementVars
      BY DEF Next, vars, serverVars, InTest, InAsync, InLog, InDns, InConn, InDB, InConnect,
             InBench, InCounter, InEvents, InContext, InThreads, InStatements,
             InLeak, InMemory, InTry
    <3> QED BY <3>1, StatementsStep, StatementsFrame
  <2> QED BY <2>1, <2>2, <2>3, <2>4, <2>5
<1> QED BY <1>1, <1>2, PTL DEF Spec

\* Redis connection (CachePool.cpp): a call gets its own answer or fails.  MySQL
\* connection (DBPool.cpp): what it has told its user is so.  Sockets (redis_pool/net.c):
\* a context closes its own ones, each once, and reports the attempts that fail.
\* Synchronous client (hiredis/hiredis.c): replies in order, push messages to their handler,
\* an error when a call fails.  Prepared statements: a row holds what was meant.
THEOREM ServersTruthful == Spec => []ConnectionsTruthful
<1>1. ConnInv /\ DBInv /\ ConnectInv /\ ContextInv /\ StatementsInv => ConnectionsTruthful
  <2> SUFFICES ASSUME ConnInv, DBInv, ConnectInv, ContextInv, StatementsInv
               PROVE  ConnectionsTruthful
    OBVIOUS
  <2>1. Conn!AnswersOwnCall
    BY ConnSafe
  <2>2. DB!TransactionsKept
    BY DBSafe
  <2>3. Connect!DescriptorsOwned /\ Connect!ErrorReported
    BY ConnectSafe
  <2>4. Context!RepliesInOrder /\ Context!PushOutOfBand /\ Context!FailureHasError
    BY ContextSafe
  <2>5. Statements!RowsAsMeant /\ Statements!QueriesOwnRow /\ Statements!ResultsFreed
    BY StatementsSafe
  <2> QED BY <2>1, <2>2, <2>3, <2>4, <2>5 DEF ConnectionsTruthful
<1> QED BY <1>1, ServersInvariant, PTL

-----------------------------------------------------------------------------
(* What the threads use.                                                       *)

\* The leak detector, the memory pool and the exceptions, in every state of the bundle.
THEOREM ToolsInvariant == Spec => [](LeakInv /\ PoolInv /\ TryInv)
<1> DEFINE AllInv == LeakInv /\ PoolInv /\ TryInv
<1>1. Init => AllInv
  <2> SUFFICES ASSUME Init PROVE AllInv
    OBVIOUS
  <2>1. Leak!Init /\ Memory!Init /\ Exception!Init
    BY DEF Init
  <2> QED BY <2>1, LeakInitInv, MemoryInitInv, TryInitInv
<1>2. AllInv /\ [Next]_vars => AllInv'
  <2> SUFFICES ASSUME AllInv, [Next]_vars PROVE AllInv'
    OBVIOUS
  <2>1. LeakInv'
    <3>1. Leak!Next \/ UNCHANGED leakVars
      BY DEF Next, vars, toolVars, InTest, InAsync, InLog, InDns, InConn, InDB, InConnect,
             InBench, InCounter, InEvents, InContext, InThreads, InStatements,
             InLeak, InMemory, InTry
    <3> QED BY <3>1, LeakStep, LeakFrame
  <2>2. PoolInv'
    <3>1. Memory!Next \/ UNCHANGED memoryVars
      BY DEF Next, vars, toolVars, InTest, InAsync, InLog, InDns, InConn, InDB, InConnect,
             InBench, InCounter, InEvents, InContext, InThreads, InStatements,
             InLeak, InMemory, InTry
    <3> QED BY <3>1, MemoryStep, MemoryFrame
  <2>3. TryInv'
    <3>1. Exception!Next \/ UNCHANGED tryVars
      BY DEF Next, vars, toolVars, InTest, InAsync, InLog, InDns, InConn, InDB, InConnect,
             InBench, InCounter, InEvents, InContext, InThreads, InStatements,
             InLeak, InMemory, InTry
    <3> QED BY <3>1, TryStep, TryFrame
  <2> QED BY <2>1, <2>2, <2>3
<1> QED BY <1>1, <1>2, PTL DEF Spec

\* Leak detector (memleak.c): its files are the leaks.  Memory pool (mmpool.c): blocks in
\* use overlap neither each other nor a header, and every large block is in exactly one
\* entry of the list.  Exceptions (trycatch_finally.c): the innermost Catch runs, and every
\* Finally but those of a Catch that throws.
THEOREM ToolsSafety == Spec => []ToolsRight
<1>1. LeakInv /\ PoolInv /\ TryInv => ToolsRight
  BY LeakSafe, MemorySafe, TrySafe DEF ToolsRight
<1> QED BY <1>1, ToolsInvariant, PTL

-----------------------------------------------------------------------------
(* The types.                                                                   *)

\* What TypeOK bounds and the invariants above leave open, in every state of the bundle.
THEOREM TypesInvariant ==
  Spec => [](component \in Components /\ BenchBounds /\ CounterReset /\ ThreadsTypes /\ LogTypes)
<1> DEFINE AllInv == /\ component \in Components /\ BenchBounds /\ CounterReset
                     /\ ThreadsTypes /\ LogTypes
<1> DEFINE SafeInvs == LogInv /\ BenchInv /\ CounterInv /\ StartInv /\ ItemsInv
<1>1. Init => AllInv
  <2> SUFFICES ASSUME Init PROVE AllInv
    OBVIOUS
  <2>1. /\ component \in Components
        /\ Log!Init /\ Bench!Init /\ Bench!CounterInit /\ Threads!Init
    BY DEF Init, Components
  <2> QED BY <2>1, LogInitTypes, BenchInitBounds, CounterResetInit, ThreadsInitTypes
<1>2. SafeInvs /\ AllInv /\ [Next]_vars => AllInv'
  <2> SUFFICES ASSUME SafeInvs, AllInv, [Next]_vars PROVE AllInv'
    OBVIOUS
  <2>1. LogTypes'
    <3>1. Log!Next \/ UNCHANGED logVars
      BY DEF Next, vars, programVars, InTest, InAsync, InLog, InDns, InConn, InDB, InConnect,
             InBench, InCounter, InEvents, InContext, InThreads, InStatements,
             InLeak, InMemory, InTry
    <3> QED BY <3>1, LogTypesStep, LogTypesFrame
  <2>2. BenchBounds'
    <3>1. Bench!Next \/ UNCHANGED benchVars
      BY DEF Next, vars, benchmarkVars, InTest, InAsync, InLog, InDns, InConn, InDB, InConnect,
             InBench, InCounter, InEvents, InContext, InThreads, InStatements,
             InLeak, InMemory, InTry
    <3> QED BY <3>1, BenchBoundsStep, BenchBoundsFrame
  <2>3. CounterReset'
    <3>1. Bench!CounterNext \/ UNCHANGED counterVars
      BY DEF Next, vars, benchmarkVars, InTest, InAsync, InLog, InDns, InConn, InDB, InConnect,
             InBench, InCounter, InEvents, InContext, InThreads, InStatements,
             InLeak, InMemory, InTry
    <3> QED BY <3>1, CounterResetStep, CounterResetFrame
  <2>4. ThreadsTypes'
    <3>1. Threads!Next \/ UNCHANGED threadsVars
      BY DEF Next, vars, benchmarkVars, InTest, InAsync, InLog, InDns, InConn, InDB, InConnect,
             InBench, InCounter, InEvents, InContext, InThreads, InStatements,
             InLeak, InMemory, InTry
    <3> QED BY <3>1, ThreadsTypesStep, ThreadsTypesFrame
  <2>5. component' = component
    BY DEF Next, vars, InTest, InAsync, InLog, InDns, InConn, InDB, InConnect,
           InBench, InCounter, InEvents, InContext, InThreads, InStatements,
             InLeak, InMemory, InTry
  <2> QED BY <2>1, <2>2, <2>3, <2>4, <2>5
<1> QED BY <1>1, <1>2, ProgramsInvariant, PTL DEF Spec

\* The variables of all the programs keep their types, with their bounds: among them, a
\* number that a producer has read, or that is in its queue, is one of the adds
\* (4_test_lock_free_queue.cpp), a counter is never more than its threads add
\* (3_test_mutex_spin_lock.cpp), and main of the thread test waits for a latch of a
\* thread it has made (Thread.cc).
THEOREM TypesKept == Spec => []TypeOK
<1> DEFINE AllInv == /\ component \in Components /\ BenchBounds /\ CounterReset
                     /\ ThreadsTypes /\ LogTypes
<1> DEFINE SafeInvs == LogInv /\ BenchInv /\ CounterInv /\ StartInv /\ ItemsInv
<1> DEFINE Peers == DnsInv /\ AsyncInv /\ EventsInv
<1> DEFINE Servers == ConnInv /\ DBInv /\ ConnectInv /\ ContextInv /\ StatementsInv
<1> DEFINE Tools == LeakInv /\ PoolInv /\ TryInv
<1>1. AllInv /\ SafeInvs /\ TestInv /\ Peers /\ Servers /\ Tools => TypeOK
  <2> SUFFICES ASSUME AllInv, SafeInvs, TestInv, Peers, Servers, Tools PROVE TypeOK
    OBVIOUS
  <2>1. Test!TypeOK /\ Async!TypeOK /\ Dns!TypeOK
    BY DEF TestInv, AsyncInv, DnsInv
  <2>2. Conn!TypeOK /\ DB!TypeOK /\ Connect!TypeOK /\ Context!TypeOK /\ Statements!TypeOK
    BY ConnSafe, DBSafe, ConnectSafe, ContextSafe, StatementsSafe
  <2>3. Log!TypeOK /\ Bench!TypeOK /\ Bench!CounterTypeOK /\ Threads!TypeOK /\ Events!TypeOK
    BY LogTyped, BenchTyped, CounterTyped, ThreadsTyped, EventsTyped
  <2>4. Leak!TypeOK /\ Memory!TypeOK /\ Exception!TypeOK
    BY LeakSafe, MemorySafe, TrySafe
  <2> QED BY <2>1, <2>2, <2>3, <2>4 DEF TypeOK, Components
<1> QED BY <1>1, TypesInvariant, ProgramsInvariant, TestInvariant, PeersInvariant,
           ServersInvariant, ToolsInvariant, PTL
=============================================================================
