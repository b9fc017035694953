------------------------------- MODULE CacheConn -------------------------------
(***************************************************************************)
(* One connection of the Redis pool (CacheConn of CachePool.cpp) on a blocking *)
(* hiredis context (redis_pool/hiredis.c), with a server that refuses          *)
(* connections or passwords, dies between any two steps, and takes commands     *)
(* for one key.                                                             *)
(*                                                                         *)
(* A call of the program runs Init (connect, AUTH, SELECT, unless there is a   *)
(* context) and then its command; every command is written to the socket,     *)
(* perhaps in two parts, and its reply awaited without a timeout.  A reply is  *)
(* its type and its number; -1 stands for a missing number.                   *)
(***************************************************************************)
EXTENDS Integers, Sequences, FiniteSets

CONSTANTS
  Names,       \* the commands the program uses, out of those in Reply
  MaxCalls,    \* bound on the calls
  MaxClock,    \* bound on the seconds that pass
  MaxValue     \* bound on the numbers in the database

NULL == [err |-> FALSE, obuf |-> <<>>, reader |-> <<>>]
NoReply == [type |-> "none", n |-> -1]

VARIABLES
  m_pContext,           \* NULL, or the context: error, output buffer, unread replies
  connected,            \* m_pContext is not NULL
  m_last_connect_time,
  m_password,           \* the connection has a password to give
  clock,
  sent, answers,        \* the socket: commands and replies under way
  late,                 \* what a dead connection has delivered and the server not run yet
  up, authed,           \* the server's end: the connection lives, and is logged in
  lets,                 \* the server accepts the password
  data,                 \* the value of the key
  step,                 \* where the call is: "out", "init", "AUTH", "SELECT", "command",
                        \* or "done" with the command in name and its reply in got
  name, got,
  call,                 \* number of the call
  runs,                 \* history: the calls whose command the server has run
  truth                 \* history: the reply it gave to the last call that it ran

conn == <<m_pContext, connected, m_last_connect_time, m_password>>
server == <<sent, answers, late, up, authed, lets, data, runs, truth>>
program == <<step, name, got, call>>
vars == <<conn, clock, server, program>>

Init == /\ m_password \in BOOLEAN /\ m_pContext = NULL /\ connected = FALSE /\ m_last_connect_time = 0
        /\ clock = 1
        /\ sent = <<>> /\ answers = <<>> /\ late = <<>>
        /\ up = FALSE /\ authed = FALSE /\ lets \in (IF m_password THEN BOOLEAN ELSE {TRUE})
        /\ data = [type |-> "nothing", n |-> 0]
        /\ step = "out" /\ name = "none" /\ got = NoReply /\ call = 0
        /\ runs = <<>> /\ truth = NoReply

-----------------------------------------------------------------------------
\* The server: what each command returns and leaves, on a value of its own type,
\* on no value, and on a value of another type.
TypeOf(c) ==
  IF c \in {"get", "set", "setex", "mget", "incr", "decr", "incrBy"} THEN "string"
  ELSE IF c \in {"hdel", "hget", "hgetAll", "hset", "hincrBy", "hmset", "hmget"} THEN "hash"
  ELSE IF c \in {"lpush", "rpush", "llen", "lrange"} THEN "list"
  ELSE "any"

Wrong(c) == /\ data.type \notin {"nothing", TypeOf(c)} /\ TypeOf(c) # "any"
            /\ c \notin {"set", "setex", "mget"}
Counts(c) == c \in {"incr", "incrBy", "hincrBy", "lpush", "rpush"}

After(c) ==
  CASE c \in {"set", "setex", "hmset", "hset"} -> [type |-> TypeOf(c), n |-> 1]
    [] Counts(c) -> [type |-> TypeOf(c), n |-> data.n + 1]
    [] c = "decr" -> [type |-> "string", n |-> data.n - 1]
    [] c \in {"del", "hdel", "flushdb"} -> [type |-> "nothing", n |-> 0]
    [] OTHER -> data

Error == [type |-> "ERROR", n |-> -1]
Status == [type |-> "STATUS", n |-> -1]

Reply(c) ==
  LET here == data.type # "nothing"
  IN IF Wrong(c) THEN Error
     ELSE CASE c \in {"set", "setex", "hmset", "flushdb"} -> Status
            [] c \in {"get", "hget"} -> IF here THEN [type |-> "STRING", n |-> data.n]
                                        ELSE [type |-> "NIL", n |-> -1]
            [] c \in {"mget", "hgetAll", "hmget", "lrange"} -> [type |-> "ARRAY", n |-> data.n]
            [] c \in {"isExists", "del", "hdel"} -> [type |-> "INTEGER", n |-> IF here THEN 1 ELSE 0]
            [] c = "hset" -> [type |-> "INTEGER", n |-> IF here THEN 0 ELSE 1]
            [] OTHER -> [type |-> "INTEGER", n |-> After(c).n]

\* A command of the program runs: its call is c.call.
Runs(c) == /\ data' = IF Wrong(c.name) THEN data ELSE After(c.name)
           /\ data'.n \in -1..MaxValue
           /\ runs' = Append(runs, c.call)

Serve ==
  /\ up /\ sent # <<>>
  /\ LET c == Head(sent)
         login == c.name = "AUTH"
         denied == ~login /\ ~authed
     IN /\ IF c.name \in {"AUTH", "SELECT"} \/ denied
           THEN /\ answers' = Append(answers, IF denied \/ (login /\ ~lets) THEN Error ELSE Status)
                /\ truth' = IF c.name \in {"AUTH", "SELECT"} THEN truth ELSE Error
                /\ UNCHANGED <<data, runs>>
           ELSE /\ answers' = Append(answers, Reply(c.name)) /\ truth' = Reply(c.name)
                /\ Runs(c)
        /\ authed' = (authed \/ (login /\ lets))
  /\ sent' = Tail(sent)
  /\ UNCHANGED <<conn, clock, late, up, lets, program>>

\* The connection breaks; what is under way, at most one command, is lost or arrives all
\* the same.
Break == /\ up /\ up' = FALSE
         /\ answers' \in {answers, <<>>} /\ sent' = <<>>
         /\ late' \in {late, IF authed /\ sent # <<>> /\ Head(sent).call > 0
                           THEN Append(late, Head(sent)) ELSE late}
         /\ UNCHANGED <<conn, clock, authed, lets, data, runs, truth, program>>

ServeLate == /\ late # <<>> /\ Runs(Head(late)) /\ late' = Tail(late)
             /\ UNCHANGED <<conn, clock, sent, answers, up, authed, lets, truth, program>>

ChangePassword ==
  /\ step = "out" /\ m_password /\ lets' = ~lets
  /\ UNCHANGED <<conn, clock, sent, answers, late, up, authed, data, runs, truth, program>>

Tick == /\ clock < MaxClock /\ clock' = clock + 1
        /\ UNCHANGED <<conn, server, program>>

-----------------------------------------------------------------------------
\* A call of the program begins.
Call(c) ==
  /\ step = "out" /\ call < MaxCalls
  /\ step' = "init" /\ name' = c /\ got' = NoReply /\ call' = call + 1
  /\ UNCHANGED <<conn, clock, server>>

\* redisAppendCommand: the command goes to the end of the buffer, in two parts of
\* which the second completes it.
Appended(context, c) ==
  [context EXCEPT !.obuf = @ \o << [name |-> "part", call |-> 0],
                                    [name |-> c, call |-> IF c = name THEN call ELSE 0] >>]

\* CacheConn::Init with a context takes it for a good one.
InitHasContext ==
  /\ step = "init" /\ connected
  /\ step' = "command" /\ m_pContext' = Appended(m_pContext, name)
  /\ UNCHANGED <<connected, m_last_connect_time, m_password, clock, server, name, got, call>>

\* Init within a second of the last attempt gives up.
InitTooSoon ==
  /\ step = "init" /\ ~connected /\ clock < m_last_connect_time + 1
  /\ step' = "done"
  /\ UNCHANGED <<conn, clock, server, name, got, call>>

\* redisConnectWithTimeout makes a connection, or its context is freed again.
InitConnect ==
  /\ step = "init" /\ ~connected /\ clock >= m_last_connect_time + 1
  /\ m_last_connect_time' = clock
  /\ \/ /\ step' = (IF m_password THEN "AUTH" ELSE "SELECT") /\ connected' = TRUE
        /\ m_pContext' = Appended(NULL, step')
        /\ up' = TRUE /\ authed' = ~m_password /\ sent' = <<>> /\ answers' = <<>>
     \/ /\ step' = "done"
        /\ UNCHANGED <<m_pContext, connected, up, authed, sent, answers>>
  /\ UNCHANGED <<m_password, clock, late, lets, data, runs, truth, name, got, call>>

\* redisBufferWrite sends all of the buffer, the two parts of at most one command, or a
\* part; what a dead connection takes is lost.
BufferWrite(k) ==
  /\ step \in {"AUTH", "SELECT", "command"} /\ ~m_pContext.err
  /\ m_pContext.reader = <<>> /\ k \in 1..Len(m_pContext.obuf)
  /\ m_pContext' = [m_pContext EXCEPT !.obuf = SubSeq(@, k + 1, Len(@))]
  /\ sent' = IF ~up THEN <<>>
             ELSE IF m_pContext.obuf[k].name # "part" THEN Append(sent, m_pContext.obuf[k])
             ELSE sent
  /\ UNCHANGED <<connected, m_last_connect_time, m_password, clock, answers, late, up, authed, lets, data,
                 runs, truth, program>>

\* redisBufferRead, once all is written, feeds the reader what has arrived.
BufferRead ==
  /\ step \in {"AUTH", "SELECT", "command"} /\ ~m_pContext.err
  /\ m_pContext.reader = <<>> /\ m_pContext.obuf = <<>> /\ answers # <<>>
  /\ m_pContext' = [m_pContext EXCEPT !.reader = answers]
  /\ answers' = <<>>
  /\ UNCHANGED <<connected, m_last_connect_time, m_password, clock, sent, late, up, authed, lets, data,
                 runs, truth, program>>

\* A write or a read on a dead connection, or one that dies in it, sets err.
IOError ==
  /\ step \in {"AUTH", "SELECT", "command"} /\ ~m_pContext.err /\ m_pContext.reader = <<>>
  /\ ~up /\ (m_pContext.obuf # <<>> \/ answers = <<>>)
  /\ m_pContext' = [m_pContext EXCEPT !.err = TRUE]
  /\ UNCHANGED <<connected, m_last_connect_time, m_password, clock, server, program>>

\* redisCommand returns NULL, now or on a context with an error: a command drops
\* the context, Init keeps it.
NoReplyComes ==
  /\ step \in {"AUTH", "SELECT", "command"} /\ m_pContext.reader = <<>> /\ m_pContext.err
  /\ step' = "done"
  /\ IF step = "command"
     THEN /\ m_pContext' = NULL /\ connected' = FALSE /\ up' = FALSE
          /\ sent' = <<>> /\ answers' = <<>>
     ELSE UNCHANGED <<m_pContext, connected, sent, answers, up>>
  /\ UNCHANGED <<m_last_connect_time, m_password, clock, late, authed, lets, data, runs, truth, name, got,
                 call>>

\* redisGetReply returns a reply: Init goes on to SELECT and the command, unless it
\* is an error; the context stays in any case.
ReplyComes ==
  /\ step \in {"AUTH", "SELECT", "command"} /\ m_pContext.reader # <<>>
  /\ LET reply == Head(m_pContext.reader)
         rest == [m_pContext EXCEPT !.reader = Tail(@)]
         following == IF step = "command" \/ reply.type = "ERROR" THEN "done"
                      ELSE IF step = "AUTH" THEN "SELECT" ELSE "command"
     IN /\ step' = following
        /\ m_pContext' = IF following = "done" THEN rest
                         ELSE Appended(rest, IF following = "SELECT" THEN "SELECT" ELSE name)
        /\ got' = IF step = "command" THEN reply ELSE got
  /\ UNCHANGED <<connected, m_last_connect_time, m_password, clock, server, name, call>>

\* The call returns Result(name, got), to be forgotten with its history.
Return == /\ step = "done" /\ step' = "out"
          /\ name' = "none" /\ got' = NoReply /\ truth' = NoReply
          /\ UNCHANGED <<conn, clock, sent, answers, late, up, authed, lets, data, runs, call>>

\* DeInit, between two calls.
DeInit == /\ step = "out" /\ connected
          /\ m_pContext' = NULL /\ connected' = FALSE
          /\ up' = FALSE /\ sent' = <<>> /\ answers' = <<>>
          /\ UNCHANGED <<m_last_connect_time, m_password, clock, late, authed, lets, data, runs, truth, program>>

Next == \/ Serve \/ ServeLate \/ Break \/ ChangePassword \/ Tick
        \/ \E c \in Names : Call(c)
        \/ InitHasContext \/ InitTooSoon \/ InitConnect
        \/ \E k \in 1..2 : BufferWrite(k)
        \/ BufferRead \/ IOError \/ NoReplyComes \/ ReplyComes \/ Return \/ DeInit

Spec == Init /\ [][Next]_vars

-----------------------------------------------------------------------------
\* What the calls return, from the reply or NoReply.
Text(r) == IF r.type = "STRING" THEN <<r.n>> ELSE <<>>
TextOfAny(r) == IF r = NoReply THEN <<>> ELSE <<r.type>>
Integer(r, failure) == IF r = NoReply THEN failure ELSE IF r.type = "INTEGER" THEN r.n ELSE 0
Table(r) == <<r # NoReply, IF r.type = "ARRAY" THEN r.n ELSE 0>>

StringResult(c, r) == IF c = "get" THEN Text(r) ELSE IF c = "mget" THEN Table(r) ELSE TextOfAny(r)
KeyResult(c, r) == IF c = "isExists" THEN <<Integer(r, 0) # 0>> ELSE <<Integer(r, 0)>>
HashResult(c, r) ==
  CASE c = "hdel" -> <<Integer(r, 0)>> [] c = "hget" -> Text(r)
    [] c = "hgetAll" -> Table(r) [] c = "hset" -> <<Integer(r, -1)>>
FieldResult(c, r) ==
  IF c = "hmset" THEN TextOfAny(r) ELSE IF c = "hmget" THEN Table(r) ELSE <<Integer(r, -1)>>
CountResult(c, r) == IF c = "lrange" THEN Table(r) ELSE <<Integer(r, -1)>>
FlushResult(r) == <<r.type = "STRING">>

Result(c, r) ==
  CASE c \in {"get", "set", "setex", "mget"} -> StringResult(c, r)
    [] c \in {"isExists", "del"} -> KeyResult(c, r)
    [] c \in {"hdel", "hget", "hgetAll", "hset"} -> HashResult(c, r)
    [] c \in {"hincrBy", "incrBy", "hmset", "hmget"} -> FieldResult(c, r)
    [] c = "flushdb" -> FlushResult(r)
    [] OTHER -> CountResult(c, r)

TypeOK ==
  /\ m_pContext.err \in BOOLEAN /\ Len(m_pContext.obuf) <= 4 /\ Len(m_pContext.reader) <= 1
  /\ (~connected => m_pContext = NULL) /\ {connected, up, authed, lets, m_password} \subseteq BOOLEAN
  /\ clock \in 0..MaxClock /\ m_last_connect_time \in 0..clock
  /\ step \in {"out", "init", "AUTH", "SELECT", "command", "done"}
  /\ name \in Names \union {"none"} /\ call \in 0..MaxCalls

\* A reply is that of its own call, a command runs at most once, and the value by
\* which a call reports a failure means one: unless the value is also one of the
\* command's own (nothing found, a counter at -1), the server refused, or the call
\* was flushdb, which never reports a success.
AnswersOwnCall ==
  /\ \A m, n \in DOMAIN runs : m # n => runs[m] # runs[n]
  /\ got # NoReply => got = truth
  /\ step = "done" /\ got # NoReply /\ got.type # "ERROR" => \E n \in DOMAIN runs : runs[n] = call
  /\ step = "done" /\ got # NoReply /\ Result(name, got) = Result(name, NoReply) =>
       \/ got.type \in {"ERROR", "NIL"} \/ name = "flushdb"
       \/ name \in {"isExists", "del", "hdel"} /\ got.n = 0
       \/ name \in {"decr", "incrBy", "hincrBy"} /\ got.n = -1
=============================================================================
