------------------------------ MODULE RedisContext ------------------------------
(***************************************************************************)
(* The synchronous interface of hiredis (hiredis/hiredis.c and hiredis/net.c):   *)
(* a context that connects, commands that are appended to its output buffer and   *)
(* replies that are taken from its reader, one by one or in pipelines, by a        *)
(* blocking or a non-blocking program; push messages of the server in between;     *)
(* timeouts, signals, failures of the connection, and redisReconnect.              *)
(*                                                                         *)
(* The server answers in order, sends a push message whenever it likes, falls       *)
(* silent or closes.  A message is the number of the command that it answers, or    *)
(* PUSH; the bytes of a message that is not complete are left out.                  *)
(***************************************************************************)
EXTENDS Naturals, SequencesExt

CONSTANTS
  Options,       \* the options of the contexts, records as c
  MaxCommands, MaxPushes, MaxConnects     \* bounds

PUSH == 0
Message == 0..MaxCommands

VARIABLES
  c,             \* the options: type ("tcp", "unix" or "userfd"), block, whether the
                 \* connect timeout is valid; and limit: c->command_timeout is set
  push_cb,       \* the handler of push messages is set
  fd,            \* c->fd: open, the socket's link ("none", "pending" or "connected"),
                 \* and its own limit (SO_RCVTIMEO, SO_SNDTIMEO)
  err,           \* "none", "io", "eof" or "other"
  obuf, reader,  \* commands not yet written, messages not yet taken
  wire, inbox,   \* under way to the server and from it
  up,            \* the server's end of the connection lives
  pc,            \* "none" or "freed" without a context, "out" between the calls, "connect",
                 \* "wait" (redisContextWaitReady), or "write" and "read" in redisGetReply
  result,        \* of the last call: "ok", "null" without an error, or "failed"
  number, pushes, connects,     \* counters
  asked, given,  \* history, since the connecting: the commands, the messages returned
  inband,        \* history: a message was returned although there is a handler; "buffered"
                 \* if it was in the reader before the call, else "read"
  interrupted,   \* history: send was, in the last call
  wanted         \* history: the program has asked for a limit

link == <<fd, wire, inbox, up>>
counters == <<number, pushes, connects>>
seen == <<result, asked, given, inband, interrupted>>
vars == <<c, push_cb, link, err, obuf, reader, pc, counters, seen, wanted>>

Closed == [open |-> FALSE, link |-> "none", limit |-> FALSE]
Socket(state) == [open |-> TRUE, link |-> state, limit |-> c.limit /\ c.block]
Plain == [type |-> "tcp", block |-> TRUE, valid |-> TRUE, limit |-> FALSE]

Init == /\ c = Plain /\ push_cb = FALSE /\ fd = Closed /\ err = "none"
        /\ obuf = <<>> /\ reader = <<>> /\ wire = <<>> /\ inbox = <<>> /\ up = FALSE
        /\ pc = "none" /\ result = "ok" /\ number = 0 /\ pushes = 0 /\ connects = 0
        /\ asked = <<>> /\ given = <<>> /\ inband = "no" /\ interrupted = FALSE
        /\ wanted = FALSE

-----------------------------------------------------------------------------
\* redisConnectWithOptions, with a descriptor of the program or one to be connected.
Create(options) ==
  /\ pc = "none"
  /\ c' = options /\ wanted' = options.limit /\ connects' = 1 /\ push_cb' \in BOOLEAN
  /\ IF options.type = "userfd"
     THEN /\ fd' = [open |-> TRUE, link |-> "connected", limit |-> options.limit /\ options.block]
          /\ up' = TRUE /\ pc' = "out"
     ELSE pc' = "connect" /\ UNCHANGED <<fd, up>>
  /\ UNCHANGED <<wire, inbox, err, obuf, reader, number, pushes, seen>>

\* redisReconnect: the old socket, both buffers and the error go.
Reconnect ==
  /\ pc = "out" /\ connects < MaxConnects /\ connects' = connects + 1
  /\ err' = "none" /\ fd' = Closed /\ obuf' = <<>> /\ reader' = <<>>
  /\ wire' = <<>> /\ inbox' = <<>> /\ up' = FALSE /\ asked' = <<>> /\ given' = <<>>
  /\ pc' = "connect" /\ result' = "ok"
  /\ UNCHANGED <<c, push_cb, number, pushes, inband, interrupted, wanted>>

\* redisFree
Free == /\ pc = "out" /\ pc' = "freed" /\ fd' = Closed /\ obuf' = <<>> /\ reader' = <<>>
        /\ wire' = <<>> /\ inbox' = <<>> /\ up' = FALSE /\ asked' = <<>> /\ given' = <<>>
        /\ UNCHANGED <<c, push_cb, err, counters, result, inband, interrupted, wanted>>

\* How an attempt ends: with a socket in some state, or none, and err.
Ends(socket, e) == /\ fd' = socket /\ err' = e /\ pc' = "out"
                   /\ up' = (socket.link = "connected")
Unmoved == UNCHANGED <<c, push_cb, wire, inbox, obuf, reader, counters, seen, wanted>>

\* _redisContextConnectTcp.  A context of a descriptor of the program has the type TCP
\* too (the zero of its enumeration) and no host, so that it connects to port 0.
ConnectTcp ==
  /\ pc = "connect" /\ c.type # "unix"
  /\ \/ ~c.valid /\ Ends(Closed, "io")
     \/ c.valid /\ Ends(Closed, "other")                   \* no name, no address, no socket
     \/ c.valid /\ Ends(Socket("none"), "other")           \* no source address to bind
     \/ c.valid /\ c.type = "tcp" /\ Ends(Socket("connected"), "none")
     \/ c.valid /\ c.type = "tcp" /\ ~c.block /\ Ends(Socket("pending"), "none")
     \/ /\ c.valid /\ c.type = "tcp" /\ c.block
        /\ fd' = Socket("pending") /\ pc' = "wait" /\ UNCHANGED <<err, up>>
  /\ Unmoved

\* redisContextConnectUnix: an invalid timeout is found when there is a socket, and
\* sets no error.
ConnectUnix ==
  /\ pc = "connect" /\ c.type = "unix"
  /\ \/ Ends(Closed, "io")
     \/ ~c.valid /\ Ends(Socket("none"), "none")
     \/ c.valid /\ Ends(Socket("connected"), "none")
  /\ Unmoved

\* redisContextWaitReady: poll fails or times out, the attempt fails
\* (redisCheckConnectDone, redisCheckSocketError), or succeeds.
WaitReady ==
  /\ pc = "wait"
  /\ \/ Ends(Closed, "io") \/ Ends(Socket("none"), "io") \/ Ends(Socket("connected"), "none")
  /\ Unmoved

\* redisSetTimeout: the limit of the socket, not of the context.
SetTimeout ==
  /\ pc = "out" /\ c.block /\ fd.open /\ ~fd.limit
  /\ fd' = [fd EXCEPT !.limit = TRUE] /\ wanted' = TRUE
  /\ UNCHANGED <<c, push_cb, wire, inbox, up, err, obuf, reader, pc, counters, seen>>

SetPushCallback ==
  /\ pc = "out" /\ push_cb' = ~push_cb /\ inband' = "no"
  /\ UNCHANGED <<c, link, err, obuf, reader, pc, counters, result, asked, given, interrupted,
                 wanted>>

-----------------------------------------------------------------------------
\* __redisAppendCommand, whatever the state of the connection.
Appends == /\ number < MaxCommands /\ number' = number + 1
           /\ obuf' = Append(obuf, number + 1) /\ asked' = Append(asked, number + 1)

AppendCommand ==
  /\ pc = "out" /\ Appends
  /\ UNCHANGED <<c, push_cb, link, err, reader, pc, pushes, connects, result, given, inband,
                 interrupted, wanted>>

\* redisGetReply begins: with a message that the reader has, or with none for a
\* non-blocking program; a blocking one goes to write.
Begin ==
  /\ interrupted' = FALSE
  /\ CASE reader # <<>> -> /\ given' = Append(given, Head(reader)) /\ reader' = Tail(reader)
                           /\ inband' = (IF push_cb /\ Head(reader) = PUSH THEN "buffered"
                                        ELSE inband)
                           /\ result' = "ok" /\ UNCHANGED pc
       [] reader = <<>> /\ ~c.block -> result' = "null" /\ UNCHANGED <<given, reader, inband, pc>>
       [] OTHER -> pc' = "write" /\ UNCHANGED <<given, reader, inband, result>>

GetReply == /\ pc = "out" /\ Begin
            /\ UNCHANGED <<c, push_cb, link, err, obuf, counters, asked, wanted>>

\* redisCommand: append, and a blocking program takes a reply.
Command ==
  /\ pc = "out" /\ Appends
  /\ IF c.block THEN Begin
     ELSE /\ result' = "null" /\ UNCHANGED <<given, reader, inband, interrupted, pc>>
  /\ UNCHANGED <<c, push_cb, link, err, pushes, connects, wanted>>

\* The places where redisBufferWrite and redisBufferRead run: in redisGetReply, or
\* called by a non-blocking program.
Writing == pc = "write" \/ (pc = "out" /\ ~c.block)
Reading == pc = "read" \/ (pc = "out" /\ ~c.block)
Fails(e) == /\ err' = e /\ pc' = "out" /\ result' = "failed"
            /\ UNCHANGED <<c, push_cb, link, reader, counters, asked, given, inband, wanted>>

\* A context with an error does not touch its socket.
EarlyReturn == /\ Writing \/ Reading
               /\ err # "none" /\ Fails(err) /\ UNCHANGED <<obuf, interrupted>>

\* redisBufferWrite: a part of the buffer, perhaps into a connection that is dead.
BufferWrite(k) ==
  /\ Writing /\ err = "none" /\ k \in 0..Len(obuf) /\ (k = 0 => obuf = <<>>)
  /\ k > 0 => fd.link = "connected"
  /\ obuf' = SubSeq(obuf, k + 1, Len(obuf))
  /\ wire' = IF up THEN wire \o SubSeq(obuf, 1, k) ELSE wire
  /\ pc' = IF pc = "write" /\ obuf' = <<>> THEN "read" ELSE pc
  /\ UNCHANGED <<c, push_cb, fd, inbox, up, err, reader, counters, seen, wanted>>

\* redisNetWrite on a connection that is dead or none, or when the limit runs out.
WriteFails == /\ Writing /\ err = "none" /\ obuf # <<>>
              /\ fd.link = "none" \/ (fd.link = "connected" /\ ~up) \/ fd.limit
              /\ Fails("io") /\ UNCHANGED <<obuf, interrupted>>

\* A signal in send: to try again later, but the -1 that is returned means failure.
WriteInterrupted == /\ pc = "write" /\ err = "none" /\ obuf # <<>>
                    /\ interrupted' = TRUE /\ Fails("none") /\ UNCHANGED obuf

\* The messages after those that the handler takes (redisHandledPushReply).
Unhandled(s) ==
  LET first == SelectInSeq(s, LAMBDA m : m # PUSH)
  IN IF ~push_cb THEN s ELSE IF first = 0 THEN <<>> ELSE SubSeq(s, first, Len(s))

\* redisBufferRead and, in redisGetReply, the first message that is not handled.
BufferRead(k) ==
  /\ Reading /\ err = "none" /\ k \in 1..Len(inbox)
  /\ inbox' = SubSeq(inbox, k + 1, Len(inbox))
  /\ LET all == reader \o SubSeq(inbox, 1, k)
         rest == IF pc = "read" THEN Unhandled(all) ELSE all
     IN IF pc = "read" /\ rest # <<>>
        THEN /\ reader' = Tail(rest) /\ given' = Append(given, Head(rest))
             /\ inband' = IF push_cb /\ Head(rest) = PUSH THEN "read" ELSE inband
             /\ result' = "ok" /\ pc' = "out"
        ELSE reader' = rest /\ UNCHANGED <<given, inband, result, pc>>
  /\ UNCHANGED <<c, push_cb, fd, wire, up, err, obuf, counters, asked, interrupted, wanted>>

\* redisNetRead: the end of the stream, a dead socket, or the limit.
ReadFails == /\ Reading /\ err = "none" /\ inbox = <<>>
             /\ \/ fd.link = "connected" /\ ~up /\ Fails("eof")
                \/ fd.link = "none" /\ Fails("io")
                \/ fd.limit /\ Fails("io")
             /\ UNCHANGED <<obuf, interrupted>>

-----------------------------------------------------------------------------
ServerMoves == UNCHANGED <<c, push_cb, err, obuf, reader, pc, number, connects, seen, wanted>>

Establish == /\ fd.link = "pending" /\ pc = "out"
             /\ \E state \in {"connected", "none"} :
                  fd' = [fd EXCEPT !.link = state] /\ up' = (state = "connected")
             /\ UNCHANGED <<wire, inbox, pushes>> /\ ServerMoves
Serve == /\ up /\ wire # <<>> /\ inbox' = Append(inbox, Head(wire)) /\ wire' = Tail(wire)
         /\ UNCHANGED <<fd, up, pushes>> /\ ServerMoves
Push == /\ up /\ pushes < MaxPushes /\ pushes' = pushes + 1 /\ inbox' = Append(inbox, PUSH)
        /\ UNCHANGED <<fd, wire, up>> /\ ServerMoves
Close == /\ up /\ up' = FALSE /\ wire' = <<>> /\ UNCHANGED <<fd, inbox, pushes>> /\ ServerMoves

Library == \/ ConnectTcp \/ ConnectUnix \/ WaitReady
           \/ EarlyReturn \/ WriteFails \/ WriteInterrupted \/ ReadFails
           \/ \E k \in 0..MaxCommands + MaxPushes : BufferWrite(k) \/ BufferRead(k)

Next == \/ \E options \in Options : Create(options)
        \/ Reconnect \/ Free \/ SetTimeout \/ SetPushCallback
        \/ AppendCommand \/ GetReply \/ Command
        \/ Library \/ Establish \/ Serve \/ Push \/ Close

Spec == Init /\ [][Next]_vars
FairSpec == Spec /\ WF_vars(Library /\ pc # "out")

-----------------------------------------------------------------------------
TypeOK ==
  /\ c \in Options \union {Plain}
  /\ fd \in [open : BOOLEAN, link : {"none", "pending", "connected"}, limit : BOOLEAN]
  /\ {push_cb, up, interrupted, wanted} \subseteq BOOLEAN /\ err \in {"none", "io", "eof", "other"}
  /\ {obuf, wire, asked} \subseteq Seq(Message \ {PUSH})
  /\ {reader, inbox, given} \subseteq Seq(Message)
  /\ pc \in {"none", "freed", "out", "connect", "wait", "write", "read"}
  /\ result \in {"ok", "null", "failed"} /\ inband \in {"no", "buffered", "read"}
  /\ number \in 0..MaxCommands /\ pushes \in 0..MaxPushes /\ connects \in 0..MaxConnects

\* The commands of a sequence of messages, and whether they stand once each, in their order.
Commands(s) == {s[i] : i \in DOMAIN s} \ {PUSH}
InOrder(s) == \A i, j \in DOMAIN s : i < j /\ s[i] # PUSH /\ s[j] # PUSH => s[i] < s[j]

\* On each connection the replies are those to its own commands, one each, in their
\* order and without a gap, and as long as the server lives none is lost on the way,
\* however the calls are mixed and the buffers cut.
RepliesInOrder ==
  LET back == given \o reader \o inbox
      all == back \o wire \o obuf
  IN /\ InOrder(back) /\ Commands(back) \subseteq Commands(asked)
     /\ \A m \in Commands(back), n \in Commands(asked) : n < m => n \in Commands(back)
     /\ up => InOrder(all) /\ Commands(all) = Commands(asked)

\* With a handler no push message is returned in place of a reply, but for one that
\* was read together with an earlier reply.
PushOutOfBand == inband # "read"

\* A call that fails leaves its error in the context, but for one that a signal
\* interrupts in send.
FailureHasError == result = "failed" /\ pc = "out" => err # "none" \/ interrupted

\* A blocking call with a limit ends, whatever the server does; but redisReconnect
\* forgets a limit set by redisSetTimeout.
CallReturns == pc \in {"out", "none", "freed"} \/ ~wanted \/ (connects > 1 /\ ~c.limit)
CallsReturn == []<>CallReturns
=============================================================================
