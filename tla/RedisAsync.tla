------------------------------ MODULE RedisAsync ------------------------------
(***************************************************************************)
(* The asynchronous Redis program of redis-async: async.c issues Num          *)
(* commands before it runs its event loop, and disconnects when the last      *)
(* answer is in.  Three layers run on its one thread: the loop of reactor.h,  *)
(* the adapter of adapter.h, which turns the wishes of the library into       *)
(* epoll calls, and hiredis/async.c, which keeps a callback per command.      *)
(* Every handler is one action.  The other actor is the peer: a connection    *)
(* that is refused or established, a server that answers in order, and that   *)
(* may close or reset the connection at any moment.                           *)
(*                                                                         *)
(* Subscriptions, MONITOR, push messages and timeouts are not used by the     *)
(* program and not modelled.                                                *)
(***************************************************************************)
EXTENDS Naturals, Sequences

CONSTANT Num          \* the commands the program issues

NoReply == 0          \* the NULL reply

VARIABLES
  sock,         \* "connecting", "refused", "open", "closed" (by the server) or "reset"
  wire, inbox,  \* commands on their way to the server, replies not yet read
  obuf,         \* c->obuf: commands not yet written
  replies,      \* ac->replies: the commands whose callbacks are pending
  connected,    \* REDIS_CONNECTED
  disconnecting,\* REDIS_DISCONNECTING
  freed,        \* the context and the event record are freed
  mask,         \* re->mask
  read_fn, write_fn,   \* re->e.read_fn, re->e.write_fn are set
  interest,     \* the events epoll watches the socket for, {"absent"} when it does not
  batch,        \* what the loop has still to dispatch of the events it got
  stop,         \* r->stop
  called,       \* history: <<command, reply>> of the callbacks, in order
  crashed       \* a handler was called on a freed context

peer == <<sock, wire, inbox>>
adapter == <<mask, read_fn, write_fn, interest>>
context == <<obuf, replies, connected, disconnecting, freed, called, stop>>
vars == <<peer, adapter, context, batch, crashed>>

Commands == 1..Num
ABSENT == {"absent"}

\* main up to the loop: redisAsyncSetConnectCallback and the commands each ask
\* for write events; the first request adds the socket to epoll.
Init == /\ sock = "connecting" /\ wire = <<>> /\ inbox = <<>>
        /\ obuf = [i \in Commands |-> i] /\ replies = [i \in Commands |-> i]
        /\ connected = FALSE /\ disconnecting = FALSE /\ freed = FALSE
        /\ mask = {"out"} /\ interest = {"out"} /\ read_fn = FALSE /\ write_fn = TRUE
        /\ batch = {} /\ stop = FALSE /\ called = <<>> /\ crashed = FALSE

-----------------------------------------------------------------------------
\* The interest of epoll after enable_event or add_event or del_event.
Watched(old, new, flag, watch) ==
  CASE new = old -> watch
    [] new = {}  -> ABSENT
    [] old = {}  -> new
    [] OTHER     -> new \intersect {flag}

\* redisEventUpdate, with the flags wished for after the call and the one that
\* changed: enable_event is told of that one alone, and epoll forgets the other.
redisEventUpdate(wish, flag) ==
  mask' = wish /\ interest' = Watched(mask, wish, flag, interest)

\* The end of redisAsyncWrite: DEL_WRITE when all is written (else ADD_WRITE,
\* which changes nothing), and then ADD_READ.
AfterWrite(done) ==
  LET kept == IF done THEN mask \ {"out"} ELSE mask
      wish == kept \union {"in"}
  IN /\ write_fn' = ~done /\ read_fn' = TRUE
     /\ mask' = wish
     /\ interest' = Watched(kept, wish, "in", Watched(mask, kept, "out", interest))

\* redisCleanup: the socket leaves epoll and the event record is freed.
redisCleanup == /\ interest' = ABSENT /\ mask' = {}
                /\ read_fn' = FALSE /\ write_fn' = FALSE

\* Mutant: the pending callbacks are forgotten.
FreeSilent == /\ freed' = TRUE /\ replies' = <<>> /\ UNCHANGED called

\* __redisAsyncFree: the pending callbacks run with a NULL reply.
AsyncFree == /\ freed' = TRUE
             /\ replies' = <<>>
             /\ called' = called \o [i \in 1..Len(replies) |-> <<replies[i], NoReply>>]

\* __redisAsyncDisconnect with an error; the disconnect callback, or the connect
\* callback before, stops the loop.
DisconnectOnError ==
  /\ disconnecting' = TRUE /\ stop' = TRUE
  /\ AsyncFree /\ redisCleanup
  /\ UNCHANGED <<obuf, connected>>

-----------------------------------------------------------------------------
\* What epoll_wait reports and what eventloop_once makes of it: an error or a
\* hangup counts as both events, asked for or not.
Ready == IF interest = ABSENT THEN {}
         ELSE CASE sock \in {"refused", "reset"} -> {"in", "out"}
                [] sock = "connecting" -> {}
                [] OTHER -> interest \intersect
                              ({"out"} \union IF inbox # <<>> \/ sock = "closed"
                                              THEN {"in"} ELSE {})

EpollWait == /\ ~stop /\ ~crashed /\ batch = {} /\ Ready # {}
             /\ batch' = Ready
             /\ UNCHANGED <<peer, adapter, context, crashed>>

\* The loop finds no handler for the event.
NoHandler(event) ==
  /\ event \in batch /\ (event = "out" => "in" \notin batch)
  /\ ~freed /\ ~(IF event = "in" THEN read_fn ELSE write_fn)
  /\ batch' = batch \ {event}
  /\ UNCHANGED <<peer, adapter, context, crashed>>

\* redisAsyncHandleRead: the replies that are there are read and their callbacks
\* run; getCallback starts the disconnection with the last answer, which
\* redisProcessCallbacks completes once nothing is pending.
HandleRead(k) ==
  /\ "in" \in batch /\ read_fn /\ ~freed
  /\ batch' = batch \ {"in"}
  /\ sock \in {"open", "closed"} /\ k \in 1..Len(inbox)
  /\ inbox' = SubSeq(inbox, k + 1, Len(inbox))
  /\ replies' = SubSeq(replies, k + 1, Len(replies))
  /\ called' = called \o [i \in 1..k |-> <<replies[i], inbox[i]>>]
  /\ disconnecting' = (disconnecting \/ Len(called') = Num)
  /\ freed' = (disconnecting' /\ obuf = <<>> /\ replies' = <<>>)
  /\ stop' = (stop \/ freed')
  /\ IF freed' THEN redisCleanup
     ELSE redisEventUpdate(mask \union {"in"}, "in") /\ UNCHANGED <<read_fn, write_fn>>
  /\ UNCHANGED <<sock, wire, obuf, connected, crashed>>

\* redisAsyncHandleRead at the end of the stream or on a broken connection.
HandleReadError ==
  /\ "in" \in batch /\ read_fn /\ ~freed
  /\ sock = "reset" \/ (sock = "closed" /\ inbox = <<>>)
  /\ batch' = batch \ {"in"}
  /\ DisconnectOnError
  /\ UNCHANGED <<peer, crashed>>

\* redisAsyncHandleWrite: connects at the first event, and writes as much as the
\* socket takes.
HandleWrite(k) ==
  /\ batch = {"out"} /\ write_fn /\ ~freed
  /\ sock \in {"open", "closed"} /\ k \in 0..Len(obuf) /\ (k = 0 => obuf = <<>>)
  /\ batch' = {}
  /\ connected' = TRUE
  /\ wire' = wire \o SubSeq(obuf, 1, k)
  /\ obuf' = SubSeq(obuf, k + 1, Len(obuf))
  /\ AfterWrite(obuf' = <<>>)
  /\ UNCHANGED <<sock, inbox, replies, disconnecting, freed, called, stop, crashed>>

\* redisAsyncHandleWrite on a refused or broken connection.
HandleWriteError ==
  /\ batch = {"out"} /\ write_fn /\ ~freed
  /\ sock \in {"refused", "reset"}
  /\ batch' = {}
  /\ DisconnectOnError
  /\ UNCHANGED <<peer, crashed>>

\* The read handler has freed the event record that the loop looks at for the
\* write event: whatever its memory holds by then.
WriteFreed ==
  /\ batch = {"out"} /\ freed
  /\ batch' = {}
  /\ crashed' \in BOOLEAN
  /\ UNCHANGED <<peer, adapter, context>>

-----------------------------------------------------------------------------
Establish == /\ sock = "connecting" /\ sock' \in {"open", "refused"}
             /\ UNCHANGED <<wire, inbox, adapter, context, batch, crashed>>

Answer == /\ sock = "open" /\ wire # <<>>
          /\ inbox' = Append(inbox, Head(wire)) /\ wire' = Tail(wire)
          /\ UNCHANGED <<sock, adapter, context, batch, crashed>>

\* The server closes the connection, or its host resets it and what was on the
\* way is lost.
ServerFails ==
  /\ sock = "open"
  /\ \/ sock' = "closed" /\ UNCHANGED inbox
     \/ sock' = "reset" /\ inbox' = <<>>
  /\ wire' = <<>>
  /\ UNCHANGED <<adapter, context, batch, crashed>>

Loop == \/ EpollWait \/ HandleReadError \/ HandleWriteError \/ WriteFreed
        \/ \E event \in {"in", "out"} : NoHandler(event)
        \/ \E k \in Commands : HandleRead(k)
        \/ \E k \in 0..Num : HandleWrite(k)
Server == Establish \/ Answer

Next == Loop \/ Server \/ ServerFails

Spec == Init /\ [][Next]_vars
FairSpec == Spec /\ WF_vars(Loop) /\ WF_vars(Server)

-----------------------------------------------------------------------------
TypeOK ==
  /\ sock \in {"connecting", "refused", "open", "closed", "reset"}
  /\ {wire, inbox, obuf, replies} \subseteq Seq(Commands)
  /\ mask \subseteq {"in", "out"} /\ batch \subseteq {"in", "out"}
  /\ interest = ABSENT \/ interest \subseteq {"in", "out"}
  /\ {connected, disconnecting, freed, stop, read_fn, write_fn, crashed} \subseteq BOOLEAN
  /\ called \in Seq(Commands \X (Commands \union {NoReply}))

\* The callback of every command runs exactly once, in the order of the commands,
\* with the reply to its own command or, from the moment the connection fails
\* on, with NULL, whatever part of the traffic was done by then; the context is
\* freed only when all have run.
EachCallbackOnce ==
  /\ called \o [i \in 1..Len(replies) |-> <<replies[i], NoReply>>]
       = [i \in Commands |-> <<i, IF i <= Len(called) THEN called[i][2] ELSE NoReply>>]
  /\ \A i \in DOMAIN called : called[i][2] \in {i, NoReply}
  /\ \A i, j \in DOMAIN called : i < j /\ called[i][2] = NoReply => called[j][2] = NoReply
  /\ freed => Len(called) = Num

\* The adapter wishes for write events that epoll no longer watches for, because
\* a change of the read flag overwrote them (redisEventUpdate).
WriteLost == "out" \in mask /\ "out" \notin interest

\* The loop comes to its end, with the last answer or with the failure of the
\* connection, unless the socket took only a part of the commands, which makes
\* the adapter lose the write events.
LoopStopped == stop \/ crashed \/ WriteLost
LoopStops == <>LoopStopped
=============================================================================
