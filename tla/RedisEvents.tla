------------------------------ MODULE RedisEvents ------------------------------
(***************************************************************************)
(* The life of an asynchronous Redis context (hiredis/async.c) on the libevent *)
(* adapter (hiredis/adapters/libevent.h): connecting, timeouts, the callbacks   *)
(* that call back into the library, and the two frees, of the context and of    *)
(* the event record, which the handler on the stack still uses.  One thread     *)
(* runs all; the peer accepts or refuses, answers in order, closes, or falls     *)
(* silent.  Time is abstracted: an armed timer may fire whenever the loop runs.  *)
(***************************************************************************)
EXTENDS Naturals, Sequences

CONSTANT MaxCommands      \* bound on the commands issued

NoReply == 0              \* the NULL reply
NewRecord == [added |-> FALSE, flags |-> {}, tv |-> "none", entered |-> FALSE,
              deleted |-> FALSE, destroyed |-> FALSE]

VARIABLES
  options,       \* connect: connect_timeout is set; command: command_timeout is;
                 \* keep: REDIS_NO_AUTO_FREE
  sock,          \* "connecting", "refused", "open" or "closed" (by the server)
  wire, inbox,   \* commands on their way to the server, replies not yet read
  obuf, reader,  \* commands not yet written, replies read and not yet processed
  replies,       \* ac->replies: the commands whose callbacks are pending
  connected, disconnecting, freeing,
  err,           \* "none", "io" or "timeout"
  freed,         \* the context is
  record,        \* the redisLibeventEvents: whether its event is added, for which
                 \* events and with which timer, and its state
  pc,            \* "loop", the "handler", and in it "replies" (redisProcessCallbacks),
                 \* "expire" (redisAsyncHandleTimeout), "free" (__redisAsyncFree), "return"
  batch,         \* the events that the handler has still to deal with
  issued,        \* counts the commands
  called,        \* history: <<command, reply>> of the callbacks
  onConnect, onDisconnect,  \* history: "none", "ok" or "error", how they were called
  touched        \* history: freed memory was used

peer == <<sock, wire, inbox>>
flags == <<connected, disconnecting, freeing, err>>
history == <<onConnect, onDisconnect, touched>>
vars == <<options, peer, obuf, reader, replies, flags, freed, record, pc, batch, issued,
          called, history>>

-----------------------------------------------------------------------------
\* The event record, as a function of what it was.
Updated(r, flag, isRemove) ==
  IF isRemove = (flag \notin r.flags) THEN r
  ELSE [r EXCEPT !.added = TRUE,
                 !.flags = IF isRemove THEN @ \ {flag} ELSE @ \union {flag}]

\* refreshTimeout: the timer of the phase, if that phase has one; else the old one stays.
refreshTimeout(r) ==
  CASE connected /\ options.command -> [r EXCEPT !.added = TRUE, !.tv = "command"]
    [] ~connected /\ options.connect -> [r EXCEPT !.added = TRUE, !.tv = "connect"]
    [] OTHER -> r

AddRead(r) == Updated(refreshTimeout(r), "read", FALSE)
AddWrite(r) == Updated(refreshTimeout(r), "write", FALSE)

\* redisLibeventCleanup, called once.
Cleanup(r) ==
  IF r.deleted \/ r.destroyed THEN r
  ELSE [r EXCEPT !.added = FALSE, !.flags = {},
                 !.deleted = r.entered, !.destroyed = ~r.entered]

\* redisAsyncConnectWithOptions, redisLibeventAttach and redisAsyncSetConnectCallback,
\* which asks for the first write event.
Init == /\ options \in [connect : BOOLEAN, command : BOOLEAN, keep : BOOLEAN]
        /\ sock = "connecting" /\ wire = <<>> /\ inbox = <<>>
        /\ obuf = <<>> /\ reader = <<>> /\ replies = <<>>
        /\ connected = FALSE /\ disconnecting = FALSE /\ freeing = FALSE /\ err = "none"
        /\ freed = FALSE /\ record = AddWrite(NewRecord)
        /\ pc = "loop" /\ batch = {} /\ issued = 0 /\ called = <<>>
        /\ onConnect = "none" /\ onDisconnect = "none" /\ touched = FALSE

-----------------------------------------------------------------------------
Choices == {"nothing", "command", "disconnect", "free"}

\* What the program does, in a callback or outside: __redisAsyncCommand, which
\* refuses commands once the end has begun, redisAsyncDisconnect and redisAsyncFree,
\* as far as they do it at once.  rest are the pending commands before.
Does(what, rest, r) ==
  LET takes == what = "command" /\ issued < MaxCommands /\ ~disconnecting /\ ~freeing
  IN /\ replies' = IF takes THEN Append(rest, issued + 1) ELSE rest
     /\ obuf' = IF takes THEN Append(obuf, issued + 1) ELSE obuf
     /\ issued' = IF takes THEN issued + 1 ELSE issued
     /\ record' = IF takes THEN AddWrite(r) ELSE r
     /\ disconnecting' = (disconnecting \/ what = "disconnect")
     /\ freeing' = (freeing \/ what = "free")
     /\ options' = [options EXCEPT !.keep = @ /\ what # "disconnect"]

\* __redisRunCallback of the first pending command.
RunCallback(what, reply) ==
  /\ Does(what, Tail(replies), record)
  /\ called' = Append(called, <<Head(replies), reply>>)

\* __redisAsyncDisconnect
AsyncDisconnect(e) ==
  /\ err' = e /\ disconnecting' = (disconnecting \/ e # "none")
  /\ record' = Cleanup(record)
  /\ pc' = IF options.keep THEN "return" ELSE "free"

-----------------------------------------------------------------------------
\* The program outside of the callbacks, while it has the context.
Outside == pc = "loop" /\ ~freed

Command == /\ Outside /\ issued < MaxCommands /\ ~disconnecting /\ ~freeing
           /\ Does("command", replies, record)
           /\ touched' = (touched \/ record.destroyed)
           /\ UNCHANGED <<peer, reader, connected, err, freed, pc, batch, called, onConnect,
                          onDisconnect>>

\* redisAsyncDisconnect: now if nothing is pending, else with the last reply.
Disconnect ==
  /\ Outside /\ (disconnecting /\ replies # <<>> => options.keep)
  /\ disconnecting' = TRUE
  /\ options' = [options EXCEPT !.keep = FALSE]
  /\ IF replies = <<>> THEN pc' = "free" /\ record' = Cleanup(record)
     ELSE UNCHANGED <<pc, record>>
  /\ UNCHANGED <<peer, obuf, reader, replies, connected, freeing, err, freed, batch, issued,
                 called, history>>

AsyncFree ==
  /\ Outside /\ freeing' = TRUE /\ pc' = "free"
  /\ UNCHANGED <<options, peer, obuf, reader, replies, connected, disconnecting, err, freed,
                 record, batch, issued, called, history>>

\* redisAsyncSetTimeout
SetTimeout ==
  /\ Outside /\ ~options.command /\ options' = [options EXCEPT !.command = TRUE]
  /\ UNCHANGED <<peer, obuf, reader, replies, flags, freed, record, pc, batch, issued, called,
                 history>>

-----------------------------------------------------------------------------
Ready == CASE sock = "connecting" -> {}
           [] sock = "open" -> {"write"} \union (IF inbox # <<>> THEN {"read"} ELSE {})
           [] OTHER -> {"read", "write"}

\* libevent calls redisLibeventHandler, for the timer or for the socket.
Fire == /\ pc = "loop" /\ record.added
        /\ batch' \in {{"timeout"} : x \in IF record.tv = "none" THEN {} ELSE {1}}
                       \union ({record.flags \intersect Ready} \ {{}})
        /\ record' = [record EXCEPT !.entered = TRUE]
        /\ pc' = "handler"
        /\ UNCHANGED <<options, peer, obuf, reader, replies, flags, freed, issued, called, history>>

Handling(event) == /\ pc = "handler" /\ event \in batch
                   /\ event = "write" => "read" \notin batch

\* The connect callback runs without REDIS_IN_CALLBACK: to disconnect without
\* pending commands, or to free, in it, frees the context under the handler's feet.
FreesItself(what) == what = "free" \/ (what = "disconnect" /\ replies = <<>>)

\* __redisAsyncHandleConnect at the first event on a socket that is connected.
Connected(what) ==
  /\ \E event \in {"read", "write"} : Handling(event)
  /\ ~connected /\ sock \in {"open", "closed"}
  /\ onConnect' = "ok" /\ connected' = TRUE
  /\ touched' = (touched \/ FreesItself(what))
  /\ pc' = IF FreesItself(what) THEN "over" ELSE pc
  /\ Does(what, replies, record)
  /\ UNCHANGED <<peer, reader, err, freed, batch, called, onDisconnect>>

\* The attempt has failed: the connect callback, then __redisAsyncDisconnect.
ConnectFailed(what) ==
  /\ \E event \in {"read", "write"} : Handling(event)
  /\ ~connected /\ sock = "refused" /\ what \in {"nothing", "command"}
  /\ onConnect' = "error" /\ batch' = {} /\ err' = "io"
  /\ LET takes == what = "command" /\ issued < MaxCommands /\ ~disconnecting
     IN /\ replies' = IF takes THEN Append(replies, issued + 1) ELSE replies
        /\ issued' = IF takes THEN issued + 1 ELSE issued
  /\ disconnecting' = TRUE /\ record' = Cleanup(record)
  /\ pc' = IF options.keep THEN "return" ELSE "free"
  /\ UNCHANGED <<options, peer, obuf, reader, connected, freeing, freed, called, onDisconnect,
                 touched>>

\* redisAsyncHandleTimeout: nothing if the context is idle.
HandleTimeout ==
  /\ Handling("timeout") /\ batch' = batch \ {"timeout"}
  /\ IF connected /\ replies = <<>> THEN pc' = "return" /\ UNCHANGED <<err, onConnect>>
     ELSE /\ pc' = "expire" /\ err' = IF err = "none" THEN "timeout" ELSE err
          /\ onConnect' = IF connected THEN onConnect ELSE "error"
  /\ UNCHANGED <<options, peer, obuf, reader, replies, connected, disconnecting, freeing, freed,
                 record, issued, called, onDisconnect, touched>>

\* It runs the callbacks before the context is disconnecting: they may add commands,
\* whose callbacks it runs too.
Expire(what) ==
  /\ pc = "expire" /\ replies # <<>>
  /\ RunCallback(what, NoReply)
  /\ UNCHANGED <<peer, reader, connected, err, freed, pc, batch, history>>

ExpireEnds ==
  /\ pc = "expire" /\ replies = <<>> /\ AsyncDisconnect(err)
  /\ UNCHANGED <<options, peer, obuf, reader, replies, connected, freeing, freed, batch, issued,
                 called, history>>

\* redisAsyncHandleRead: the replies that are there, or the end of the stream.
HandleRead(k) ==
  /\ Handling("read") /\ connected /\ batch' = batch \ {"read"} /\ k \in 1..Len(inbox)
  /\ reader' = SubSeq(inbox, 1, k) /\ inbox' = SubSeq(inbox, k + 1, Len(inbox))
  /\ record' = AddRead(record) /\ pc' = "replies"
  /\ UNCHANGED <<options, sock, wire, obuf, replies, flags, freed, issued, called, history>>

HandleReadError ==
  /\ Handling("read") /\ connected /\ sock = "closed" /\ inbox = <<>>
  /\ batch' = batch \ {"read"} /\ AsyncDisconnect("io")
  /\ UNCHANGED <<options, peer, obuf, reader, replies, connected, freeing, freed, issued, called,
                 history>>

\* redisProcessCallbacks: a callback per reply; a free in one of them takes place
\* after it, a disconnection after the last reply.
ProcessReply(what) ==
  /\ pc = "replies" /\ reader # <<>>
  /\ RunCallback(what, Head(reader)) /\ reader' = Tail(reader)
  /\ pc' = IF freeing' THEN "free" ELSE pc
  /\ UNCHANGED <<peer, connected, err, freed, batch, history>>

ProcessEnds ==
  /\ pc = "replies" /\ reader = <<>>
  /\ IF disconnecting /\ obuf = <<>> /\ replies = <<>> THEN AsyncDisconnect(err)
     ELSE pc' = "return" /\ UNCHANGED <<err, disconnecting, record>>
  /\ UNCHANGED <<options, peer, obuf, reader, replies, connected, freeing, freed, batch, issued,
                 called, history>>

\* redisAsyncHandleWrite: a part of the commands, into a socket that may be dead.
HandleWrite(k) ==
  /\ Handling("write") /\ connected /\ batch' = batch \ {"write"}
  /\ k \in 0..Len(obuf) /\ (k = 0 => obuf = <<>>)
  /\ obuf' = SubSeq(obuf, k + 1, Len(obuf))
  /\ wire' = IF sock = "open" THEN wire \o SubSeq(obuf, 1, k) ELSE wire
  /\ record' = AddRead(IF obuf' = <<>> THEN Updated(record, "write", TRUE) ELSE AddWrite(record))
  /\ pc' = "return"
  /\ UNCHANGED <<options, sock, inbox, reader, replies, flags, freed, issued, called, history>>

HandleWriteError ==
  /\ Handling("write") /\ connected /\ sock = "closed" /\ obuf # <<>>
  /\ batch' = batch \ {"write"} /\ AsyncDisconnect("io")
  /\ UNCHANGED <<options, peer, obuf, reader, replies, connected, freeing, freed, issued, called,
                 history>>

\* __redisAsyncFree: the pending callbacks with NULL, then the end of all.
FreePending(what) ==
  /\ pc = "free" /\ replies # <<>> /\ what # "command"
  /\ RunCallback(what, NoReply)
  /\ UNCHANGED <<peer, reader, connected, err, freed, pc, batch, history>>

FreeContext ==
  /\ pc = "free" /\ replies = <<>>
  /\ record' = Cleanup(record)
  /\ onDisconnect' = (IF ~connected THEN onDisconnect
                      ELSE IF freeing \/ err = "none" THEN "ok" ELSE "error")
  /\ freed' = TRUE /\ pc' = "return" /\ obuf' = <<>> /\ reader' = <<>>
  /\ UNCHANGED <<options, peer, replies, flags, batch, issued, called, onConnect, touched>>

\* The library returns: CHECK_DELETED, or the next event, in the handler.
Return ==
  /\ pc = "return"
  /\ touched' = (touched \/ (record.entered /\ record.destroyed))
  /\ IF record.deleted THEN /\ record' = [record EXCEPT !.deleted = FALSE, !.destroyed = TRUE,
                                                       !.entered = FALSE]
                            /\ batch' = {} /\ pc' = "loop"
     ELSE /\ pc' = IF batch = {} THEN "loop" ELSE "handler"
          /\ record' = [record EXCEPT !.entered = batch # {}]
          /\ UNCHANGED batch
  /\ UNCHANGED <<options, peer, obuf, reader, replies, flags, freed, issued, called, onConnect,
                 onDisconnect>>

-----------------------------------------------------------------------------
Establish == /\ sock = "connecting" /\ sock' \in {"open", "refused"}
             /\ UNCHANGED <<options, wire, inbox, obuf, reader, replies, flags, freed, record, pc,
                            batch, issued, called, history>>

Answer == /\ sock = "open" /\ wire # <<>> /\ ~freed
          /\ inbox' = Append(inbox, Head(wire)) /\ wire' = Tail(wire)
          /\ UNCHANGED <<options, sock, obuf, reader, replies, flags, freed, record, pc, batch,
                         issued, called, history>>

ServerCloses == /\ sock = "open" /\ ~freed /\ sock' = "closed" /\ wire' = <<>>
                /\ UNCHANGED <<options, inbox, obuf, reader, replies, flags, freed, record, pc,
                               batch, issued, called, history>>

Loop == \/ Fire \/ HandleTimeout \/ ExpireEnds \/ HandleReadError \/ ProcessEnds
        \/ HandleWriteError \/ FreeContext \/ Return
        \/ \E what \in Choices : \/ Connected(what) \/ ConnectFailed(what) \/ Expire(what)
                                \/ ProcessReply(what) \/ FreePending(what)
        \/ \E k \in 0..MaxCommands : HandleRead(k) \/ HandleWrite(k)

Next == \/ Command \/ Disconnect \/ AsyncFree \/ SetTimeout
        \/ Loop \/ Establish \/ Answer \/ ServerCloses

Spec == Init /\ [][Next]_vars
FairSpec == Spec /\ WF_vars(Loop) /\ WF_vars(Establish)

-----------------------------------------------------------------------------
TypeOK ==
  /\ options \in [connect : BOOLEAN, command : BOOLEAN, keep : BOOLEAN]
  /\ sock \in {"connecting", "refused", "open", "closed"}
  /\ {wire, inbox, obuf, reader, replies} \subseteq Seq(1..MaxCommands)
  /\ {connected, disconnecting, freeing, freed, touched} \subseteq BOOLEAN
  /\ err \in {"none", "io", "timeout"}
  /\ record.flags \subseteq {"read", "write"} /\ record.tv \in {"none", "connect", "command"}
  /\ pc \in {"loop", "handler", "replies", "expire", "free", "return", "over"}
  /\ batch \subseteq {"timeout", "read", "write"} /\ issued \in 0..MaxCommands
  /\ called \in Seq((1..MaxCommands) \X (0..MaxCommands))
  /\ {onConnect, onDisconnect} \subseteq {"none", "ok", "error"}

\* The callback of every command that was accepted runs exactly once, in order, with
\* its own reply or with NULL, and before the context is freed; the disconnect
\* callback runs at the end, and only if the connect callback reported success.
CallbacksComplete ==
  /\ [i \in DOMAIN called |-> called[i][1]] \o replies = [i \in 1..issued |-> i]
  /\ \A i \in DOMAIN called : called[i][2] \in {i, NoReply}
  /\ freed => replies = <<>> /\ (onDisconnect # "none") = (onConnect = "ok")
  /\ onDisconnect # "none" => freed

\* Neither the context nor its event record is used after it is freed, and neither
\* outlives the other but for the handler that is running, a context with
\* REDIS_NO_AUTO_FREE, and one that failed with it and was then asked to disconnect
\* with commands pending, which it never does; a request to free it is honoured, but
\* for one made by a timed out command of such a context.  All of this unless the
\* connect callback ends the connection.
NotUsedAfterFree ==
  pc # "over" =>
    /\ ~touched
    /\ pc = "loop" => /\ freed => record.destroyed
                      /\ record.destroyed /\ ~freed => options.keep \/ replies # <<>>
                      /\ freeing => freed \/ options.keep
    /\ record.added => ~freed
    /\ err = "none" /\ pc = "free" /\ ~freeing => replies = <<>>

\* A command fails by a timeout only if the program has asked for one; but for the
\* timer of the connecting, which goes on for the commands if these have none.
TimeoutAsked ==
  err = "timeout" => IF onConnect = "ok" THEN options.command \/ record.tv = "connect"
                     ELSE options.connect

\* With a timer no command waits for ever, whatever the server does; a context with
\* REDIS_NO_AUTO_FREE that has failed waits for the program to free it.
TimerArmed == /\ record.added /\ record.tv # "none"
Waiting == /\ replies # <<>> /\ pc # "over" /\ TimerArmed
=============================================================================
