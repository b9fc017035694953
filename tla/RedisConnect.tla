----------------------------- MODULE RedisConnect -----------------------------
(***************************************************************************)
(* How a hiredis context gets and gives up its socket (redis_pool/net.c, and   *)
(* the constructors, redisReconnect and redisFree of redis_pool/hiredis.c),    *)
(* in a process whose other threads open and close descriptors of their own:   *)
(* the system hands out the lowest free number, so that a number closed by one  *)
(* is soon that of another.  Every system call may fail.                      *)
(***************************************************************************)
EXTENDS Integers, FiniteSets

CONSTANTS
  MaxFd,                   \* the process has the descriptors 0..MaxFd
  Addresses,               \* number of addresses that a name resolves to
  REDIS_CONNECT_RETRIES,
  MaxOpened                \* bound on the sockets and files opened

Fds == 0..MaxFd

VARIABLES
  files,         \* descriptor -> "free", "ours" (the context's) or "theirs"
  kind,          \* the constructor's choices: TCP or Unix, blocking, the timeout
                 \* valid, a source address, SO_REUSEADDR
  fd, err,       \* c->fd and c->err
  connection_type,
  p, reuses,     \* the address that is tried, and the retries
  pc,            \* where the connecting is; "none" without a context, "idle" after
  socket,        \* truth about c->fd: "none", "made", "pending" or "connected"
  blocking,      \* and whether it blocks
  opened,        \* counts the descriptors made
  stale,         \* history: c->fd is a number that redisReconnect has closed
  robbed,        \* history: a descriptor of another thread was closed, and
                 \* c->fd was not stale
  silent         \* history: the last connecting failed without setting err

context == <<kind, connection_type>>
vars == <<files, context, fd, err, p, reuses, pc, socket, blocking, opened, stale, robbed,
          silent>>

\* The constructors, by what they set: only the blocking ones have a timeout, which may
\* be bad, and only the non-blocking ones of TCP a source address.
Kinds ==
  {k \in [tcp : BOOLEAN, block : BOOLEAN, timeout : {"none", "bad"}, source : BOOLEAN,
          reuse : BOOLEAN] :
     /\ k.timeout = "bad" => k.block
     /\ k.source => k.tcp /\ ~k.block
     /\ k.reuse => k.source}

NoKind == [tcp |-> TRUE, block |-> TRUE, timeout |-> "none", source |-> FALSE, reuse |-> FALSE]

Init == /\ files = [d \in Fds |-> IF d = 0 THEN "theirs" ELSE "free"]
        /\ kind = NoKind /\ fd = -1 /\ err = FALSE /\ connection_type = "none"
        /\ p = 1 /\ reuses = 0 /\ pc = "none" /\ socket = "none" /\ blocking = TRUE
        /\ opened = 0 /\ stale = FALSE /\ robbed = FALSE /\ silent = FALSE

FreeFds == {d \in Fds : files[d] = "free"}
Lowest == CHOOSE d \in FreeFds : \A o \in FreeFds : d <= o

\* close(fd), whoever has the number now.
CloseNumber == /\ files' = [files EXCEPT ![fd] = "free"]
               /\ robbed' = (robbed \/ (files[fd] = "theirs" /\ ~stale))

\* The connecting ends: with err, or silently, or with success.
Failed == pc' = "idle" /\ err' = TRUE /\ silent' = FALSE
FailedSilently == pc' = "idle" /\ silent' = TRUE /\ UNCHANGED err
GoOn(where) == pc' = where /\ UNCHANGED <<err, silent>>


\* redisContextCloseFd
CloseFd == /\ fd' = -1 /\ socket' = "none"
           /\ IF fd >= 0 THEN CloseNumber ELSE UNCHANGED <<files, robbed>>

NextAddress == p' = p + 1 /\ GoOn("socket")
KeepFd == UNCHANGED <<fd, socket, files, robbed>>

-----------------------------------------------------------------------------
\* The other threads.
OpenFile == /\ FreeFds # {} /\ opened < MaxOpened /\ opened' = opened + 1
            /\ files' = [files EXCEPT ![Lowest] = "theirs"]
            /\ UNCHANGED <<context, fd, err, p, reuses, pc, socket, blocking, stale, robbed, silent>>
CloseFile(d) == /\ files[d] = "theirs" /\ files' = [files EXCEPT ![d] = "free"]
                /\ UNCHANGED <<context, fd, err, p, reuses, pc, socket, blocking, opened, stale,
                               robbed, silent>>

-----------------------------------------------------------------------------
\* redisContextInit zeroes the context, c->fd too, and the connecting begins.
Create(k) ==
  /\ pc = "none"
  /\ kind' = k /\ connection_type' = IF k.tcp THEN "tcp" ELSE "none"
  /\ fd' = 0 /\ err' = FALSE /\ silent' = FALSE
  /\ pc' = (IF k.tcp THEN "timeout" ELSE "socket") /\ p' = 1 /\ reuses' = 0
  /\ UNCHANGED <<files, socket, blocking, opened, stale, robbed>>

\* redisReconnect closes the socket, and leaves its number in c->fd.
Reconnect ==
  /\ pc = "idle"
  /\ IF fd > 0 THEN CloseNumber /\ stale' = TRUE /\ socket' = "none"
     ELSE UNCHANGED <<files, robbed, stale, socket>>
  /\ p' = 1 /\ reuses' = 0
  /\ CASE connection_type = "tcp" -> pc' = "timeout" /\ err' = FALSE /\ silent' = FALSE
       [] connection_type = "unix" -> pc' = "socket" /\ err' = FALSE /\ silent' = FALSE
       [] OTHER -> Failed
  /\ UNCHANGED <<context, fd, blocking, opened>>

\* redisFree spares the descriptor 0.
Free ==
  /\ pc = "idle"
  /\ IF fd > 0 THEN CloseNumber ELSE UNCHANGED <<files, robbed>>
  /\ kind' = NoKind /\ connection_type' = "none" /\ fd' = -1 /\ err' = FALSE
  /\ p' = 1 /\ reuses' = 0 /\ pc' = "none" /\ socket' = "none" /\ blocking' = TRUE
  /\ stale' = FALSE /\ silent' = FALSE
  /\ UNCHANGED opened

-----------------------------------------------------------------------------
\* redisContextTimeoutMsec
BadTimeout == kind.timeout = "bad"

\* A bad timeout is an error of the TCP connection; the Unix one returns without a
\* word.
CheckTimeout ==
  /\ pc = "timeout"
  /\ IF ~BadTimeout THEN GoOn(IF kind.tcp THEN "resolve" ELSE "connect")
     ELSE IF kind.tcp THEN Failed ELSE FailedSilently
  /\ KeepFd /\ UNCHANGED <<context, p, reuses, blocking, opened, stale>>

\* getaddrinfo for IPv4, then for IPv6.
Resolve == /\ pc = "resolve"
           /\ GoOn("socket") \/ Failed
           /\ KeepFd /\ UNCHANGED <<context, p, reuses, blocking, opened, stale>>

\* socket(2); without one the next address is tried.
MakeSocket ==
  /\ pc = "socket" /\ p <= Addresses /\ FreeFds # {} /\ opened < MaxOpened
  /\ fd' = Lowest /\ files' = [files EXCEPT ![Lowest] = "ours"]
  /\ socket' = "made" /\ blocking' = TRUE /\ stale' = FALSE /\ opened' = opened + 1
  /\ GoOn("nonblock")
  /\ UNCHANGED <<context, p, reuses, robbed>>
NoSocket ==
  /\ pc = "socket"
  /\ IF kind.tcp /\ p <= Addresses THEN NextAddress
     ELSE UNCHANGED p /\ Failed
  /\ KeepFd /\ UNCHANGED <<context, reuses, blocking, opened, stale>>

\* redisSetBlocking, redisSetTcpNoDelay: their failure closes the socket.
SetNonBlocking ==
  /\ pc = "nonblock" /\ blocking' = FALSE
  /\ connection_type' = IF kind.tcp THEN "tcp" ELSE "unix"
  /\ GoOn(IF ~kind.tcp THEN "timeout" ELSE IF kind.source THEN "bind" ELSE "connect")
  /\ KeepFd /\ UNCHANGED <<kind, p, reuses, opened, stale>>
SetBlocking ==
  /\ pc = "block" /\ blocking' = kind.block
  /\ IF kind.tcp THEN GoOn("nodelay") ELSE GoOn("idle")
  /\ KeepFd /\ UNCHANGED <<context, p, reuses, opened, stale>>
SetTcpNoDelay ==
  /\ pc = "nodelay" /\ GoOn("idle")
  /\ KeepFd /\ UNCHANGED <<context, p, reuses, blocking, opened, stale>>
OptionFails ==
  /\ pc \in {"nonblock", "nodelay"} \/ (pc = "block" /\ kind.block)
  /\ Failed /\ CloseFd
  /\ UNCHANGED <<context, p, reuses, blocking, opened, stale>>

\* The source address: getaddrinfo and bind set err, SO_REUSEADDR does not.
Bind == /\ pc = "bind"
        /\ \/ GoOn("connect") \/ Failed
           \/ kind.reuse /\ FailedSilently
        /\ KeepFd /\ UNCHANGED <<context, p, reuses, blocking, opened, stale>>

\* connect(2) succeeds, or is under way.
Connects ==
  /\ pc = "connect"
  /\ \/ socket' = "connected" /\ GoOn("block")
     \/ socket' = "pending" /\ GoOn(IF kind.block THEN "wait" ELSE "block")
  /\ UNCHANGED <<files, fd, robbed, context, p, reuses, blocking, opened, stale>>

\* EHOSTUNREACH: the next address.
Unreachable ==
  /\ pc = "connect" /\ kind.tcp
  /\ CloseFd /\ NextAddress
  /\ UNCHANGED <<context, reuses, blocking, opened, stale>>

\* EADDRNOTAVAIL with SO_REUSEADDR: again, a number of times.
AddrNotAvail ==
  /\ pc = "connect" /\ kind.reuse
  /\ reuses' = reuses + 1
  /\ IF reuses + 1 >= REDIS_CONNECT_RETRIES THEN FailedSilently /\ KeepFd
     ELSE GoOn("socket") /\ CloseFd
  /\ UNCHANGED <<context, p, blocking, opened, stale>>

\* redisContextWaitReady: another error, poll's, or its timeout.
NotReady == /\ pc \in {"connect", "wait"} /\ Failed /\ CloseFd
            /\ UNCHANGED <<context, p, reuses, blocking, opened, stale>>

\* The socket is ready, and redisCheckSocketError keeps it in any case.
Ready == /\ pc = "wait"
         /\ \/ socket' = "connected" /\ GoOn("block")
            \/ socket' = "made" /\ Failed
         /\ UNCHANGED <<files, fd, robbed, context, p, reuses, blocking, opened, stale>>

Next == \/ OpenFile \/ (\E d \in Fds : CloseFile(d))
        \/ (\E k \in Kinds : Create(k)) \/ Reconnect \/ Free
        \/ CheckTimeout \/ Resolve \/ MakeSocket \/ NoSocket
        \/ SetNonBlocking \/ SetBlocking \/ SetTcpNoDelay \/ OptionFails
        \/ Bind \/ Connects \/ Unreachable \/ AddrNotAvail \/ NotReady \/ Ready

Spec == Init /\ [][Next]_vars

-----------------------------------------------------------------------------
TypeOK ==
  /\ files \in [Fds -> {"free", "ours", "theirs"}] /\ kind \in Kinds
  /\ fd \in -1..MaxFd /\ {err, blocking, stale, robbed, silent} \subseteq BOOLEAN
  /\ connection_type \in {"none", "tcp", "unix"}
  /\ p \in 1..Addresses + 1 /\ reuses \in 0..REDIS_CONNECT_RETRIES /\ opened \in 0..MaxOpened
  /\ pc \in {"none", "idle", "timeout", "resolve", "socket", "nonblock", "bind", "connect",
             "wait", "block", "nodelay"}
  /\ socket \in {"none", "made", "pending", "connected"}

\* The context closes no descriptor of another thread, but for the number that
\* redisReconnect closed and, when the name no longer resolves or no socket is to be
\* had, closes again; and it loses none of its own, but for the number 0.
DescriptorsOwned ==
  /\ ~robbed
  /\ \A d \in Fds \ {0} : files[d] = "ours" => d = fd /\ socket # "none"
  /\ socket # "none" => files[fd] = "ours"

\* A context without an error is connected, or will be if it does not block, and
\* blocks as it should; but for the three failures that set no error.
ErrorReported ==
  pc = "idle" /\ ~err /\ ~silent =>
    /\ socket = "connected" \/ (socket = "pending" /\ ~kind.block)
    /\ blocking = kind.block
=============================================================================
