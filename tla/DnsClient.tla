------------------------------ MODULE DnsClient ------------------------------
(***************************************************************************)
(* The asynchronous DNS request pool of async_dns_client_noblock.c.  The        *)
(* committing thread opens a socket per query, sends it and registers a        *)
(* context with epoll; the thread dns_async_client_proc waits for events,      *)
(* calls the callback of the context, closes the socket and frees the         *)
(* context.  The two threads share nothing but epoll and the table of file     *)
(* descriptors, whose numbers are used again.  The name server (external)      *)
(* answers a query once or not at all.                                         *)
(***************************************************************************)
EXTENDS Naturals, Sequences, SequencesExt, FiniteSets

CONSTANTS
  Queries,     \* the number of queries committed, in order
  Fds          \* the file descriptors there are for sockets, numbered from 1

NONE == 0

VARIABLES
  pc,          \* the committing thread: "socket", "sendto", "add" or "exited"
  next,        \* the query it is at
  sockfd,      \* its local variable
  socket,      \* per descriptor: the query whose socket it is, NONE when closed
  sent,        \* queries the server may answer, with the socket they came from
  inbox,       \* queries whose socket has an answer to read
  epoll,       \* registered: <<descriptor, context>>
  proc,        \* "wait", "event" or "close"
  events,      \* the events of the batch that are not handled yet
  freed,       \* contexts freed
  results      \* history: <<context, query answered>> of the callbacks

commit == <<pc, next, sockfd>>
client == <<proc, events, freed, results>>
vars == <<commit, socket, sent, inbox, epoll, client>>

\* A context is named after its query.
Init == /\ pc = "socket" /\ next = 1 /\ sockfd = NONE
        /\ socket = [fd \in Fds |-> NONE] /\ sent = {} /\ inbox = {}
        /\ epoll = {} /\ proc = "wait" /\ events = <<>> /\ freed = {} /\ results = <<>>

\* socket takes the lowest free number; without one the program exits.
Socket ==
  /\ pc = "socket" /\ next <= Queries
  /\ LET free == {fd \in Fds : socket[fd] = NONE} IN
       IF free = {}
       THEN pc' = "exited" /\ UNCHANGED <<sockfd, socket>>
       ELSE /\ sockfd' = CHOOSE fd \in free : \A other \in free : fd <= other
            /\ socket' = [socket EXCEPT ![sockfd'] = next]
            /\ pc' = "sendto"
  /\ UNCHANGED <<next, sent, inbox, epoll, client>>

\* The query is sent before its context is registered.
Sendto == /\ pc = "sendto" /\ pc' = "add"
          /\ sent' = sent \union {next}
          /\ UNCHANGED <<next, sockfd, socket, inbox, epoll, client>>

\* epoll_ctl ADD, and the next commit.
Add == /\ pc = "add" /\ pc' = "socket"
       /\ epoll' = epoll \union {<<sockfd, next>>}
       /\ next' = next + 1
       /\ UNCHANGED <<sockfd, socket, sent, inbox, client>>

\* Level triggered: an answer that came before the registration is seen, too.
Ready == {e \in epoll : socket[e[1]] \in inbox}

\* epoll_wait
Wait == /\ proc = "wait" /\ pc # "exited" /\ Ready # {}
        /\ proc' = "event"
        /\ \E batch \in SetToAllKPermutations(Ready) :
             Len(batch) > 0 /\ events' = batch
        /\ UNCHANGED <<commit, socket, sent, inbox, epoll, freed, results>>

\* One event: recvfrom, the callback with what the socket of the descriptor has
\* received (NONE when there is nothing), and the removal from epoll.
Event == /\ proc = "event" /\ pc # "exited"
         /\ LET fd == Head(events)[1]
                context == Head(events)[2]
                answer == IF socket[fd] \in inbox THEN socket[fd] ELSE NONE
            IN /\ results' = Append(results, <<context, answer>>)
               /\ inbox' = inbox \ {answer}
               /\ epoll' = {e \in epoll : e[1] # fd}
         /\ proc' = "close"
         /\ UNCHANGED <<commit, socket, sent, events, freed>>

\* close and the release of the context.
Close == /\ proc = "close" /\ pc # "exited"
         /\ socket' = [socket EXCEPT ![Head(events)[1]] = NONE]
         /\ freed' = freed \union {Head(events)[2]}
         /\ events' = Tail(events)
         /\ proc' = IF events' = <<>> THEN "wait" ELSE "event"
         /\ UNCHANGED <<commit, sent, inbox, epoll, results>>

\* The server answers, or the query or its answer is lost.
Answer(q) == /\ q \in sent /\ sent' = sent \ {q} /\ inbox' = inbox \union {q}
             /\ UNCHANGED <<commit, socket, epoll, client>>
Lose(q) == /\ q \in sent /\ sent' = sent \ {q}
           /\ UNCHANGED <<commit, socket, inbox, epoll, client>>

Committer == Socket \/ Sendto \/ Add
Proc == Wait \/ Event \/ Close

Next == \/ Committer \/ Proc
        \/ \E q \in 1..Queries : Answer(q) \/ Lose(q)

Spec == Init /\ [][Next]_vars
FairSpec == Spec /\ WF_vars(Committer) /\ WF_vars(Proc)

-----------------------------------------------------------------------------
TypeOK ==
  /\ pc \in {"socket", "sendto", "add", "exited"} /\ next \in 1..(Queries + 1)
  /\ sockfd \in Fds \union {NONE} /\ socket \in [Fds -> 0..Queries]
  /\ sent \subseteq 1..Queries /\ inbox \subseteq 1..Queries
  /\ epoll \subseteq Fds \X (1..Queries)
  /\ proc \in {"wait", "event", "close"} /\ events \in Seq(Fds \X (1..Queries))
  /\ freed \subseteq 1..Queries
  /\ results \in Seq((1..Queries) \X (0..Queries))

\* The callback of a query is called at most once and with the answer to its own
\* query, though answers come in any order, before the registration or in one
\* batch, and descriptors are used again while a batch is handled; a context is
\* freed only after its callback; and a socket is open as long as its query is
\* on the way, but not longer.
QueriesAccounted ==
  /\ \A i \in DOMAIN results : results[i][1] = results[i][2]
  /\ \A i, j \in DOMAIN results : i # j => results[i] # results[j]
  /\ \A q \in freed : \E i \in DOMAIN results : results[i][1] = q
  /\ \A e \in epoll : socket[e[1]] = e[2] /\ e[2] \notin freed
  /\ {q \in 1..Queries : \E fd \in Fds : socket[fd] = q} \intersect freed = {}

\* Every answer that arrives is handed to its callback, unless the program has run
\* out of descriptors: a lost answer keeps its socket for ever.
AnswerDelivered == []<>(inbox = {} \/ pc = "exited")
=============================================================================
