------------------------------ MODULE RedisPubSub ------------------------------
(***************************************************************************)
(* Publish/subscribe on one connection of hiredis/async.c: a program that     *)
(* mixes SUBSCRIBE, UNSUBSCRIBE and ordinary commands, also from callbacks,   *)
(* a server that answers in order and sends messages, and                   *)
(* redisProcessCallbacks, which finds the callback of each reply.            *)
(*                                                                         *)
(* Channels and patterns are names of one table here: the code keeps two, and *)
(* looks only at the sum of their sizes.  Replies to ordinary commands are no *)
(* arrays; a server whose client is subscribed answers them, or with an error *)
(* (RESP2).  Requests are written at once; MONITOR and out-of-band pushes are *)
(* not modelled.                                                           *)
(***************************************************************************)
EXTENDS Integers, Sequences, SequencesExt

CONSTANTS
  Lists,        \* the lists of channels in the requests of the program
  MaxIssued,    \* bound on the requests of the program
  MaxInbox      \* bound on the replies not yet read, for messages

NoCallback == <<>>

VARIABLES
  subs, wire, inbox,   \* the server's subscriptions, commands and replies under way
  replies, invalid,    \* ac->replies and ac->sub.invalid: numbers of commands
  pending,             \* the callback table: pending_subs of the channels in it
  subscribed,          \* REDIS_SUBSCRIBED
  cb,                  \* the local of redisProcessCallbacks: <<command>>, <<channel>>
                       \* or NoCallback; it lives as long as the batch of replies
  phase,               \* "idle", "batch", "callback" (in one), "freed" or "crashed"
  issued,              \* number of requests: a command is named by its number
  calls,               \* history: how often each command's callback ran
  wrong,               \* history: a callback got a reply that is not its own
  orphaned,            \* history: SUBSCRIBED was cleared with commands in invalid
  needless,             \* history: a channel was unsubscribed that would not be subscribed
  carried              \* history: a channel took over the count of another one

server == <<subs, wire, inbox>>
table == <<replies, invalid, pending, subscribed>>
history == <<calls, wrong, orphaned, needless, carried>>
vars == <<server, table, cb, phase, issued, history>>

Commands == DOMAIN calls   \* those issued, not (UN)SUBSCRIBE
Channels == UNION {Range(list) : list \in Lists}

Init == /\ subs = {} /\ wire = <<>> /\ inbox = <<>>
        /\ replies = <<>> /\ invalid = <<>> /\ pending = [c \in {} |-> 0]
        /\ subscribed = FALSE
        /\ cb = NoCallback /\ phase = "idle" /\ issued = 0
        /\ calls = [i \in {} |-> 0]
        /\ wrong = FALSE /\ orphaned = FALSE /\ needless = FALSE /\ carried = FALSE

\* The server's subscriptions after a command, and after all of the wire.
Served(now, c) ==
  LET channels == {c.list[n] : n \in DOMAIN c.list}
  IN IF c.type = "subscribe" THEN now \union channels
     ELSE IF c.type = "unsubscribe" THEN now \ channels ELSE now
WillBe(now, commands) == FoldLeft(Served, now, commands)

\* A request, from the program or from a callback.
Request(type, list) ==
  /\ phase \in {"idle", "callback"} /\ issued < MaxIssued
  /\ issued' = issued + 1
  /\ wire' = Append(wire, [type |-> type, list |-> list])

\* SUBSCRIBE of __redisAsyncCommand: cb.pending_subs is set for a channel that is
\* in the table, and stays set for the next channel of the same command.
Subscribe(list) ==
  LET Step(t, n) ==   \* t: the table and cb.pending_subs after n channels
        LET c == list[n]
            count == IF c \in DOMAIN t.pending THEN t.pending[c] + 1 ELSE t.count
        IN [pending |-> [d \in DOMAIN t.pending \union {c} |->
                           IF d = c THEN count ELSE t.pending[d]],
            count |-> count,
            carried |-> t.carried \/ (c \notin DOMAIN t.pending /\ count # 1)]
      done[n \in 0..Len(list)] ==
        IF n = 0 THEN [pending |-> pending, count |-> 1, carried |-> carried]
        ELSE Step(done[n - 1], n)
  IN /\ Request("subscribe", list)
     /\ subscribed' = TRUE
     /\ pending' = done[Len(list)].pending
     /\ carried' = done[Len(list)].carried
     /\ UNCHANGED <<subs, inbox, replies, invalid, cb, phase, calls, wrong,
                    orphaned, needless>>

\* UNSUBSCRIBE: refused unless SUBSCRIBED, and no callback of its own.
Unsubscribe(list) ==
  /\ subscribed
  /\ Request("unsubscribe", list)
  /\ needless' = (needless \/ \E n \in DOMAIN list :
                   list[n] \notin WillBe(subs, wire) \ {list[k] : k \in 1..n - 1})
  /\ UNCHANGED <<subs, inbox, table, cb, phase, calls, wrong, orphaned, carried>>

\* Any other command.
Command ==
  /\ Request("command", <<issued + 1>>)
  /\ calls' = [i \in Commands \union {issued'} |-> IF i = issued' THEN 0 ELSE calls[i]]
  /\ IF subscribed THEN invalid' = Append(invalid, issued') /\ UNCHANGED replies
     ELSE replies' = Append(replies, issued') /\ UNCHANGED invalid
  /\ UNCHANGED <<subs, inbox, pending, subscribed, cb, phase, wrong, orphaned, needless,
                 carried>>

-----------------------------------------------------------------------------
Alive == phase \notin {"freed", "crashed"}

\* The server answers the next command: each channel of a list by itself.
Answer ==
  /\ Alive /\ wire # <<>> /\ Len(inbox) < MaxInbox
  /\ LET c == Head(wire)
         After(n) == Served(subs, [c EXCEPT !.list = SubSeq(@, 1, n)])
     IN IF c.type = "command"
        THEN /\ \E type \in {"value"} \union (IF subs = {} THEN {} ELSE {"error"}) :
                  inbox' = Append(inbox, [type |-> type, of |-> c.list[1]])
             /\ UNCHANGED subs
        ELSE /\ inbox' = inbox \o [n \in 1..Len(c.list) |->
                                     [type |-> c.type, of |-> c.list[n],
                                      left |-> After(n) # {}]]
             /\ subs' = After(Len(c.list))
  /\ wire' = Tail(wire)
  /\ UNCHANGED <<table, cb, phase, issued, history>>

Publish(c) ==
  /\ Alive /\ c \in subs /\ Len(inbox) < MaxInbox
  /\ inbox' = Append(inbox, [type |-> "message", of |-> c])
  /\ UNCHANGED <<subs, wire, table, cb, phase, issued, history>>

-----------------------------------------------------------------------------
\* redisProcessCallbacks begins when the socket is readable.
BeginBatch ==
  /\ phase = "idle" /\ inbox # <<>>
  /\ phase' = "batch" /\ cb' = NoCallback
  /\ UNCHANGED <<server, table, issued, history>>

EndBatch ==
  /\ phase \in {"batch", "callback"}
  /\ phase' = "idle" /\ cb' = NoCallback
  /\ UNCHANGED <<server, table, issued, history>>

\* __redisRunCallback of the callback found, if there is one.
RunCallback(reply) ==
  /\ phase' = IF cb' = NoCallback THEN "batch" ELSE "callback"
  /\ calls' = [i \in Commands |-> calls[i] + (IF cb' = <<i>> THEN 1 ELSE 0)]
  /\ wrong' = (wrong \/ cb' \notin {NoCallback, <<reply.of>>})

Read == /\ phase \in {"batch", "callback"} /\ inbox # <<>>
        /\ inbox' = Tail(inbox)

\* A pending command takes the reply, whatever it is.
ReplyToCommand ==
  /\ Read /\ replies # <<>>
  /\ cb' = <<Head(replies)>> /\ replies' = Tail(replies)
  /\ RunCallback(Head(inbox))
  /\ UNCHANGED <<subs, wire, invalid, pending, subscribed, issued, orphaned, needless, carried>>

\* An error that no pending command waits for disconnects.
ReplyError ==
  /\ Read /\ replies = <<>> /\ Head(inbox).type = "error"
  /\ phase' = "freed" /\ cb' = NoCallback
  /\ calls' = [i \in Commands |-> calls[i] + (IF \E n \in DOMAIN invalid : invalid[n] = i
                                              THEN 1 ELSE 0)]
  /\ invalid' = <<>>
  /\ UNCHANGED <<subs, wire, replies, pending, subscribed, issued, wrong, orphaned, needless,
                 carried>>

\* The assertion that the context is subscribed.
ReplyUnexpected ==
  /\ Read /\ replies = <<>> /\ Head(inbox).type # "error" /\ ~subscribed
  /\ phase' = "crashed"
  /\ UNCHANGED <<subs, wire, table, cb, issued, history>>

\* __redisGetSubscribeCallback: a reply that is no array goes to the next invalid
\* command, if there is one.
ReplyToInvalid ==
  /\ Read /\ replies = <<>> /\ subscribed /\ Head(inbox).type = "value"
  /\ IF invalid = <<>> THEN UNCHANGED <<cb, invalid>>
     ELSE cb' = <<Head(invalid)>> /\ invalid' = Tail(invalid)
  /\ RunCallback(Head(inbox))
  /\ UNCHANGED <<subs, wire, replies, pending, subscribed, issued, orphaned, needless, carried>>

\* Mutant: an unsubscribe reply removes the channel also when it is subscribed again.
RemovedAlways(reply) ==
  IF reply.type = "unsubscribe" THEN [c \in DOMAIN pending \ {reply.of} |-> pending[c]]
  ELSE IF reply.type = "subscribe" THEN [pending EXCEPT ![reply.of] = @ - 1]
  ELSE pending

\* The table after a reply about a channel that is in it.
Counted(reply) ==
  IF reply.type = "unsubscribe" /\ pending[reply.of] = 0
  THEN [c \in DOMAIN pending \ {reply.of} |-> pending[c]]
  ELSE IF reply.type = "subscribe" THEN [pending EXCEPT ![reply.of] = @ - 1]
  ELSE pending

\* __redisGetSubscribeCallback for a subscribe, unsubscribe or message reply; a
\* channel that is not in the table leaves the callback of the reply before.
ReplyToChannel ==
  LET reply == Head(inbox)
      known == reply.of \in DOMAIN pending
  IN /\ Read /\ replies = <<>> /\ subscribed
     /\ reply.type \in {"subscribe", "unsubscribe", "message"}
     /\ IF known THEN cb' = <<reply.of>> /\ pending' = Counted(reply)
        ELSE UNCHANGED <<cb, pending>>
     /\ subscribed' = ~(/\ known /\ reply.type = "unsubscribe"
                        /\ ~reply.left /\ DOMAIN pending' = {})
     /\ orphaned' = (orphaned \/ (~subscribed' /\ invalid # <<>>))
     /\ RunCallback(reply)
     /\ UNCHANGED <<subs, wire, replies, invalid, issued, needless, carried>>

\* The connection ends: the server closes it, or redisAsyncHandleTimeout finds
\* commands pending; __redisAsyncFree runs every callback with a NULL reply.
Disconnect ==
  /\ phase = "idle"
  /\ phase' = "freed"
  /\ calls' = [i \in Commands |-> calls[i] + (IF \E list \in {replies, invalid} :
                                                   \E n \in DOMAIN list : list[n] = i
                                              THEN 1 ELSE 0)]
  /\ replies' = <<>> /\ invalid' = <<>>
  /\ UNCHANGED <<server, pending, subscribed, cb, issued, wrong, orphaned, needless, carried>>

Next == \/ \E list \in Lists : Subscribe(list) \/ Unsubscribe(list)
        \/ Command \/ Answer
        \/ \E c \in Channels : Publish(c)
        \/ BeginBatch \/ EndBatch \/ Disconnect
        \/ ReplyToCommand \/ ReplyError \/ ReplyUnexpected \/ ReplyToInvalid \/ ReplyToChannel

Spec == Init /\ [][Next]_vars

-----------------------------------------------------------------------------
TypeOK ==
  /\ subs \subseteq Channels /\ DOMAIN pending \subseteq Channels
  /\ {replies, invalid} \subseteq Seq(Commands)
  /\ \A n \in DOMAIN wire : wire[n].type \in {"subscribe", "unsubscribe", "command"}
  /\ \A n \in DOMAIN inbox :
       inbox[n].type \in {"subscribe", "unsubscribe", "message", "value", "error"}
  /\ cb \in {NoCallback} \union {<<x>> : x \in Channels \union Commands}
  /\ phase \in {"idle", "batch", "callback", "freed", "crashed"}
  /\ issued \in 0..MaxIssued
  /\ {subscribed, wrong, orphaned, needless, carried} \subseteq BOOLEAN

\* Every reply reaches the callback of its own command or channel, the callback
\* of a command runs once, at the latest when the context is freed, and the
\* assertion of redisProcessCallbacks holds: unless a command was issued between
\* an UNSUBSCRIBE and its reply, so that its callback waits in the wrong list, or
\* a reply is about a channel that is not (any more) in the table.
CallbacksRouted ==
  ~orphaned /\ ~needless =>
    /\ ~wrong /\ phase # "crashed"
    /\ \A i \in Commands : calls[i] <= 1
    /\ phase = "freed" => \A i \in Commands : calls[i] = 1

\* When everything is answered, the table holds the channels that the server has
\* the connection subscribed to, and the connection counts as subscribed if there
\* are any: unless one SUBSCRIBE named a known channel before a new one, whose
\* count then starts too high, so that no UNSUBSCRIBE removes it.
TableAgrees ==
  phase = "idle" /\ wire = <<>> /\ inbox = <<>> /\ ~carried =>
    DOMAIN pending = subs /\ (subscribed <=> subs # {})
=============================================================================
