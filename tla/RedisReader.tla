----------------------------- MODULE RedisReader -----------------------------
(***************************************************************************)
(* The incremental parser of replies, hiredis/read.c, with the reply objects  *)
(* that hiredis.c builds for it.  redisReaderFeed appends whatever arrived;    *)
(* redisReaderGetReply parses one reply as far as the bytes go and goes on at  *)
(* the same place the next time.  One item of a reply is one action; nothing   *)
(* comes between the items of one call.                                     *)
(*                                                                         *)
(* A byte is a string of one letter, "CR", "LF", or a whole number, or an      *)
(* infinite double.  Numbers are not converted further.                        *)
(***************************************************************************)
EXTENDS Integers, Sequences, SequencesExt, FiniteSetsExt

CONSTANTS
  Streams,      \* what the peer may send: [replies, tail], see below
  STACK_SIZE,   \* REDIS_READER_STACK_SIZE
  DISCARD,      \* the buffer is cut when so many bytes are read (1024 in the code)
  maxelements

VARIABLES
  stream, fed,      \* a member of Streams, and how many of its bytes were fed
  buf, pos,
  task, tasks, ridx,   \* the stack of tasks: [type, elements, idx]
  built,            \* the objects of the reply so far: <<path, object>>
  err,              \* "none", "protocol", "oom" or "assert" (a failed assertion)
  phase,            \* "fed", "items" (inside GetReply), "drained" or "error"
  got               \* the replies emitted

input == <<stream, fed>>
vars == <<input, buf, pos, task, tasks, ridx, built, err, phase, got>>

Value == [n \in {"-2", "-1", "0", "1", "2", "3", "4", "5", "6", "7"} |->
            CASE n = "-2" -> -2 [] n = "-1" -> -1 [] n = "0" -> 0 [] n = "1" -> 1
              [] n = "2" -> 2 [] n = "3" -> 3 [] n = "4" -> 4 [] n = "5" -> 5
              [] n = "6" -> 6 [] n = "7" -> 7]
IsNumber(line) == Len(line) = 1 /\ line[1] \in DOMAIN Value
IsDouble(line) == IsNumber(line) \/ line \in {<<"inf">>, <<"-inf">>}

LineTypes == {"-", "+", ":", "_", ",", "#"}
BulkTypes == {"$", "="}
AggregateTypes == {"*", "%", "~", ">"}

Untyped(idx) == [type |-> "none", elements |-> -1, idx |-> idx]
Object(type, str, n) == [type |-> type, str |-> str, elements |-> n]
Nil == Object("_", <<>>, 0)

\* The text of the object of a line: a boolean is true for a T and false for
\* anything else.
LineText(type, line) ==
  CASE type = "_" -> <<>>
    [] type = "#" -> IF Len(line) > 0 /\ line[1] \in {"t", "T"} THEN <<"t">> ELSE <<"f">>
    [] OTHER      -> line

\* The bytes of the stream: its replies, and a tail that ends in an error.
RECURSIVE Encode(_), Objects(_, _)
CRLF == <<"CR", "LF">>
Digit(n) == CHOOSE s \in DOMAIN Value : Value[s] = n
Encode(r) ==
  CASE r.type \in LineTypes  -> <<r.type>> \o r.str \o CRLF
    [] r.type = "$"          -> <<"$", Digit(Len(r.str))>> \o CRLF \o r.str \o CRLF
    [] r.type = "="          -> <<"=", Digit(Len(r.str) + 4)>> \o CRLF
                                  \o <<"t", "x", "t", ":">> \o r.str \o CRLF
    [] r.type = "$nil"       -> <<"$", "-1">> \o CRLF
    [] r.type = "*nil"       -> <<"*", "-1">> \o CRLF
    [] r.type = "%"          -> <<"%", Digit(Len(r.sub) \div 2)>> \o CRLF
                                  \o FlattenSeq([i \in DOMAIN r.sub |-> Encode(r.sub[i])])
    [] OTHER                 -> <<r.type, Digit(Len(r.sub))>> \o CRLF
                                  \o FlattenSeq([i \in DOMAIN r.sub |-> Encode(r.sub[i])])
Encoded(replies) == FlattenSeq([i \in DOMAIN replies |-> Encode(replies[i])])
Bytes == Encoded(stream.replies) \o stream.tail

Init == /\ stream \in Streams /\ fed = 0
        /\ buf = <<>> /\ pos = 0
        /\ task = [i \in 0..(STACK_SIZE - 1) |-> Untyped(0)]
        /\ tasks = STACK_SIZE /\ ridx = -1
        /\ built = {} /\ err = "none" /\ phase = "fed" /\ got = <<>>

\* redisReaderFeed
Feed(k) ==
  /\ phase \in {"fed", "drained"} /\ fed + k <= Len(Bytes)
  /\ buf' = buf \o SubSeq(Bytes, fed + 1, fed + k)
  /\ fed' = fed + k /\ phase' = "fed"
  /\ UNCHANGED <<stream, pos, task, tasks, ridx, built, err, got>>

\* redisReaderGetReply up to its loop.
GetReply ==
  /\ phase \in {"fed", "drained"}
  /\ phase' = IF buf = <<>> THEN "drained" ELSE "items"
  /\ IF ridx = -1 /\ buf # <<>>
     THEN ridx' = 0 /\ task' = [task EXCEPT ![0] = Untyped(-1)]
     ELSE UNCHANGED <<ridx, task>>
  /\ UNCHANGED <<input, buf, pos, tasks, built, err, got>>

-----------------------------------------------------------------------------
\* seekNewline and readLine, from pos on.
Breaks == {i \in (pos + 1)..(Len(buf) - 1) : buf[i] = "CR" /\ buf[i + 1] = "LF"}
HasLine == Breaks # {}
Line == SubSeq(buf, pos + 1, Min(Breaks) - 1)
AfterLine == Min(Breaks) + 1

cur == task[ridx]
InItem == phase = "items" /\ ridx >= 0
\* redisReaderGrow has made the stack deep enough for the elements of an aggregate.
DeepEnough == cur.type \in AggregateTypes => ridx < tasks - 1

Length == Value[Line[1]]
BulkFits == AfterLine + Length + 2 <= Len(buf)
BulkText == SubSeq(buf, AfterLine + 1, AfterLine + Length)
VerbatimOK == cur.type = "=" => Length >= 4 /\ BulkText[4] = ":"

\* What is there of the current item does not have one of the protocol errors of
\* processItem and its functions.
WellFormed ==
  IF cur.type = "none"
  THEN pos < Len(buf) => buf[pos + 1] \in LineTypes \union BulkTypes \union AggregateTypes
  ELSE HasLine /\ DeepEnough =>
         /\ cur.type = "," => IsDouble(Line)
         /\ cur.type \notin LineTypes \ {":"} => IsNumber(Line)
         /\ cur.type \in BulkTypes =>
              Length >= -1 /\ (Length >= 0 /\ BulkFits => VerbatimOK)
         /\ cur.type \in AggregateTypes => Length \in -1..maxelements

\* The object of the current item goes into its place in its parent.
Create(object) == built' = built \union {<<[i \in 1..ridx |-> task[i].idx], object>>}

\* moveToNextTask: the innermost aggregate that still misses elements.
MoveToNextTask ==
  LET unfinished == {i \in 1..ridx : task[i].idx # task[i - 1].elements - 1}
  IN IF unfinished = {}
     THEN ridx' = -1 /\ UNCHANGED task
     ELSE /\ ridx' = Max(unfinished)
          /\ task' = [task EXCEPT ![ridx'] = Untyped(@.idx + 1)]

\* processItem: the type byte.
ReadType ==
  /\ InItem /\ cur.type = "none" /\ pos < Len(buf) /\ WellFormed
  /\ task' = [task EXCEPT ![ridx].type = buf[pos + 1]]
  /\ pos' = pos + 1
  /\ UNCHANGED <<input, buf, tasks, ridx, built, err, phase, got>>

\* createDoubleObject and createBoolObject do not expect a push reply as the parent.
Unexpected == cur.type \in {",", "#"} /\ ridx > 0 /\ task[ridx - 1].type = ">"

\* processLineItem
LineItem ==
  /\ InItem /\ cur.type \in LineTypes /\ HasLine /\ WellFormed /\ ~Unexpected
  /\ Create(Object(cur.type, LineText(cur.type, Line), 0))
  /\ pos' = AfterLine
  /\ MoveToNextTask
  /\ UNCHANGED <<input, buf, tasks, err, phase, got>>

\* processBulkItem: nil, or a string that is there with its line end.
BulkItem ==
  /\ InItem /\ cur.type \in BulkTypes /\ HasLine /\ WellFormed
  /\ IF Length = -1
     THEN Create(Nil) /\ pos' = AfterLine
     ELSE /\ BulkFits
          /\ Create(Object(cur.type, IF cur.type = "=" THEN SubSeq(BulkText, 5, Length)
                                                       ELSE BulkText, 0))
          /\ pos' = AfterLine + Length + 2
  /\ MoveToNextTask
  /\ UNCHANGED <<input, buf, tasks, err, phase, got>>

\* redisReaderGrow, called by processAggregateItem when the stack is full.
Grow ==
  /\ InItem /\ ~DeepEnough
  /\ tasks' = tasks + STACK_SIZE
  /\ task' = [i \in 0..(tasks' - 1) |-> IF i < tasks THEN task[i] ELSE Untyped(0)]
  /\ UNCHANGED <<input, buf, pos, ridx, built, err, phase, got>>

\* processAggregateItem: with elements to come, one more task.
AggregateItem ==
  /\ InItem /\ cur.type \in AggregateTypes /\ DeepEnough /\ HasLine /\ WellFormed
  /\ LET elements == IF cur.type = "%" THEN 2 * Length ELSE Length IN
       /\ Create(IF Length = -1 THEN Nil ELSE Object(cur.type, <<>>, elements))
       /\ IF elements > 0
          THEN /\ ridx' = ridx + 1
               /\ task' = [task EXCEPT ![ridx].elements = elements, ![ridx + 1] = Untyped(0)]
          ELSE MoveToNextTask
  /\ pos' = AfterLine
  /\ UNCHANGED <<input, buf, tasks, err, phase, got>>

\* The program ends in the assertion on the parent's type.
AssertionFails ==
  /\ InItem /\ cur.type \in LineTypes /\ HasLine /\ WellFormed /\ Unexpected
  /\ err' = "assert" /\ phase' = "error"
  /\ UNCHANGED <<input, buf, pos, task, tasks, ridx, built, got>>

\* freeReplyObject, of the root and so of all its elements.
Freed == built' = {}

\* __redisReaderSetError: the reply and the buffer are dropped, for good.
SetError(error) ==
  /\ err' = error /\ phase' = "error"
  /\ buf' = <<>> /\ pos' = 0 /\ ridx' = -1 /\ Freed
  /\ UNCHANGED <<input, task, tasks, got>>

ProtocolError == InItem /\ ~WellFormed /\ SetError("protocol")

\* An object, the stack or the buffer cannot be allocated.
OutOfMemory ==
  /\ InItem \/ (phase \in {"fed", "drained"} /\ fed < Len(Bytes))
  /\ SetError("oom")

\* No more can be made of the bytes that are there.
Starved ==
  CASE cur.type = "none" -> pos = Len(buf)
    [] cur.type # "none" /\ ~HasLine -> DeepEnough
    [] OTHER -> cur.type \in BulkTypes /\ WellFormed /\ Length >= 0 /\ ~BulkFits

\* Mutant: the position is not reset.
DiscardKeepsPos ==
  /\ buf' = IF pos >= DISCARD THEN SubSeq(buf, pos + 1, Len(buf)) ELSE buf
  /\ pos' = pos

\* What is read is discarded, when it is much.
Discard ==
  IF pos >= DISCARD
  THEN buf' = SubSeq(buf, pos + 1, Len(buf)) /\ pos' = 0
  ELSE UNCHANGED <<buf, pos>>

\* redisReaderGetReply after its loop: a reply that is complete is emitted.
Return ==
  /\ phase = "items" /\ (ridx >= 0 => Starved)
  /\ Discard
  /\ IF ridx = -1
     THEN got' = Append(got, built) /\ built' = {} /\ phase' = "fed"
     ELSE phase' = "drained" /\ UNCHANGED <<got, built>>
  /\ UNCHANGED <<input, task, tasks, ridx, err>>

Item == ReadType \/ LineItem \/ BulkItem \/ Grow \/ AggregateItem
          \/ ProtocolError \/ AssertionFails

Next == \/ \E k \in 1..Len(Bytes) : Feed(k)
        \/ GetReply \/ Item \/ OutOfMemory \/ Return

Spec == Init /\ [][Next]_vars

-----------------------------------------------------------------------------
TypeOK == /\ fed \in 0..Len(Bytes) /\ pos \in 0..Len(buf)
          /\ DOMAIN task = 0..(tasks - 1) /\ ridx \in -1..(tasks - 1)
          /\ err \in {"none", "protocol", "oom", "assert"}
          /\ phase \in {"fed", "items", "drained", "error"}
          /\ (phase = "error") = (err # "none")

\* The objects of a reply, each with its path from the root.
Objects(r, path) ==
  {<<path, IF r.type \in {"$nil", "*nil"} THEN Nil
             ELSE Object(r.type, IF r.type \in LineTypes THEN LineText(r.type, r.str) ELSE r.str,
                         Len(r.sub))>>}
    \union UNION {Objects(r.sub[i], Append(path, i - 1)) : i \in DOMAIN r.sub}

\* The replies of the stream whose bytes have all been fed.
Complete == Cardinality({i \in DOMAIN stream.replies :
                           Len(Encoded(SubSeq(stream.replies, 1, i))) <= fed})

\* A push reply with a double or a boolean, anywhere in a reply.
RECURSIVE HasUnexpected(_)
HasUnexpected(r) == \E i \in DOMAIN r.sub : \/ r.type = ">" /\ r.sub[i].type \in {",", "#"}
                                            \/ HasUnexpected(r.sub[i])

\* However the bytes are cut into pieces, every reply comes out once, in order and
\* with every element in its place, as soon as its last byte is there and not
\* before; a malformed reply is an error as soon as its bad byte is there, and
\* costs none of the replies before it (redisReaderGetReply).  Only a double or a
\* boolean directly in a push reply fails an assertion.
RepliesWhole ==
  /\ got = [i \in DOMAIN got |-> Objects(stream.replies[i], <<>>)]
  /\ phase = "drained" => Len(got) = Complete
  /\ err = "protocol" => stream.tail # <<>> /\ fed = Len(Bytes)
                         /\ Len(got) = Len(stream.replies)
  /\ err = "assert" => /\ Len(got) < Len(stream.replies)
                       /\ HasUnexpected(stream.replies[Len(got) + 1])
  /\ phase = "drained" /\ fed = Len(Bytes) => stream.tail = <<>>
=============================================================================
