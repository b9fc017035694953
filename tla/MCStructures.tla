----------------------------- MODULE MCStructures -----------------------------
(***************************************************************************)
(* The timer containers and the other data structures of the repository, one *)
(* small instance of each.  They are independent programs: the initial state  *)
(* picks one of them (component) and the variables of the others stay as they *)
(* are.  The heap and the tree occur twice: as a timer service on three       *)
(* entries, and as the bare data structure on six or ten, where erasing an    *)
(* entry can move the last one up, or re-balance the tree on several levels.  *)
(* Heap, tree and skip list share the variables of their common              *)
(* expire_timer loop.                                                       *)
(***************************************************************************)
EXTENDS Integers, Sequences

CONSTANTS n1, n2, c1, c2, channel1, channel2, NIL

Three == 1..3
Six == 1..6
Ten == 1..10
WheelDelays == {1, 6, 8, 15}

VARIABLES
  component,
  time, where, slot, expire, cancel, pc, shifted, pending, quit,
  tick, tw, used, killed, due,
  p, idx, entry, etime, deadline,
  forward, level, length, height, score, state,
  now, cur, running, phase,
  tree, until, clock, loop,
  \* YPipe
  begin, back, end, link, prev, values, spare_chunk, allocated,
  w, f, r, c, producer, consumer, items, popped, flushed, lastRead, early,
  \* DeadlockDetector
  locklist, edges, vertices, owner, seen, step, place,
  \* RedisReader
  stream, fed, buf, pos, task, tasks, ridx, built, err, stage, got,
  \* RedisPubSub
  subs, wire, inbox, replies, invalid, awaited, subscribed, cb, turn, issued,
  calls, wrong, orphaned, needless, carried,
  \* Sds, and the two texts that its functions take
  string, content, asserted, given,
  \* RedisCommand, RedisDict
  obuf, failure, asked, past,
  table, entries, iter, returned, vals, freed, map,
  \* DnsMessages
  query, at, host, request, answers, found,
  \* LogFile
  date, logfiles, count_, startOfPeriod_, lastRoll_, lastFlush_, g_flush, aborted, setBack,
  checked, input

wheelVars == <<time, where, slot, expire, cancel, pc, shifted, pending, quit>>
singleVars == <<tick, tw, used, killed, due>>
heapVars == <<p, idx, entry, etime, deadline>>
listVars == <<forward, level, length, height, score, state>>
treeVars == <<tree, until, clock, loop>>
loopVars == <<now, cur, running, phase>>
pipeVars == <<begin, back, end, link, prev, values, spare_chunk, allocated,
              w, f, r, c, producer, consumer, items, popped, flushed, lastRead, early>>
detectorVars == <<locklist, edges, vertices, owner, seen, step, place>>
timerVars == <<wheelVars, singleVars, heapVars, treeVars, listVars, loopVars>>
readerVars == <<stream, fed, buf, pos, task, tasks, ridx, built, err, stage, got>>
pubsubVars == <<subs, wire, inbox, replies, invalid, awaited, subscribed, cb, turn, issued,
                calls, wrong, orphaned, needless, carried>>
sdsVars == <<string, content, asserted>>
commandVars == <<obuf, failure, asked, past>>
dictVars == <<table, entries, iter, returned, vals, freed, map>>
dnsVars == <<query, at, host, request, answers, found>>
fileVars == <<date, logfiles, count_, startOfPeriod_, lastRoll_, lastFlush_, g_flush, aborted,
              setBack, checked>>
moreVars == <<commandVars, dictVars, dnsVars, fileVars, input>>
otherVars == <<pipeVars, detectorVars, readerVars, pubsubVars, sdsVars, given, moreVars>>
vars == <<component, timerVars, otherVars>>

Wheel == INSTANCE TimeWheel WITH
  Timers <- {n1, n2}, QuitTimer <- n1, NearShift <- 1, LevelShift <- 2, Levels <- 2,
  Delays <- WheelDelays, MaxDiff <- 1
Single == INSTANCE SingleWheel WITH
  Conns <- {c1, c2}, TW_SIZE <- 4, EXPIRE <- 2, UsedSize <- 4, MaxBeats <- 5
Heap == INSTANCE TimerHeap WITH
  Entries <- Three, NoEntry <- NIL, Wrap <- 4, MaxMsec <- 1, due <- deadline
BigHeap == INSTANCE TimerHeap WITH
  Entries <- Six, NoEntry <- NIL, Wrap <- 4, MaxMsec <- 1, due <- deadline
RBTree == INSTANCE TimerTree WITH
  Nodes <- Three, SENTINEL <- 0, NULL <- NIL, Wrap <- 16, Start <- 14, MaxNow <- 16,
  MaxMsec <- 2, due <- deadline, now <- clock, phase <- loop
BigTree == INSTANCE TimerTree WITH
  Nodes <- Ten, SENTINEL <- 0, NULL <- NIL, Wrap <- 32, Start <- 26, MaxNow <- 26,
  MaxMsec <- 9, due <- deadline, now <- clock, phase <- loop
List == INSTANCE TimerSkipList WITH
  Nodes <- Three, HEADER <- 0, MaxLevel <- 2, MaxTime <- 2, MaxMsec <- 1
Pipe == INSTANCE YPipe WITH N <- 2, Chunks <- 1..5, MaxItems <- 5, next <- link
Detector == INSTANCE DeadlockDetector WITH N <- 3, pc <- place

\* Replies of every type, empty, nil and nested ones, and every protocol error.
CRLF == <<"CR", "LF">>
Leaf(type, str) == [type |-> type, str |-> str, sub |-> <<>>]
Tree(type, sub) == [type |-> type, str |-> <<>>, sub |-> sub]
Status == Leaf("+", <<"x">>)
Number == Leaf(":", <<"7">>)
LineEnd == Leaf("$", CRLF)
Leaves == {Status, Number, LineEnd, Leaf("$", <<>>), Leaf("$nil", <<>>), Leaf("*nil", <<>>),
           Leaf("=", <<"x">>), Leaf("-", <<"CR">>), Leaf(",", <<"-inf">>), Leaf("#", <<"T">>)}
Trees == {Tree("*", <<>>), Tree("*", <<Number, Tree("~", <<Status>>)>>),
          Tree("*", <<Tree("*", <<Leaf("*nil", <<>>)>>), LineEnd>>),
          Tree("%", <<Leaf("_", <<>>), Tree(">", <<Tree("*", <<>>)>>)>>),
          Tree("*", <<Leaf(",", <<"2">>), Leaf("#", <<"CR">>)>>), Tree(">", <<Leaf("#", <<"t">>)>>)}
Errors == {<<"?">>, <<"*", "2">> \o CRLF \o <<":", "x">> \o CRLF, <<"$", "-2">> \o CRLF,
           <<"*", "6">> \o CRLF, <<",", "x">> \o CRLF, <<"=", "3">> \o CRLF \o <<"t", "x", "t">> \o CRLF}
ReplyStreams ==
  {[replies |-> <<reply, Status>>, tail |-> <<>>] : reply \in Trees \union Leaves}
    \union {[replies |-> <<reply>>, tail |-> error] :
              reply \in Trees \union {LineEnd}, error \in Errors}

Reader == INSTANCE RedisReader WITH
  Streams <- ReplyStreams, STACK_SIZE <- 2, DISCARD <- 4, maxelements <- 5,
  phase <- stage

PubSub == INSTANCE RedisPubSub WITH
  Lists <- {<<channel1>>, <<channel1, channel2>>}, MaxIssued <- 4, MaxInbox <- 3, pending <- awaited, phase <- turn

\* The types that can hold 3, 7 and 15 bytes, and a command argument of any bytes.
String == INSTANCE Sds WITH
  Width <- [type \in {5, 8, 16} |-> CASE type = 5 -> 2 [] type = 8 -> 3 [] type = 16 -> 4],
  SDS_MAX_PREALLOC <- 6, Pieces <- {<<7>>, <<0, 7, 7, 7>>}, Indices <- {-9, -2, 0, 1, 3, 9},
  MaxLen <- 8, s <- string, text <- content

\* Texts of up to two bytes of all sorts, a separator, and lines of blanks and quotes.
Bytes == {0, 7, 10, 32, 34, 39, 48, 92, 97, 110, 120, 127, 200}
Shorter == {<<>>} \union {<<x>> : x \in Bytes}
Arguments == { <<x, y>> : x \in Shorter \union (Bytes \X Bytes), y \in Shorter }
Lines == { <<x, <<>>>> : x \in [1..4 -> {32, 34, 39, 92, 97, 120, 48}] }

\* Commands: separators, texts, conversions of every length, and an argument vector
\* with texts of 0, 9, 10, 99 and 1000 bytes, and one with a zero byte.
Piece(text, ap, out, sort) == [text |-> text, ap |-> ap, out |-> out, sort |-> sort]
Conversion(text, sort) == Piece(<<"%">> \o text, <<<<"7">>>>, <<"7">>, sort)
Interpolated(text, arg) == Piece(<<"%", text>>, <<arg>>, arg, "plain")
CommandPieces ==
  {Piece(<<" ">>, <<>>, <<>>, "space"), Piece(<<"k">>, <<>>, <<"k">>, "plain"),
   Piece(<<"%">>, <<>>, <<"%">>, "plain"), Piece(<<"%", "%">>, <<>>, <<"%">>, "plain"),
   Interpolated("s", <<>>), Interpolated("s", <<"x", " ", "%", "s">>),
   Interpolated("b", <<"NUL", "CR", "LF">>),
   Conversion(<<"d">>, "plain"), Conversion(<<" ", "0", "5", ".", "3", "l", "l", "x">>, "plain"),
   Conversion(<<"h", "h", "f">>, "bad"), Conversion(<<"k">>, "bad"),
   Conversion([i \in 1..12 |-> "0"] \o <<"d">>, "long"), Conversion(<<"5">>, "cut")}
Repeated(n) == [i \in 1..n |-> "y"]
CommandVectors ==
  {[argv |-> <<>>, argvlen |-> TRUE],
   [argv |-> <<<<>>, Repeated(9), Repeated(10), <<"x", "NUL", "*">>>>, argvlen |-> TRUE],
   [argv |-> <<Repeated(99), Repeated(1000), <<"x", "NUL", "*">>>>, argvlen |-> FALSE]}
Command == INSTANCE RedisCommand WITH
  Pieces <- CommandPieces, MaxPieces <- 3, Argvs <- CommandVectors, MaxCommands <- 2,
  FormatRoom <- 14, err <- failure,
  Radix <- {0, 9, 10, 99, 100, 999, 1000, 9999, 10000, 99999, 100000, 99999999, 100000000}
\* Four keys in two slots, of which the first two stay together in four slots.
Dict == INSTANCE RedisDict WITH
  Keys <- 1..4, NoKey <- 0, Hash <- <<0, 4, 1, 6>>, DICT_HT_INITIAL_SIZE <- 2, MaxVals <- 5,
  used <- entries

\* The names a, ab.c, a., a..b and .a, and up to three answers of three types.
DNS == INSTANCE DnsMessages WITH
  Hosts <- {<<97>>, <<97, 98, 46, 99>>, <<97, 46>>, <<97, 46, 46, 98>>, <<46, 97>>},
  Answers <- UNION {[1..n -> [type : {1, 5, 2}, form : {"pointer", "full"}]] : n \in 0..3},
  PtrBase <- 48, MaxQueries <- 1

Files == INSTANCE LogFile WITH
  rollSize <- 20, flushInterval <- 1, checkEveryN <- 2, kRollPerSeconds <- 3,
  kSmallBuffer <- 12, kMaxNumericSize <- 3, Messages <- {2, 9}, MaxNow <- 4, MaxLines <- 4, Hour <- 4, MaxTime <- 120,
  now <- date, files <- logfiles

\* Zones: a fixed offset, summer times of one and of half an hour on either side of
\* UTC, two shifts in one direction, and no file.
Offset(hours, dst) == [gmtOffset |-> hours, isDst |-> dst]
Summer(localtimes) == [times |-> <<20, 60, 100>>, idxs |-> <<2, 1, 2>>, localtimes |-> localtimes]
ZoneFiles ==
  <<[times |-> <<>>, idxs |-> <<>>, localtimes |-> <<Offset(8, FALSE)>>],
    Summer(<<Offset(-8, FALSE), Offset(-4, TRUE)>>), Summer(<<Offset(8, FALSE), Offset(10, TRUE)>>),
    [times |-> <<20, 60, 100>>, idxs |-> <<2, 3, 2>>,
     localtimes |-> <<Offset(8, FALSE), Offset(12, TRUE), Offset(4, FALSE)>>],
    [times |-> <<>>, idxs |-> <<>>, localtimes |-> <<>>]>>
\* The numbers at which formatSI and formatIEC change their form.
Quantities == {1000, 9995, 99950, 999500, 9995000, 99950000, 999400000} \union
              {1024, 10235, 102349, 1048064, 10480518, 104805172, 1073217529}
\* The ends of years of all sorts, and times around the epoch.
Inputs == [kind : {"year"}, value : {1900, 1970, 1999} \union 2000..2101 \union {2400}]
            \union [kind : {"time"}, value : -5..5
                      \union {86400 * 365 * k + j : k \in 1..60, j \in {-1, 0, 1}}]
            \union [kind : {"zone"}, value : DOMAIN ZoneFiles]
            \union [kind : {"number"}, value : -300..300]
            \union [kind : {"quantity"}, value : UNION {n - 6..n + 6 : n \in Quantities}]

\* Any heap of six entries, as pushing them in this order leaves it.
SixEntries ==
  /\ etime \in [Six -> 0..3]
  /\ \A e \in Six : e > 1 => etime[e \div 2] <= etime[e]
  /\ deadline = etime
  /\ p = [i \in 0..5 |-> i + 1]
  /\ idx = [e \in Six |-> e - 1]
  /\ entry = [e \in Six |-> "live"]
  /\ now = 0 /\ cur = 0 /\ running = NIL /\ phase = "wait"

\* Timers added with these delays at time 26, in this order.
AddOrders == [Six -> 0..2] \union {[i \in Ten |-> i - 1], [i \in Ten |-> 10 - i]}

TenEntries ==
  \E msec \in AddOrders :
    LET added[i \in 0..Len(msec)] ==
          IF i = 0 THEN BigTree!Empty(0..10)
          ELSE BigTree!Inserted(added[i - 1], i, (26 + msec[i]) % 32)
    IN /\ tree = added[Len(msec)]
       /\ entry = [n \in Ten |-> IF n \in DOMAIN msec THEN "live" ELSE "free"]
       /\ deadline = [n \in Ten |-> IF n \in DOMAIN msec THEN 26 + msec[n] ELSE 0]
       /\ clock = 26 /\ loop = "start" /\ until = 0

\* The tree takes the variables of the timers, but not the heap's own.
NoHeap == p = [i \in {} |-> NIL] /\ idx = <<>> /\ etime = <<>>

\* A component that is not picked starts without a choice.
Init == /\ component \in {"wheel", "single", "heap", "bigheap", "tree", "bigtree", "list", "pipe",
                          "detector", "reader", "pubsub", "sds", "text", "command",
                          "dict", "dns", "file", "format"}
        /\ CASE component = "bigheap" -> SixEntries
             [] component = "tree" -> RBTree!Init /\ NoHeap
             [] component = "bigtree" -> TenEntries /\ NoHeap
             [] OTHER -> Heap!Init
        /\ component \notin {"tree", "bigtree"} => tree = NIL /\ until = 0 /\ clock = 0 /\ loop = "wait"
        /\ Wheel!Init /\ Single!Init /\ List!Init /\ Pipe!Init /\ Detector!Init
        /\ PubSub!Init /\ Command!Init /\ Dict!Init /\ DNS!Init
        /\ Reader!Init /\ (component # "reader" => stream = CHOOSE x \in ReplyStreams : TRUE)
        /\ String!Init /\ (component # "sds" => content = <<>>)
        /\ Files!Init /\ (component # "file" => g_flush = "log")
        /\ given \in (IF component = "text" THEN Arguments \union Lines ELSE {<<>>})
        /\ input \in (IF component = "format" THEN Inputs ELSE {[kind |-> "none", value |-> 0]})

WheelNext == /\ component = "wheel" /\ Wheel!Next
             /\ UNCHANGED <<component, singleVars, heapVars, treeVars, listVars, loopVars, otherVars>>
SingleNext == /\ component = "single" /\ Single!Next
              /\ UNCHANGED <<component, wheelVars, heapVars, treeVars, listVars, loopVars, otherVars>>
HeapNext == /\ component = "heap" /\ Heap!Next
            /\ UNCHANGED <<component, wheelVars, singleVars, treeVars, listVars, otherVars>>
BigHeapNext == /\ component = "bigheap" /\ \E e \in Six : BigHeap!DelTimer(e)
               /\ UNCHANGED <<component, wheelVars, singleVars, treeVars, listVars, otherVars>>
TreeNext == /\ component = "tree" /\ RBTree!Next
            /\ UNCHANGED <<component, wheelVars, singleVars, p, idx, etime, now, phase,
                           listVars, otherVars>>
BigTreeNext == /\ component = "bigtree" /\ \E n \in Ten : BigTree!DelTimer(n)
               /\ UNCHANGED <<component, wheelVars, singleVars, p, idx, etime, now, phase,
                              listVars, otherVars>>
ListNext == /\ component = "list" /\ List!Next
            /\ UNCHANGED <<component, wheelVars, singleVars, heapVars, treeVars, otherVars>>

PipeNext == /\ component = "pipe" /\ Pipe!Next
            /\ UNCHANGED <<component, timerVars, detectorVars, readerVars, pubsubVars,
                              sdsVars, given, moreVars>>
DetectorNext == /\ component = "detector" /\ Detector!Next
                /\ UNCHANGED <<component, timerVars, pipeVars, readerVars, pubsubVars,
                              sdsVars, given, moreVars>>
ReaderNext == /\ component = "reader" /\ Reader!Next
              /\ UNCHANGED <<component, timerVars, pipeVars, detectorVars, pubsubVars,
                              sdsVars, given, moreVars>>
PubSubNext == /\ component = "pubsub" /\ PubSub!Next
              /\ UNCHANGED <<component, timerVars, pipeVars, detectorVars, readerVars,
                              sdsVars, given, moreVars>>
SdsNext == /\ component = "sds" /\ String!Next
           /\ UNCHANGED <<component, timerVars, pipeVars, detectorVars, readerVars, pubsubVars,
                          given, moreVars>>

Program(name) ==
  /\ component = name
  /\ UNCHANGED <<component, timerVars, pipeVars, detectorVars, readerVars, pubsubVars,
                 sdsVars, given, input>>
CommandNext == /\ Program("command") /\ Command!Next
               /\ UNCHANGED <<dictVars, dnsVars, fileVars>>
DictNext == /\ Program("dict") /\ Dict!Next
            /\ UNCHANGED <<commandVars, dnsVars, fileVars>>
DNSNext == /\ Program("dns") /\ DNS!Next
                /\ UNCHANGED <<commandVars, dictVars, fileVars>>
FilesNext == /\ Program("file") /\ Files!Next
             /\ UNCHANGED <<commandVars, dictVars, dnsVars>>

Next == \/ WheelNext \/ SingleNext \/ HeapNext \/ BigHeapNext
        \/ TreeNext \/ BigTreeNext \/ ListNext
        \/ PipeNext \/ DetectorNext \/ ReaderNext \/ PubSubNext \/ SdsNext
        \/ CommandNext \/ DictNext \/ DNSNext \/ FilesNext

Spec == Init /\ [][Next]_vars

-----------------------------------------------------------------------------
\* The variables of all components keep their types.
TypeOK ==
  CASE component = "wheel" -> Wheel!TypeOK [] component = "single" -> Single!TypeOK
    [] component = "heap" -> Heap!TypeOK [] component = "bigheap" -> BigHeap!TypeOK
    [] component = "tree" -> RBTree!TypeOK [] component = "bigtree" -> BigTree!TypeOK
    [] component = "list" -> List!TypeOK [] component = "pipe" -> Pipe!TypeOK
    [] component = "detector" -> Detector!TypeOK
    [] component = "reader" -> Reader!TypeOK [] component = "pubsub" -> PubSub!TypeOK
    [] component = "sds" -> String!TypeOK [] component = "text" -> TRUE
    [] component = "command" -> Command!TypeOK [] component = "dict" -> Dict!TypeOK
    [] component = "dns" -> DNS!TypeOK [] component = "file" -> Files!TypeOK
    [] component = "format" -> input \in Inputs

\* Time wheel (timewheel.c): every timer that is not stranded is dispatched at
\* the tick it expires.  Tree timers (rbt-timer.h): none runs early or is slept
\* past, but for the wrap of the clock.
TimersOnTime == /\ component = "wheel" => Wheel!TimersOnTime
                /\ component = "tree" => RBTree!TreeTimersOnTime

\* Single wheel (single_tw.c): a connection is killed exactly when its last
\* heartbeat expires.
KilledWhenSilent == Single!KilledWhenSilent

\* Min heap (minheap.c): the heap is ordered and every entry knows its place.
\* Tree (rbtree.c): it is ordered and balanced.
\* Skip list (skiplist.c): the levels are sublists of the sorted bottom list.
\* Hash table (hiredis/dict.c): the chains hold the map, and each value is freed once.
ContainersIntact ==
  /\ component = "heap" => Heap!HeapIndexed
  /\ component = "bigheap" => BigHeap!HeapIndexed
  /\ component = "tree" => RBTree!TreeBalanced
  /\ component = "bigtree" => BigTree!TreeBalanced
  /\ component = "list" => List!LevelsAgree
  /\ component = "dict" => Dict!AgreesWithMap

\* Heap timers (mh-timer.h) and skip list timers (skl-timer.c): no timer is
\* dropped, but for the causes that the two modules name.  Hash table (hiredis/dict.c):
\* an iterator skips no entry and returns none twice.
NothingDropped == Heap!NoTimerDropped /\ List!NoTimerDropped /\ Dict!IteratesOnce


\* Pipe (ypipe.hpp, yqueue.hpp): the reader gets exactly what was flushed, from
\* chunks that are not freed, and with the condition variable of the test it does not
\* sleep on flushed items, but for the notification that comes too early.
\* Commands (redis_pool/hiredis.c): the server reads the arguments that were given.
\* Replies (hiredis/read.c): they come out whole however they arrive.
\* Publish/subscribe (hiredis/async.c): and go to the callback they are for, but
\* for the requests that RedisPubSub names.
\* DNS messages: the question is the name asked for, and the answers are read from the
\* response, but for the records that DnsMessages names.
DataDelivered ==
  /\ component = "pipe" => Pipe!ReadsWhatWasFlushed /\ Pipe!AsleepOnlyWhenEmpty
  /\ component = "command" => Command!CommandsArrive /\ Command!ReadWithin
  /\ component = "command" /\ asked = <<>> => Command!DigitsCounted
  /\ component = "reader" => Reader!RepliesWhole
  /\ component = "pubsub" => PubSub!CallbacksRouted /\ PubSub!TableAgrees
  /\ component = "dns" => DNS!QuestionRight /\ DNS!ResponseRead

=============================================================================
