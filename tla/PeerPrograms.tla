----------------------------- MODULE PeerPrograms -----------------------------
(***************************************************************************)
(* Programs that talk to a server or to a file, for any values of their constants: *)
(* the log (AsyncLogging), the DNS client (DnsClient), the asynchronous Redis       *)
(* client on its own loop (RedisAsync) and its context on libevent (RedisEvents),   *)
(* the connection of the Redis pool (CacheConn), its socket (RedisConnect) and the  *)
(* synchronous Redis client (RedisContext).  Each has the inductive invariant that  *)
(* its safety properties follow from.  MCServices puts them beside other programs   *)
(* and has the theorems.                                                          *)
(***************************************************************************)
EXTENDS Integers, FiniteSets, Sequences, TLAPS, FiniteSetTheorems,
        SequenceTheorems, WellFoundedInduction

CONSTANTS
  \* AsyncLogging
  Capacity, MaxQueued, MaxLines,
  \* DnsClient: the queries of a batch, the descriptors
  Queries, Descriptors,
  \* RedisAsync: the commands
  Num,
  \* RedisEvents: the bound on the commands
  MaxCommands

\* The backend keeps some buffers when it drops the others (25 in the code).
ASSUME LogAssumption ==
  Capacity \in Nat /\ MaxQueued \in Nat \ {0} /\ MaxLines \in Nat

\* The table of descriptors is finite.
ASSUME DnsAssumption ==
  Queries \in Nat /\ Descriptors \subseteq Nat /\ IsFiniteSet(Descriptors)

\* A number of commands is not negative.
ASSUME AsyncAssumption == Num \in Nat
ASSUME EventsAssumption == MaxCommands \in Nat

VARIABLES
  \* AsyncLogging
  currentBuffer_, nextBuffer_, buffers_, newBuffer1, newBuffer2, buffersToWrite,
  running_, backend, stopper, file, lines, dropped,
  \* DnsClient
  pc, next, sockfd, socket, sent, inbox, epoll, proc, events, freed, results,
  \* RedisAsync
  sock, wire, unread, obuf, replies, connected, disconnecting, contextFreed,
  mask, read_fn, write_fn, interest, batch, stop, called, crashed,
  \* RedisEvents
  options, peerState, toServer, toClient, unwritten, reader, waiting, isConnected,
  isDisconnecting, isFreeing, failure, isFreed, record, library, fired, issued, callbacks,
  onConnect, onDisconnect, touched

logVars == <<currentBuffer_, nextBuffer_, buffers_, newBuffer1, newBuffer2,
             buffersToWrite, running_, backend, stopper, file, lines, dropped>>
dnsVars == <<pc, next, sockfd, socket, sent, inbox, epoll, proc, events, freed, results>>
asyncVars == <<sock, wire, unread, obuf, replies, connected, disconnecting, contextFreed,
               mask, read_fn, write_fn, interest, batch, stop, called, crashed>>
eventsVars == <<options, peerState, toServer, toClient, unwritten, reader, waiting,
                isConnected, isDisconnecting, isFreeing, failure, isFreed, record, library,
                fired, issued, callbacks, onConnect, onDisconnect, touched>>

Log == INSTANCE AsyncLogging
Dns == INSTANCE DnsClient WITH Fds <- Descriptors
Async == INSTANCE RedisAsync WITH inbox <- unread, freed <- contextFreed
Events == INSTANCE RedisEvents WITH
  sock <- peerState, wire <- toServer, inbox <- toClient,
  obuf <- unwritten, replies <- waiting, connected <- isConnected,
  disconnecting <- isDisconnecting, freeing <- isFreeing, err <- failure, freed <- isFreed,
  pc <- library, batch <- fired, called <- callbacks

-----------------------------------------------------------------------------
\* A set of naturals that is not empty has a least element.
LEMMA NatLeast ==
  ASSUME NEW S, S \subseteq Nat, S # {}
  PROVE  \E k \in S : \A m \in S : k <= m
<1>1. PICK k \in S : \A m \in S : <<m, k>> \notin OpToRel(<, Nat)
  BY NatLessThanWellFounded, WFMin
<1>2. ASSUME NEW m \in S PROVE k <= m
  <2>1. k \in Nat /\ m \in Nat
    OBVIOUS
  <2>2. m < k => <<m, k>> \in OpToRel(<, Nat)
    BY <2>1 DEF OpToRel
  <2>3. ~(m < k)
    BY <1>1, <2>2
  <2> QED BY <2>1, <2>3
<1> QED BY <1>2

-----------------------------------------------------------------------------
(* Runs of consecutive numbers, and what they are cut into.                   *)

\* The numbers after a up to b, in order.
Run(a, b) == [i \in 1 .. b - a |-> a + i]

LEMMA RunProperties ==
  ASSUME NEW a \in Nat, NEW b \in Nat, a <= b
  PROVE  /\ Run(a, b) \in Seq(Nat) /\ Len(Run(a, b)) = b - a
         /\ DOMAIN Run(a, b) = 1 .. b - a
         /\ \A i \in 1 .. b - a : Run(a, b)[i] = a + i
<1>1. b - a \in Nat
  OBVIOUS
<1>2. \A i \in 1 .. b - a : a + i \in Nat
  OBVIOUS
<1>3. Run(a, b) \in [1 .. b - a -> Nat]
  BY <1>2 DEF Run
<1>4. Run(a, b) \in Seq(Nat)
  BY <1>1, <1>3, SeqDef
<1>5. DOMAIN Run(a, b) = 1 .. b - a
  BY DEF Run
<1>6. Len(Run(a, b)) = b - a
  <2>1. DOMAIN Run(a, b) = 1 .. Len(Run(a, b)) /\ Len(Run(a, b)) \in Nat
    BY <1>4, LenProperties
  <2> PICK m \in Nat : m = Len(Run(a, b))
    BY <2>1
  <2> PICK n \in Nat : n = b - a
    BY <1>1
  <2>2. 1 .. m = 1 .. n
    BY <1>5, <2>1
  <2>3. m = n
    <3>1. m >= 1 => m \in 1 .. n
      BY <2>2
    <3>2. n >= 1 => n \in 1 .. m
      BY <2>2
    <3> QED BY <3>1, <3>2
  <2> QED BY <2>3
<1> QED BY <1>4, <1>5, <1>6 DEF Run

\* A run that begins where another ends continues it.
LEMMA RunConcat ==
  ASSUME NEW a \in Nat, NEW b \in Nat, NEW e \in Nat, a <= b, b <= e
  PROVE  Run(a, b) \o Run(b, e) = Run(a, e)
<1>1. /\ Run(a, b) \in Seq(Nat) /\ Len(Run(a, b)) = b - a
      /\ \A i \in 1 .. b - a : Run(a, b)[i] = a + i
  BY RunProperties
<1>2. /\ Run(b, e) \in Seq(Nat) /\ Len(Run(b, e)) = e - b
      /\ \A i \in 1 .. e - b : Run(b, e)[i] = b + i
  BY RunProperties
<1>3. a <= e
  OBVIOUS
<1>4. /\ Run(a, e) \in Seq(Nat) /\ Len(Run(a, e)) = e - a
      /\ \A i \in 1 .. e - a : Run(a, e)[i] = a + i
  BY <1>3, RunProperties
<1> DEFINE both == Run(a, b) \o Run(b, e)
<1>5. /\ both \in Seq(Nat) /\ Len(both) = (b - a) + (e - b)
      /\ \A i \in 1 .. (b - a) + (e - b) :
           both[i] = IF i <= b - a THEN Run(a, b)[i] ELSE Run(b, e)[i - (b - a)]
  <2>1. /\ both \in Seq(Nat) /\ Len(both) = Len(Run(a, b)) + Len(Run(b, e))
        /\ \A i \in 1 .. Len(Run(a, b)) + Len(Run(b, e)) :
             both[i] = IF i <= Len(Run(a, b)) THEN Run(a, b)[i]
                       ELSE Run(b, e)[i - Len(Run(a, b))]
    BY <1>1, <1>2, ConcatProperties
  <2> QED BY <1>1, <1>2, <2>1
<1> HIDE DEF both
<1>6. (b - a) + (e - b) = e - a
  OBVIOUS
<1>7. ASSUME NEW i \in 1 .. e - a PROVE both[i] = Run(a, e)[i]
  <2>1. CASE i <= b - a
    BY <1>1, <1>4, <1>5, <1>6, <2>1
  <2>2. CASE ~(i <= b - a)
    <3>1. i - (b - a) \in 1 .. e - b
      BY <2>2
    <3>2. b + (i - (b - a)) = a + i
      OBVIOUS
    <3> QED BY <1>2, <1>4, <1>5, <1>6, <2>2, <3>1, <3>2
  <2> QED BY <2>1, <2>2
<1>8. Len(both) = Len(Run(a, e))
  BY <1>4, <1>5, <1>6
<1>9. both = Run(a, e)
  BY <1>4, <1>5, <1>7, <1>8, SeqEqual
<1> QED BY <1>9 DEF both

LEMMA RunEmpty ==
  ASSUME NEW a \in Nat
  PROVE  Run(a, a) = <<>>
<1>1. Run(a, a) \in Seq(Nat) /\ Len(Run(a, a)) = 0
  BY RunProperties
<1> QED BY <1>1, EmptySeq

\* The next number makes the run longer.
LEMMA RunNext ==
  ASSUME NEW a \in Nat, NEW b \in Nat, a <= b
  PROVE  Append(Run(a, b), b + 1) = Run(a, b + 1)
<1>1. /\ Run(a, b) \in Seq(Nat) /\ Len(Run(a, b)) = b - a
      /\ \A i \in 1 .. b - a : Run(a, b)[i] = a + i
  BY RunProperties
<1>2. b + 1 \in Nat /\ a <= b + 1
  OBVIOUS
<1>3. /\ Run(a, b + 1) \in Seq(Nat) /\ Len(Run(a, b + 1)) = b + 1 - a
      /\ \A i \in 1 .. b + 1 - a : Run(a, b + 1)[i] = a + i
  BY <1>2, RunProperties
<1> DEFINE longer == Append(Run(a, b), b + 1)
<1>4. /\ longer \in Seq(Nat) /\ Len(longer) = b - a + 1
      /\ \A i \in 1 .. b - a : longer[i] = Run(a, b)[i]
      /\ longer[b - a + 1] = b + 1
  BY <1>1, <1>2, AppendProperties
<1> HIDE DEF longer
<1>5. ASSUME NEW i \in 1 .. b + 1 - a PROVE longer[i] = Run(a, b + 1)[i]
  <2>1. CASE i = b - a + 1
    <3>1. a + i = b + 1
      BY <2>1
    <3> QED BY <1>3, <1>4, <2>1, <3>1
  <2>2. CASE i # b - a + 1
    <3>1. i \in 1 .. b - a
      BY <2>2
    <3> QED BY <1>1, <1>3, <1>4, <3>1
  <2> QED BY <2>1, <2>2
<1>6. Len(longer) = Len(Run(a, b + 1)) /\ Len(longer) = b + 1 - a
  BY <1>3, <1>4
<1>7. longer = Run(a, b + 1)
  BY <1>3, <1>4, <1>5, <1>6, SeqEqual
<1> QED BY <1>7 DEF longer

LEMMA RunOne ==
  ASSUME NEW a \in Nat
  PROVE  <<a + 1>> = Run(a, a + 1)
<1>1. Append(Run(a, a), a + 1) = Run(a, a + 1)
  BY RunNext
<1>2. Append(<<>>, a + 1) = <<a + 1>>
  OBVIOUS
<1> QED BY <1>1, <1>2, RunEmpty

LEMMA RunSet ==
  ASSUME NEW a \in Nat, NEW b \in Nat, a <= b
  PROVE  Log!ToSet(Run(a, b)) = a + 1 .. b
<1>1. /\ DOMAIN Run(a, b) = 1 .. b - a
      /\ \A i \in 1 .. b - a : Run(a, b)[i] = a + i
  BY RunProperties
<1>2. ASSUME NEW m \in a + 1 .. b PROVE m \in Log!ToSet(Run(a, b))
  <2>1. m - a \in 1 .. b - a /\ a + (m - a) = m
    OBVIOUS
  <2> QED BY <1>1, <2>1 DEF Log!ToSet
<1>3. ASSUME NEW m \in Log!ToSet(Run(a, b)) PROVE m \in a + 1 .. b
  <2>1. PICK i \in 1 .. b - a : m = a + i
    BY <1>1 DEF Log!ToSet
  <2> QED BY <2>1
<1> QED BY <1>2, <1>3

-----------------------------------------------------------------------------
(* Buffers whose lines are the numbers after a up to b: the i-th one has those *)
(* after h[i - 1] up to h[i].                                                  *)
CutAt(s, a, b, h) ==
  /\ s \in Seq(Seq(Nat)) /\ a \in Nat /\ b \in Nat /\ a <= b
  /\ h \in [0 .. Len(s) -> a .. b] /\ h[0] = a /\ h[Len(s)] = b
  /\ \A i \in 1 .. Len(s) : h[i - 1] <= h[i] /\ s[i] = Run(h[i - 1], h[i])

Cut(s, a, b) == \E h : CutAt(s, a, b, h)

LEMMA CutNone ==
  ASSUME NEW a \in Nat
  PROVE  Cut(<<>>, a, a)
<1>1. <<>> \in Seq(Seq(Nat)) /\ Len(<<>>) = 0
  BY EmptySeq
<1> DEFINE h == [i \in 0 .. 0 |-> a]
<1>2. h \in [0 .. 0 -> a .. a] /\ h[0] = a
  OBVIOUS
<1> HIDE DEF h
<1>3. CutAt(<<>>, a, a, h)
  BY <1>1, <1>2 DEF CutAt
<1> QED BY <1>3 DEF Cut

LEMMA CutNoneOnly ==
  ASSUME NEW a, NEW b, Cut(<<>>, a, b)
  PROVE  a \in Nat /\ a = b
<1>1. PICK h : CutAt(<<>>, a, b, h)
  BY DEF Cut
<1>2. Len(<<>>) = 0
  OBVIOUS
<1> QED BY <1>1, <1>2 DEF CutAt

\* One more buffer, with the lines that follow.
LEMMA CutAppend ==
  ASSUME NEW s, NEW a, NEW b, NEW e \in Nat, Cut(s, a, b), b <= e
  PROVE  Cut(Append(s, Run(b, e)), a, e)
<1>1. PICK h : CutAt(s, a, b, h)
  BY DEF Cut
<1>2. /\ s \in Seq(Seq(Nat)) /\ a \in Nat /\ b \in Nat /\ a <= b
      /\ h \in [0 .. Len(s) -> a .. b] /\ h[0] = a /\ h[Len(s)] = b
      /\ \A i \in 1 .. Len(s) : h[i - 1] <= h[i] /\ s[i] = Run(h[i - 1], h[i])
  BY <1>1 DEF CutAt
<1>3. PICK n \in Nat : n = Len(s)
  BY <1>2, LenProperties
<1>4. Run(b, e) \in Seq(Nat)
  BY <1>2, RunProperties
<1>5. PICK t : t = Append(s, Run(b, e))
  OBVIOUS
<1>6. /\ t \in Seq(Seq(Nat)) /\ Len(t) = n + 1
      /\ \A i \in 1 .. n : t[i] = s[i]
      /\ t[n + 1] = Run(b, e)
  BY <1>2, <1>3, <1>4, <1>5, AppendProperties
<1>7. PICK k : k = [i \in 0 .. n + 1 |-> IF i = n + 1 THEN e ELSE h[i]]
  OBVIOUS
<1>8. /\ \A i \in 0 .. n : k[i] = h[i] /\ h[i] \in a .. b
      /\ k[n + 1] = e
  <2>1. \A i \in 0 .. n : i \in 0 .. n + 1 /\ i # n + 1
    OBVIOUS
  <2>2. n + 1 \in 0 .. n + 1
    OBVIOUS
  <2> QED BY <1>2, <1>3, <1>7, <2>1, <2>2
<1>9. k \in [0 .. n + 1 -> a .. e]
  <2>1. ASSUME NEW i \in 0 .. n + 1 PROVE k[i] \in a .. e
    <3>1. i = n + 1 \/ i \in 0 .. n
      OBVIOUS
    <3> QED BY <1>2, <1>8, <3>1
  <2> QED BY <1>7, <2>1
<1>10. ASSUME NEW i \in 1 .. n + 1 PROVE k[i - 1] <= k[i] /\ t[i] = Run(k[i - 1], k[i])
  <2>1. CASE i = n + 1
    <3>1. k[i - 1] = b
      <4>1. i - 1 = n /\ n \in 0 .. n
        BY <2>1
      <4> QED BY <1>2, <1>3, <1>8, <4>1
    <3> QED BY <1>6, <1>8, <2>1, <3>1
  <2>2. CASE i # n + 1
    <3>1. i \in 1 .. n /\ i \in 0 .. n /\ i - 1 \in 0 .. n
      BY <2>2
    <3> QED BY <1>2, <1>3, <1>6, <1>8, <3>1
  <2> QED BY <2>1, <2>2
<1>11. k[0] = a
  <2>1. 0 \in 0 .. n
    OBVIOUS
  <2> QED BY <1>2, <1>8, <2>1
<1>12. CutAt(t, a, e, k)
  <2>1. a <= e
    BY <1>2
  <2> QED BY <1>2, <1>6, <1>8, <1>9, <1>10, <1>11, <2>1 DEF CutAt
<1> QED BY <1>5, <1>12 DEF Cut

\* The first buffers.
LEMMA CutFirst ==
  ASSUME NEW s, NEW a, NEW b, Cut(s, a, b), NEW m \in Nat, m <= Len(s)
  PROVE  \E e \in a .. b : Cut(SubSeq(s, 1, m), a, e)
<1>1. PICK h : CutAt(s, a, b, h)
  BY DEF Cut
<1>2. /\ s \in Seq(Seq(Nat)) /\ a \in Nat /\ b \in Nat /\ a <= b
      /\ h \in [0 .. Len(s) -> a .. b] /\ h[0] = a /\ h[Len(s)] = b
      /\ \A i \in 1 .. Len(s) : h[i - 1] <= h[i] /\ s[i] = Run(h[i - 1], h[i])
  BY <1>1 DEF CutAt
<1>3. PICK n \in Nat : n = Len(s)
  BY <1>2, LenProperties
<1>4. PICK t : t = SubSeq(s, 1, m)
  OBVIOUS
<1>5. /\ t \in Seq(Seq(Nat)) /\ Len(t) = m
      /\ \A i \in 1 .. m : t[i] = s[i]
  <2>1. \A i \in 1 .. m : s[i] \in Seq(Nat)
    <3>1. \A i \in 1 .. m : i \in 1 .. Len(s)
      BY <1>3
    <3> QED BY <1>2, <3>1, ElementOfSeq
  <2>2. /\ SubSeq(s, 1, m) \in Seq(Seq(Nat))
        /\ Len(SubSeq(s, 1, m)) = IF 1 <= m THEN m - 1 + 1 ELSE 0
        /\ \A i \in 1 .. m - 1 + 1 : SubSeq(s, 1, m)[i] = s[1 + i - 1]
    <3>1. 1 \in Int /\ m \in Int
      OBVIOUS
    <3> QED BY <2>1, <3>1, SubSeqProperties
  <2>3. m - 1 + 1 = m /\ \A i \in 1 .. m : 1 + i - 1 = i
    OBVIOUS
  <2>4. (IF 1 <= m THEN m - 1 + 1 ELSE 0) = m
    OBVIOUS
  <2>5. Len(t) = m
    BY ONLY <1>4, <2>2, <2>4
  <2>6. ASSUME NEW i \in 1 .. m PROVE t[i] = s[i]
    <3>1. i \in 1 .. m - 1 + 1
      BY ONLY <2>3, i \in 1 .. m
    <3>2. SubSeq(s, 1, m)[i] = s[1 + i - 1]
      BY ONLY <2>2, <3>1
    <3>3. 1 + i - 1 = i
      BY ONLY <2>3, i \in 1 .. m
    <3> QED BY ONLY <1>4, <3>2, <3>3
  <2> QED BY <1>4, <2>2, <2>5, <2>6
<1>6. PICK k : k = [i \in 0 .. m |-> h[i]]
  OBVIOUS
<1>7. \A i \in 0 .. m : i \in 0 .. n
  BY <1>3
<1>8. PICK e \in a .. b : e = h[m]
  <2>1. m \in 0 .. n
    BY <1>3
  <2> QED BY <1>2, <1>3, <2>1
<1>9. \A i \in 0 .. m : h[i] <= e
  <2> DEFINE Bad == {i \in 0 .. m : ~(h[m - i] <= e)}
  <2>1. Bad = {}
    <3> SUFFICES ASSUME Bad # {} PROVE FALSE
      OBVIOUS
    <3>1. Bad \subseteq Nat
      OBVIOUS
    <3>2. PICK i \in Bad : \A j \in Bad : i <= j
      BY <3>1, NatLeast
    <3>3. i \in 0 .. m /\ ~(h[m - i] <= e)
      BY <3>2
    <3>4. i # 0
      <4>1. m - 0 = m /\ e <= e
        BY <1>2
      <4> QED BY <1>8, <3>3, <4>1
    <3>5. i - 1 \in 0 .. m /\ ~(i <= i - 1) /\ m - (i - 1) = (m - i) + 1
      BY <3>3, <3>4
    <3>6. h[(m - i) + 1] <= e
      BY <3>2, <3>5
    <3>7. (m - i) + 1 \in 1 .. n /\ ((m - i) + 1) - 1 = m - i
      BY <1>3, <3>3, <3>4
    <3>8. h[m - i] <= h[(m - i) + 1]
      BY <1>2, <1>3, <3>7
    <3>9. h[m - i] \in Nat /\ h[(m - i) + 1] \in Nat
      <4>1. m - i \in 0 .. n /\ (m - i) + 1 \in 0 .. n
        BY <1>3, <3>3, <3>7
      <4>2. \A j \in 0 .. n : h[j] \in a .. b
        BY <1>2, <1>3
      <4>3. h[m - i] \in a .. b /\ h[(m - i) + 1] \in a .. b
        BY ONLY <4>1, <4>2
      <4>4. \A l \in a .. b : l \in Nat
        BY <1>2
      <4> QED BY ONLY <4>3, <4>4
    <3>10. e \in Nat
      BY <1>2, <1>8
    <3> QED BY ONLY <3>3, <3>6, <3>8, <3>9, <3>10
  <2>2. ASSUME NEW i \in 0 .. m PROVE h[i] <= e
    <3>1. m - i \in 0 .. m /\ m - (m - i) = i
      OBVIOUS
    <3> QED BY <2>1, <3>1
  <2> QED BY <2>2
<1>10. k \in [0 .. m -> a .. e]
  <2>1. ASSUME NEW i \in 0 .. m PROVE h[i] \in a .. e
    <3>1. h[i] \in a .. b
      BY <1>2, <1>3, <1>7
    <3> QED BY <1>2, <1>8, <1>9, <3>1
  <2> QED BY <1>6, <2>1
<1>11. k[0] = a /\ k[m] = e
  <2>1. 0 \in 0 .. m /\ m \in 0 .. m
    OBVIOUS
  <2> QED BY <1>2, <1>6, <1>8, <2>1
<1>12. ASSUME NEW i \in 1 .. m PROVE k[i - 1] <= k[i] /\ t[i] = Run(k[i - 1], k[i])
  <2>1. i \in 1 .. n /\ i \in 0 .. m /\ i - 1 \in 0 .. m
    BY <1>3
  <2> QED BY <1>2, <1>3, <1>5, <1>6, <2>1
<1>13. CutAt(t, a, e, k)
  <2>1. e \in Nat /\ a <= e
    BY <1>2, <1>8
  <2> QED BY <1>2, <1>5, <1>10, <1>11, <1>12, <2>1 DEF CutAt
<1> QED BY <1>4, <1>8, <1>13 DEF Cut

\* All the lines of the buffers, one after the other.
LEMMA LinesOfCut ==
  ASSUME NEW s, NEW a, NEW b, Cut(s, a, b)
  PROVE  Log!Lines(s) = Run(a, b)
<1>1. PICK h : CutAt(s, a, b, h)
  BY DEF Cut
<1>2. /\ s \in Seq(Seq(Nat)) /\ a \in Nat /\ b \in Nat /\ a <= b
      /\ h \in [0 .. Len(s) -> a .. b] /\ h[0] = a /\ h[Len(s)] = b
      /\ \A i \in 1 .. Len(s) : h[i - 1] <= h[i] /\ s[i] = Run(h[i - 1], h[i])
  BY <1>1 DEF CutAt
<1>3. PICK n \in Nat : n = Len(s)
  BY <1>2, LenProperties
<1>4. CASE n = 0
  <2>1. s = <<>> /\ a = b
    BY <1>2, <1>3, <1>4, EmptySeq
  <2>2. Log!Lines(s) = s
    BY <1>3, <1>4 DEF Log!Lines, Log!FlattenSeq
  <2> QED BY <1>2, <2>1, <2>2, RunEmpty
<1>5. CASE n # 0
  <2> DEFINE Step(f) == [i \in 1 .. Len(s) |-> IF i = 1 THEN s[i] ELSE f[i - 1] \o s[i]]
             flatten == CHOOSE f : f = Step(f)
             g == [i \in 1 .. Len(s) |-> Run(a, h[i])]
  <2>1. Log!Lines(s) = flatten[n]
    BY <1>3, <1>5 DEF Log!Lines, Log!FlattenSeq
  <2>2. \A i \in 0 .. n : h[i] \in Nat /\ a <= h[i]
    <3>1. \A i \in 0 .. n : h[i] \in a .. b
      BY <1>2, <1>3
    <3> QED BY <1>2, <3>1
  <2>3. ASSUME NEW i \in 1 .. n
        PROVE  Run(a, h[i]) = IF i = 1 THEN s[i] ELSE Run(a, h[i - 1]) \o s[i]
    <3>1. s[i] = Run(h[i - 1], h[i]) /\ h[i - 1] <= h[i]
      BY <1>2, <1>3
    <3>2. CASE i = 1
      <4>1. h[i - 1] = a
        BY <1>2, <3>2
      <4> QED BY <3>1, <3>2, <4>1
    <3>3. CASE i # 1
      <4>1. i - 1 \in 0 .. n /\ i \in 0 .. n
        OBVIOUS
      <4> PICK l \in Nat, m \in Nat : l = h[i - 1] /\ m = h[i] /\ a <= l
        BY <2>2, <4>1
      <4>2. Run(a, h[i - 1]) \o Run(h[i - 1], h[i]) = Run(a, h[i])
        <5>1. a \in Nat /\ l <= m
          BY <1>2, <3>1
        <5>2. Run(a, l) \o Run(l, m) = Run(a, m)
          BY <5>1, RunConcat
        <5> QED BY <5>2
      <4> QED BY <3>1, <3>3, <4>2
    <3> QED BY <3>2, <3>3
  <2>4. g = Step(g)
    <3>1. ASSUME NEW i \in 1 .. Len(s)
          PROVE  Run(a, h[i]) = IF i = 1 THEN s[i] ELSE g[i - 1] \o s[i]
      <4>1. i # 1 => i - 1 \in 1 .. Len(s)
        BY <1>3
      <4>2. i # 1 => g[i - 1] = Run(a, h[i - 1])
        BY <4>1
      <4> QED BY <1>3, <2>3, <4>2
    <3> QED BY <3>1
  <2>5. flatten = Step(flatten)
    BY <2>4
  <2> HIDE DEF flatten
  <2>6. \A i \in 1 .. n : flatten[i] = IF i = 1 THEN s[i] ELSE flatten[i - 1] \o s[i]
    BY <1>3, <2>5
  <2> HIDE DEF Step, g
  <2> DEFINE Bad == {i \in 1 .. n : flatten[i] # Run(a, h[i])}
  <2>7. Bad = {}
    <3> SUFFICES ASSUME Bad # {} PROVE FALSE
      OBVIOUS
    <3>1. Bad \subseteq Nat
      OBVIOUS
    <3>2. PICK i \in Bad : \A j \in Bad : i <= j
      BY <3>1, NatLeast
    <3>3. CASE i = 1
      BY <2>3, <2>6, <3>2, <3>3
    <3>4. CASE i # 1
      <4>1. i - 1 \in 1 .. n /\ ~(i <= i - 1)
        BY <3>2, <3>4
      <4>2. flatten[i - 1] = Run(a, h[i - 1])
        BY <3>2, <4>1
      <4> QED BY <2>3, <2>6, <3>2, <3>4, <4>2
    <3> QED BY <3>3, <3>4
  <2>8. flatten[n] = Run(a, h[n])
    <3>1. n \in 1 .. n
      BY <1>5
    <3> QED BY <2>7, <3>1
  <2> QED BY <1>2, <1>3, <2>1, <2>8
<1> QED BY <1>4, <1>5

-----------------------------------------------------------------------------
(* The log.                                                                   *)

\* The file has the lines 1..u that were not dropped, in order.
FileAt(f, D, u) ==
  /\ f \in Seq(Nat) /\ u \in Nat /\ D \subseteq 1 .. u
  /\ Log!ToSet(f) = 1 .. u \ D
  /\ \A i, j \in DOMAIN f : i < j => f[i] < f[j]

\* Lines that follow are written up to e, and dropped from there to v.
LEMMA FileGrows ==
  ASSUME NEW f, NEW D, NEW u, FileAt(f, D, u), NEW e \in Nat, NEW v \in Nat,
         u <= e, e <= v
  PROVE  FileAt(f \o Run(u, e), D \union ((u + 1 .. v) \ (u + 1 .. e)), v)
<1>1. /\ f \in Seq(Nat) /\ u \in Nat /\ D \subseteq 1 .. u
      /\ Log!ToSet(f) = 1 .. u \ D
      /\ \A i, j \in DOMAIN f : i < j => f[i] < f[j]
  BY DEF FileAt
<1>2. PICK n \in Nat : n = Len(f) /\ DOMAIN f = 1 .. n
  BY <1>1, LenProperties
<1>3. PICK m \in Nat : m = e - u
  BY <1>1
<1>4. /\ Run(u, e) \in Seq(Nat) /\ Len(Run(u, e)) = m
      /\ \A i \in 1 .. m : Run(u, e)[i] = u + i
  BY <1>1, <1>3, RunProperties
<1>5. PICK g : g = f \o Run(u, e)
  OBVIOUS
<1>6. PICK E : E = D \union ((u + 1 .. v) \ (u + 1 .. e))
  OBVIOUS
<1>7. /\ g \in Seq(Nat) /\ Len(g) = n + m
      /\ \A i \in 1 .. n + m : g[i] = IF i <= n THEN f[i] ELSE Run(u, e)[i - n]
  <2> PICK r : r = Run(u, e)
    OBVIOUS
  <2>1. f \in Seq(Nat) /\ r \in Seq(Nat) /\ Len(f) = n /\ Len(r) = m /\ g = f \o r
    BY <1>1, <1>2, <1>4, <1>5
  <2>2. /\ g \in Seq(Nat) /\ Len(g) = Len(f) + Len(r)
        /\ \A i \in 1 .. Len(f) + Len(r) :
             g[i] = IF i <= Len(f) THEN f[i] ELSE r[i - Len(f)]
    BY ONLY <2>1, ConcatProperties
  <2> QED BY ONLY <2>1, <2>2, r = Run(u, e)
<1>8. DOMAIN g = 1 .. n + m
  BY <1>7, LenProperties
<1>9. \A i \in 1 .. n : i \in 1 .. n + m /\ g[i] = f[i] /\ f[i] \in 1 .. u
  <2>1. ASSUME NEW i \in 1 .. n PROVE i \in 1 .. n + m /\ i <= n
    OBVIOUS
  <2>2. \A i \in 1 .. n : f[i] \in 1 .. u
    BY <1>1, <1>2 DEF Log!ToSet
  <2> QED BY <1>7, <2>1, <2>2
<1>10. \A i \in 1 .. m : n + i \in 1 .. n + m /\ g[n + i] = u + i
  <2>1. ASSUME NEW i \in 1 .. m
        PROVE  n + i \in 1 .. n + m /\ ~(n + i <= n) /\ (n + i) - n = i
    OBVIOUS
  <2> QED BY <1>4, <1>7, <2>1
<1>11. \A i \in 1 .. n + m : i \in 1 .. n \/ (i - n \in 1 .. m /\ i = n + (i - n))
  OBVIOUS
<1>12. Log!ToSet(g) = 1 .. v \ E
  <2>1. ASSUME NEW l \in Log!ToSet(g) PROVE l \in 1 .. v \ E
    <3>1. PICK i \in 1 .. n + m : l = g[i]
      BY <1>8 DEF Log!ToSet
    <3>2. CASE i \in 1 .. n
      <4>1. l = f[i]
        BY <1>9, <3>1, <3>2
      <4>2. l \in 1 .. u \ D
        BY <1>1, <1>2, <3>2, <4>1 DEF Log!ToSet
      <4>3. l \in 1 .. v /\ l \notin u + 1 .. v
        BY <1>1, <4>2
      <4> QED BY <1>6, <4>2, <4>3
    <3>3. CASE i - n \in 1 .. m
      <4>1. l = u + (i - n)
        BY <1>10, <1>11, <3>1, <3>3
      <4>2. l \in u + 1 .. e /\ l \in 1 .. v /\ l \notin 1 .. u
        BY <1>1, <1>3, <3>3, <4>1
      <4> QED BY <1>1, <1>6, <4>2
    <3> QED BY <1>11, <3>2, <3>3
  <2>2. ASSUME NEW l \in 1 .. v \ E PROVE l \in Log!ToSet(g)
    <3>1. CASE l \in 1 .. u
      <4>1. l \in Log!ToSet(f)
        BY <1>1, <1>6, <3>1
      <4>2. PICK i \in 1 .. n : l = f[i]
        BY <1>2, <4>1 DEF Log!ToSet
      <4> QED BY <1>8, <1>9, <4>2 DEF Log!ToSet
    <3>2. CASE l \notin 1 .. u
      <4>1. l \in u + 1 .. v
        BY <1>1, <3>2
      <4>2. l \in u + 1 .. e
        BY <1>6, <4>1
      <4>3. l - u \in 1 .. m /\ u + (l - u) = l
        BY <1>1, <1>3, <4>2
      <4> QED BY <1>8, <1>10, <4>3 DEF Log!ToSet
    <3> QED BY <3>1, <3>2
  <2> QED BY <2>1, <2>2
<1>13. ASSUME NEW i \in DOMAIN g, NEW j \in DOMAIN g, i < j PROVE g[i] < g[j]
  <2>1. i \in 1 .. n + m /\ j \in 1 .. n + m
    BY <1>8
  <2>2. CASE i \in 1 .. n /\ j \in 1 .. n
    BY <1>1, <1>2, <1>9, <1>13, <2>2
  <2>3. CASE i \in 1 .. n /\ j - n \in 1 .. m
    <3>1. g[i] \in 1 .. u
      BY <1>9, <2>3
    <3>2. g[j] = u + (j - n)
      BY <1>10, <1>11, <2>1, <2>3
    <3> QED BY <1>1, <2>3, <3>1, <3>2
  <2>4. CASE i - n \in 1 .. m /\ j - n \in 1 .. m
    <3>1. g[i] = u + (i - n) /\ g[j] = u + (j - n)
      BY <1>10, <1>11, <2>1, <2>4
    <3> QED BY <1>1, <1>13, <2>1, <3>1
  <2>5. CASE i - n \in 1 .. m /\ j \in 1 .. n
    BY <1>13, <2>1, <2>5
  <2> QED BY <1>11, <2>1, <2>2, <2>3, <2>4, <2>5
<1>14. E \subseteq 1 .. v
  BY <1>1, <1>6
<1>15. FileAt(g, E, v)
  BY <1>7, <1>12, <1>13, <1>14 DEF FileAt
<1> QED BY <1>5, <1>6, <1>15

\* A buffer that was moved from is replaced before it is needed: when the next buffer
\* is gone a buffer was filled since, so that a round has a buffer to win back for each
\* spare one that it used up.
SparesOk ==
  /\ backend \in {"check", "lock", "wait", "take", "write", "ended"}
  /\ nextBuffer_ \in {<<>>, <<0>>}
  /\ nextBuffer_ # <<>> => buffers_ # <<>>
  /\ backend = "write" => /\ newBuffer1 = <<0>> /\ newBuffer2 \in {<<>>, <<0>>}
                          /\ buffersToWrite # <<>>
                          /\ newBuffer2 # <<>> => Len(buffersToWrite) >= 2
  /\ backend # "write" => newBuffer1 = <<>> /\ newBuffer2 = <<>> /\ buffersToWrite = <<>>

\* The lines up to u have left, those up to v are being written, those up to w wait in
\* full buffers, the others are in the current one.
LinesAt(u, v, w) ==
  /\ FileAt(file, dropped, u)
  /\ Cut(buffersToWrite, u, v) /\ Cut(buffers_, v, w)
  /\ lines \in Nat /\ w <= lines /\ currentBuffer_ = Run(w, lines)

LogInv == SparesOk /\ \E u, v, w : LinesAt(u, v, w)

\* A buffer that was moved from differs from one that was reset.
LEMMA NullNotEmpty == Log!NULL = <<0>> /\ Log!Empty = <<>> /\ <<0>> # <<>>
BY DEF Log!NULL, Log!Empty

LEMMA CutNumbers ==
  ASSUME NEW s, NEW a, NEW b, Cut(s, a, b)
  PROVE  a \in Nat /\ b \in Nat /\ a <= b /\ s \in Seq(Seq(Nat))
BY DEF Cut, CutAt

LEMMA ConcatLines ==
  ASSUME NEW f \in Seq(Nat), NEW g \in Seq(Nat), NEW h \in Seq(Nat)
  PROVE  (f \o g) \o h = f \o (g \o h)
OBVIOUS

LEMMA LogSafe == LogInv => Log!EveryLineOnce /\ Log!SparesReady
<1> SUFFICES ASSUME LogInv PROVE Log!EveryLineOnce /\ Log!SparesReady
  OBVIOUS
<1>1. SparesOk
  BY DEF LogInv
<1>2. PICK u, v, w : LinesAt(u, v, w)
  BY DEF LogInv
<1>3. /\ FileAt(file, dropped, u)
      /\ Cut(buffersToWrite, u, v) /\ Cut(buffers_, v, w)
      /\ lines \in Nat /\ w <= lines /\ currentBuffer_ = Run(w, lines)
  BY <1>2 DEF LinesAt
<1>4. u \in Nat /\ v \in Nat /\ w \in Nat /\ u <= v /\ v <= w /\ u <= lines
  <2>1. u \in Nat /\ v \in Nat /\ w \in Nat /\ u <= v /\ v <= w
    BY <1>3, CutNumbers
  <2> QED BY <1>3, <2>1
<1>5. Log!Lines(buffersToWrite) = Run(u, v) /\ Log!Lines(buffers_) = Run(v, w)
  BY <1>3, LinesOfCut
<1>6. Log!Log = file \o Run(u, lines)
  <2>1. Log!Log = ((file \o Run(u, v)) \o Run(v, w)) \o Run(w, lines)
    BY <1>3, <1>5 DEF Log!Log
  <2>2. file \in Seq(Nat)
    BY <1>3 DEF FileAt
  <2>3. /\ Run(u, v) \in Seq(Nat) /\ Run(v, w) \in Seq(Nat) /\ Run(w, lines) \in Seq(Nat)
        /\ Run(u, w) \in Seq(Nat)
    <3>1. u <= w
      BY <1>4
    <3> QED BY <1>3, <1>4, <3>1, RunProperties
  <2>4. (file \o Run(u, v)) \o Run(v, w) = file \o (Run(u, v) \o Run(v, w))
    BY <2>2, <2>3, ConcatLines
  <2>5. Run(u, v) \o Run(v, w) = Run(u, w)
    BY <1>4, RunConcat
  <2>6. (file \o Run(u, w)) \o Run(w, lines) = file \o (Run(u, w) \o Run(w, lines))
    BY <2>2, <2>3, ConcatLines
  <2>7. Run(u, w) \o Run(w, lines) = Run(u, lines)
    <3>1. u <= w
      BY <1>4
    <3> QED BY <1>3, <1>4, <3>1, RunConcat
  <2> QED BY <2>1, <2>4, <2>5, <2>6, <2>7
<1>7. FileAt(Log!Log, dropped, lines)
  <2>1. FileAt(file \o Run(u, lines),
               dropped \union ((u + 1 .. lines) \ (u + 1 .. lines)), lines)
    <3>1. lines <= lines
      BY <1>3
    <3> QED BY <1>3, <1>4, <3>1, FileGrows
  <2>2. dropped \union ((u + 1 .. lines) \ (u + 1 .. lines)) = dropped
    OBVIOUS
  <2> QED BY <1>6, <2>1, <2>2
<1>8. Log!EveryLineOnce
  BY <1>7 DEF FileAt, Log!EveryLineOnce
<1>9. Log!SparesReady
  <2>1. currentBuffer_ # <<0>>
    <3> SUFFICES ASSUME Run(w, lines) = <<0>> PROVE FALSE
      BY <1>3
    <3>1. DOMAIN Run(w, lines) = 1 .. 1 /\ Run(w, lines)[1] = 0
      OBVIOUS
    <3>2. /\ DOMAIN Run(w, lines) = 1 .. lines - w
          /\ \A i \in 1 .. lines - w : Run(w, lines)[i] = w + i
      BY <1>3, <1>4, RunProperties
    <3>3. 1 \in 1 .. lines - w
      <4>1. 1 \in 1 .. 1
        OBVIOUS
      <4> QED BY <3>1, <3>2, <4>1
    <3>4. w + 1 = 0
      BY <3>1, <3>2, <3>3
    <3> QED BY <1>4, <3>4
  <2> QED BY <1>1, <2>1 DEF SparesOk, Log!SparesReady, Log!NULL, Log!Empty
<1> QED BY <1>8, <1>9

LEMMA LogInitInv == Log!Init => LogInv
<1> SUFFICES ASSUME Log!Init PROVE LogInv
  OBVIOUS
<1>1. SparesOk
  BY DEF Log!Init, SparesOk, Log!Empty
<1>2. FileAt(<<>>, {}, 0)
  BY DEF FileAt, Log!ToSet
<1>3. Cut(<<>>, 0, 0) /\ Run(0, 0) = <<>>
  BY CutNone, RunEmpty
<1>4. LinesAt(0, 0, 0)
  BY <1>2, <1>3 DEF Log!Init, LinesAt, Log!Empty
<1> QED BY <1>1, <1>4 DEF LogInv

\* A step that moves no line: it does not begin or end a round either.
LEMMA LogQuiet ==
  ASSUME LogInv, UNCHANGED <<currentBuffer_, nextBuffer_, buffers_, lines, newBuffer1,
                             newBuffer2, buffersToWrite, file, dropped>>,
         \/ backend' \in {"check", "lock", "wait", "take", "ended"} /\ backend # "write"
         \/ backend' = backend
  PROVE  LogInv'
<1>1. PICK u, v, w : LinesAt(u, v, w)
  BY DEF LogInv
<1>2. LinesAt(u, v, w)'
  BY <1>1 DEF LinesAt
<1>3. SparesOk'
  BY DEF LogInv, SparesOk
<1> QED BY <1>2, <1>3 DEF LogInv

LEMMA AppendStep ==
  ASSUME LogInv, Log!append
  PROVE  LogInv'
<1>1. PICK u, v, w : LinesAt(u, v, w)
  BY DEF LogInv
<1>2. /\ FileAt(file, dropped, u)
      /\ Cut(buffersToWrite, u, v) /\ Cut(buffers_, v, w)
      /\ lines \in Nat /\ w <= lines /\ currentBuffer_ = Run(w, lines)
  BY <1>1 DEF LinesAt
<1>3. w \in Nat /\ buffers_ \in Seq(Seq(Nat))
  BY <1>2, CutNumbers
<1>4. /\ lines' = lines + 1
      /\ file' = file /\ dropped' = dropped /\ buffersToWrite' = buffersToWrite
      /\ newBuffer1' = newBuffer1 /\ newBuffer2' = newBuffer2
  BY DEF Log!append, Log!back
<1>5. lines + 1 \in Nat /\ w <= lines + 1 /\ lines <= lines + 1
  BY <1>2, <1>3
<1>6. SparesOk
  BY DEF LogInv
<1>7. CASE Len(currentBuffer_) < Capacity
  <2>1. /\ currentBuffer_' = Append(currentBuffer_, lines + 1)
        /\ buffers_' = buffers_ /\ nextBuffer_' = nextBuffer_ /\ backend' = backend
    BY <1>4, <1>7 DEF Log!append
  <2>2. currentBuffer_' = Run(w, lines + 1)
    BY <1>2, <1>3, <2>1, RunNext
  <2>3. LinesAt(u, v, w)'
    BY <1>2, <1>4, <1>5, <2>1, <2>2 DEF LinesAt
  <2>4. SparesOk'
    BY <1>4, <1>6, <2>1 DEF SparesOk
  <2> QED BY <2>3, <2>4 DEF LogInv
<1>8. CASE ~(Len(currentBuffer_) < Capacity)
  <2>1. /\ buffers_' = Append(buffers_, currentBuffer_)
        /\ currentBuffer_' = IF nextBuffer_ # Log!NULL THEN Append(nextBuffer_, lines + 1)
                                                      ELSE <<lines + 1>>
        /\ nextBuffer_' = <<0>>
        /\ backend' = IF backend = "wait" THEN "take" ELSE backend
    BY <1>4, <1>8, NullNotEmpty DEF Log!append, Log!Notify
  <2>2. currentBuffer_' = Run(lines, lines + 1)
    <3>1. Append(<<>>, lines + 1) = <<lines + 1>>
      OBVIOUS
    <3>2. nextBuffer_ # Log!NULL => nextBuffer_ = <<>>
      BY <1>6, NullNotEmpty DEF SparesOk
    <3>3. currentBuffer_' = <<lines + 1>>
      BY <2>1, <3>1, <3>2
    <3> QED BY <1>2, <3>3, RunOne
  <2>3. Cut(buffers_', v, lines)
    BY <1>2, <2>1, CutAppend
  <2>4. PICK n : n = lines
    OBVIOUS
  <2>5. LinesAt(u, v, n)'
    <3>1. Cut(buffersToWrite', u, v) /\ FileAt(file', dropped', u)
      BY <1>2, <1>4
    <3>2. lines' \in Nat /\ n <= lines' /\ currentBuffer_' = Run(n, lines')
      BY <1>4, <1>5, <2>2, <2>4
    <3> QED BY <2>3, <2>4, <3>1, <3>2 DEF LinesAt
  <2>6. SparesOk'
    <3>1. buffers_' # <<>>
      <4>1. currentBuffer_ \in Seq(Nat)
        BY <1>2, <1>3, RunProperties
      <4> QED BY <1>3, <2>1, <4>1, AppendProperties
    <3>2. backend' \in {"check", "lock", "wait", "take", "write", "ended"}
          /\ (backend' = "write" <=> backend = "write")
      BY <1>6, <2>1 DEF SparesOk
    <3> QED BY <1>4, <1>6, <2>1, <3>1, <3>2 DEF SparesOk
  <2> QED BY <2>5, <2>6 DEF LogInv
<1> QED BY <1>7, <1>8

LEMMA SwapStep ==
  ASSUME LogInv, Log!Take
  PROVE  LogInv'
<1>1. PICK u, v, w : LinesAt(u, v, w)
  BY DEF LogInv
<1>2. /\ FileAt(file, dropped, u)
      /\ Cut(buffersToWrite, u, v) /\ Cut(buffers_, v, w)
      /\ lines \in Nat /\ w <= lines /\ currentBuffer_ = Run(w, lines)
  BY <1>1 DEF LinesAt
<1>3. w \in Nat /\ buffers_ \in Seq(Seq(Nat))
  BY <1>2, CutNumbers
<1>4. /\ backend = "take" /\ backend' = "write"
      /\ lines' = lines /\ file' = file /\ dropped' = dropped
      /\ buffersToWrite' = Append(buffers_, currentBuffer_) /\ buffers_' = <<>>
      /\ currentBuffer_' = newBuffer1 /\ newBuffer1' = <<0>>
      /\ nextBuffer_ = <<0>> => nextBuffer_' = newBuffer2 /\ newBuffer2' = <<0>>
      /\ nextBuffer_ # <<0>> => nextBuffer_' = nextBuffer_ /\ newBuffer2' = newBuffer2
  BY NullNotEmpty DEF Log!Take
<1>5. /\ nextBuffer_ \in {<<>>, <<0>>} /\ (nextBuffer_ # <<>> => buffers_ # <<>>)
      /\ newBuffer1 = <<>> /\ newBuffer2 = <<>> /\ buffersToWrite = <<>>
  BY <1>4 DEF LogInv, SparesOk
<1>6. u = v
  BY <1>2, <1>5, CutNoneOnly
<1>7. Cut(buffersToWrite', u, lines)
  BY <1>2, <1>4, <1>6, CutAppend
<1>8. PICK n : n = lines
  OBVIOUS
<1>9. Cut(buffers_', n, n) /\ currentBuffer_' = Run(n, n)
  BY <1>2, <1>4, <1>5, <1>8, CutNone, RunEmpty
<1>10. LinesAt(u, n, n)'
  <2>1. lines' \in Nat /\ n <= lines' /\ lines' = n
    BY <1>2, <1>4, <1>8
  <2> QED BY <1>2, <1>4, <1>7, <1>8, <1>9, <2>1 DEF LinesAt
<1>11. SparesOk'
  <2>1. currentBuffer_ \in Seq(Nat)
    BY <1>2, <1>3, RunProperties
  <2>2. buffersToWrite' # <<>> /\ Len(buffersToWrite') = Len(buffers_) + 1
    BY <1>3, <1>4, <2>1, AppendProperties
  <2>3. buffers_ # <<>> => Len(buffersToWrite') >= 2
    <3>1. PICK m \in Nat : m = Len(buffers_)
      BY <1>3, LenProperties
    <3>2. buffers_ # <<>> => m # 0
      BY <1>3, <3>1, EmptySeq
    <3> QED BY <2>2, <3>1, <3>2
  <2>4. nextBuffer_' = <<>> /\ newBuffer2' \in {<<>>, <<0>>}
        /\ (newBuffer2' # <<>> => nextBuffer_ # <<>>)
    BY <1>4, <1>5
  <2> QED BY <1>4, <1>5, <2>2, <2>3, <2>4 DEF SparesOk
<1> QED BY <1>10, <1>11 DEF LogInv

\* A buffer is won back from those written, when there is one.
LEMMA ReusedWhole ==
  ASSUME NEW s, s # <<>>
  PROVE  Log!Reused(s) = <<>>
BY NullNotEmpty DEF Log!Reused

LEMMA WriteStep ==
  ASSUME LogInv, Log!Write
  PROVE  LogInv'
<1>1. PICK u, v, w : LinesAt(u, v, w)
  BY DEF LogInv
<1>2. /\ FileAt(file, dropped, u)
      /\ Cut(buffersToWrite, u, v) /\ Cut(buffers_, v, w)
      /\ lines \in Nat /\ w <= lines /\ currentBuffer_ = Run(w, lines)
  BY <1>1 DEF LinesAt
<1>3. /\ u \in Nat /\ v \in Nat /\ w \in Nat /\ u <= v
      /\ buffersToWrite \in Seq(Seq(Nat))
  BY <1>2, CutNumbers
<1>4. PICK n \in Nat : n = Len(buffersToWrite)
  BY <1>3, LenProperties
<1>5. PICK kept : kept = IF Len(buffersToWrite) > MaxQueued
                         THEN SubSeq(buffersToWrite, 1, 2) ELSE buffersToWrite
  OBVIOUS
<1>6. PICK reuse : reuse = IF Len(kept) > 2 THEN SubSeq(kept, 1, 2) ELSE kept
  OBVIOUS
<1>7. /\ backend = "write" /\ backend' = "check"
      /\ file' = file \o Log!Lines(kept)
      /\ dropped' = dropped \union
           (Log!ToSet(Log!Lines(buffersToWrite)) \ Log!ToSet(Log!Lines(kept)))
      /\ newBuffer1' = IF newBuffer1 = <<0>> THEN Log!Reused(reuse) ELSE newBuffer1
      /\ newBuffer2' = IF newBuffer2 = <<0>>
                       THEN Log!Reused(IF newBuffer1 = <<0>>
                                       THEN SubSeq(reuse, 1, Len(reuse) - 1) ELSE reuse)
                       ELSE newBuffer2
      /\ buffersToWrite' = <<>>
      /\ currentBuffer_' = currentBuffer_ /\ nextBuffer_' = nextBuffer_
      /\ buffers_' = buffers_ /\ lines' = lines
  BY <1>5, <1>6, NullNotEmpty DEF Log!Write, Log!front
<1>8. /\ newBuffer1 = <<0>> /\ newBuffer2 \in {<<>>, <<0>>} /\ buffersToWrite # <<>>
      /\ newBuffer2 # <<>> => Len(buffersToWrite) >= 2
      /\ nextBuffer_ \in {<<>>, <<0>>} /\ (nextBuffer_ # <<>> => buffers_ # <<>>)
  BY <1>7 DEF LogInv, SparesOk
<1>9. n > MaxQueued => n >= 2
  BY <1>4, LogAssumption
<1>10. PICK e \in u .. v : Cut(kept, u, e)
  <2>1. CASE n > MaxQueued
    <3>1. 2 \in Nat /\ 2 <= Len(buffersToWrite)
      BY <1>4, <1>9, <2>1
    <3>2. kept = SubSeq(buffersToWrite, 1, 2)
      BY <1>4, <1>5, <2>1
    <3> QED BY <1>2, <3>1, <3>2, CutFirst
  <2>2. CASE ~(n > MaxQueued)
    <3>1. kept = buffersToWrite /\ v \in u .. v
      BY <1>3, <1>4, <1>5, <2>2
    <3> QED BY <1>2, <3>1
  <2> QED BY <2>1, <2>2
<1>11. PICK m \in Nat : m = Len(kept)
  <2>1. kept \in Seq(Seq(Nat))
    BY <1>10, CutNumbers
  <2> QED BY <2>1, LenProperties
<1>12. kept \in Seq(Seq(Nat)) /\ m = IF n > MaxQueued THEN 2 ELSE n
  <2>1. kept \in Seq(Seq(Nat))
    BY <1>10, CutNumbers
  <2>2. CASE n > MaxQueued
    <3>1. Len(SubSeq(buffersToWrite, 1, 2)) = 2
      <4>1. \A i \in 1 .. 2 : buffersToWrite[i] \in Seq(Nat)
        <5>1. \A i \in 1 .. 2 : i \in 1 .. Len(buffersToWrite)
          BY <1>4, <1>9, <2>2
        <5> QED BY <1>3, <5>1, ElementOfSeq
      <4>2. 1 \in Int /\ 2 \in Int
        OBVIOUS
      <4>3. Len(SubSeq(buffersToWrite, 1, 2)) = IF 1 <= 2 THEN 2 - 1 + 1 ELSE 0
        BY <4>1, <4>2, SubSeqProperties
      <4> QED BY <4>3
    <3>2. kept = SubSeq(buffersToWrite, 1, 2)
      BY <1>4, <1>5, <2>2
    <3> QED BY <1>11, <2>1, <2>2, <3>1, <3>2
  <2>3. CASE ~(n > MaxQueued)
    <3>1. kept = buffersToWrite
      BY <1>4, <1>5, <2>3
    <3> QED BY <1>4, <1>11, <2>1, <2>3, <3>1
  <2> QED BY <2>2, <2>3
<1>13. m # 0 /\ (newBuffer2 # <<>> => m >= 2)
  <2>1. n # 0
    BY <1>3, <1>4, <1>8, EmptySeq
  <2>2. newBuffer2 # <<>> => n >= 2
    BY <1>4, <1>8
  <2> QED BY <1>12, <2>1, <2>2
<1>14. reuse \in Seq(Seq(Nat)) /\ Len(reuse) = IF m > 2 THEN 2 ELSE m
  <2>1. CASE m > 2
    <3>1. \A i \in 1 .. 2 : kept[i] \in Seq(Nat)
      <4>1. \A i \in 1 .. 2 : i \in 1 .. Len(kept)
        BY <1>11, <2>1
      <4> QED BY <1>12, <4>1, ElementOfSeq
    <3>2. 1 \in Int /\ 2 \in Int
      OBVIOUS
    <3>3. /\ SubSeq(kept, 1, 2) \in Seq(Seq(Nat))
          /\ Len(SubSeq(kept, 1, 2)) = IF 1 <= 2 THEN 2 - 1 + 1 ELSE 0
      BY <3>1, <3>2, SubSeqProperties
    <3>4. reuse = SubSeq(kept, 1, 2)
      BY <1>6, <1>11, <2>1
    <3> QED BY <2>1, <3>3, <3>4
  <2>2. CASE ~(m > 2)
    <3>1. reuse = kept
      BY <1>6, <1>11, <2>2
    <3> QED BY <1>11, <1>12, <2>2, <3>1
  <2> QED BY <2>1, <2>2
<1>15. newBuffer1' = <<>>
  <2>1. reuse # <<>>
    <3>1. Len(reuse) # 0
      BY <1>13, <1>14
    <3>2. Len(<<>>) = 0
      OBVIOUS
    <3> QED BY <3>1, <3>2
  <2> QED BY <1>7, <1>8, <2>1, ReusedWhole
<1>16. newBuffer2' = <<>>
  <2>1. CASE newBuffer2 = <<>>
    BY <1>7, <2>1, NullNotEmpty
  <2>2. CASE newBuffer2 = <<0>>
    <3>1. m >= 2 /\ Len(reuse) = 2
      BY <1>13, <1>14, <2>2, NullNotEmpty
    <3>t. PICK t : t = SubSeq(reuse, 1, 1)
      OBVIOUS
    <3>2. Len(t) = 1
      <4>1. \A i \in 1 .. 1 : reuse[i] \in Seq(Nat)
        <5>1. \A i \in 1 .. 1 : i \in 1 .. Len(reuse)
          BY <3>1
        <5> QED BY <1>14, <5>1, ElementOfSeq
      <4>2. 1 \in Int
        OBVIOUS
      <4>3. Len(SubSeq(reuse, 1, 1)) = IF 1 <= 1 THEN 1 - 1 + 1 ELSE 0
        BY <4>1, <4>2, SubSeqProperties
      <4> QED BY <3>t, <4>3
    <3>3. t # <<>>
      <4>1. Len(<<>>) = 0
        OBVIOUS
      <4> QED BY <3>2, <4>1
    <3>4. newBuffer2' = Log!Reused(SubSeq(reuse, 1, 1))
      <4>1. Len(reuse) - 1 = 1
        BY <3>1
      <4> QED BY <1>7, <1>8, <2>2, <4>1
    <3> QED BY <3>t, <3>3, <3>4, ReusedWhole
  <2> QED BY <1>8, <2>1, <2>2
<1>17. SparesOk'
  BY <1>7, <1>8, <1>15, <1>16 DEF SparesOk
<1>18. FileAt(file', dropped', v)
  <2>1. e \in Nat /\ u <= e /\ e <= v
    BY <1>3, <1>10
  <2>2. Log!Lines(kept) = Run(u, e) /\ Log!Lines(buffersToWrite) = Run(u, v)
    BY <1>2, <1>10, LinesOfCut
  <2>3. Log!ToSet(Run(u, e)) = u + 1 .. e /\ Log!ToSet(Run(u, v)) = u + 1 .. v
    BY <1>3, <2>1, RunSet
  <2>4. FileAt(file \o Run(u, e), dropped \union ((u + 1 .. v) \ (u + 1 .. e)), v)
    BY <1>2, <1>3, <2>1, FileGrows
  <2> QED BY <1>7, <2>2, <2>3, <2>4
<1>19. LinesAt(v, v, w)'
  <2>1. Cut(<<>>, v, v)
    BY <1>3, CutNone
  <2> QED BY <1>2, <1>7, <1>18, <2>1 DEF LinesAt
<1> QED BY <1>17, <1>19 DEF LogInv

LEMMA LogStep ==
  ASSUME LogInv, Log!Next
  PROVE  LogInv'
<1>1. CASE Log!append
  BY <1>1, AppendStep
<1>2. CASE Log!Stop
  <2>1. UNCHANGED <<Log!front, Log!back>> /\ (backend' = backend \/ Log!Notify)
    BY <1>2 DEF Log!Stop
  <2>2. UNCHANGED <<currentBuffer_, nextBuffer_, buffers_, lines, newBuffer1,
                    newBuffer2, buffersToWrite, file, dropped>>
    BY <2>1 DEF Log!front, Log!back
  <2>3. backend' = backend \/ (backend = "wait" /\ backend' = "take")
    BY <2>1 DEF Log!Notify
  <2>4. \/ backend' \in {"check", "lock", "wait", "take", "ended"} /\ backend # "write"
        \/ backend' = backend
    BY <2>3
  <2> QED BY <2>2, <2>4, LogQuiet
<1>3. CASE Log!Check \/ Log!Lock \/ Log!Timeout
  <2>1. /\ UNCHANGED <<currentBuffer_, nextBuffer_, buffers_, lines, newBuffer1,
                       newBuffer2, buffersToWrite, file, dropped>>
        /\ backend' \in {"check", "lock", "wait", "take", "ended"} /\ backend # "write"
    BY <1>3 DEF Log!Check, Log!Lock, Log!Timeout, Log!front, Log!back
  <2> QED BY <2>1, LogQuiet
<1>4. CASE Log!Take
  BY <1>4, SwapStep
<1>5. CASE Log!Write
  BY <1>5, WriteStep
<1> QED BY <1>1, <1>2, <1>3, <1>4, <1>5 DEF Log!Next, Log!Backend

\* The steps of the other programs.
LEMMA LogFrame ==
  ASSUME LogInv, UNCHANGED logVars
  PROVE  LogInv'
<1>1. UNCHANGED <<currentBuffer_, nextBuffer_, buffers_, lines, newBuffer1,
                  newBuffer2, buffersToWrite, file, dropped>> /\ backend' = backend
  BY DEF logVars
<1> QED BY <1>1, LogQuiet

-----------------------------------------------------------------------------
(* The parts of a run.                                                        *)

\* The head, the tail and the parts of a run are runs.
LEMMA RunTail ==
  ASSUME NEW a \in Nat, NEW b \in Nat, a <= b, Run(a, b) # <<>>
  PROVE  /\ a < b /\ a + 1 \in Nat /\ a + 1 <= b
         /\ Head(Run(a, b)) = a + 1 /\ Tail(Run(a, b)) = Run(a + 1, b)
<1>1. /\ Run(a, b) \in Seq(Nat) /\ Len(Run(a, b)) = b - a
      /\ \A i \in 1 .. b - a : Run(a, b)[i] = a + i
  BY RunProperties
<1>2. a < b
  BY RunEmpty
<1>3. a + 1 \in Nat /\ a + 1 <= b
  BY <1>2
<1>4. /\ Run(a + 1, b) \in Seq(Nat) /\ Len(Run(a + 1, b)) = b - (a + 1)
      /\ \A i \in 1 .. b - (a + 1) : Run(a + 1, b)[i] = a + 1 + i
  BY <1>3, RunProperties
<1> DEFINE rest == Tail(Run(a, b))
<1>5. /\ rest \in Seq(Nat) /\ Len(rest) = (b - a) - 1 /\ Head(Run(a, b)) = Run(a, b)[1]
      /\ \A i \in 1 .. (b - a) - 1 : rest[i] = Run(a, b)[i + 1]
  BY <1>1, HeadTailProperties
<1> HIDE DEF rest
<1>6. (b - a) - 1 = b - (a + 1)
  OBVIOUS
<1>7. ASSUME NEW i \in 1 .. b - (a + 1) PROVE rest[i] = Run(a + 1, b)[i]
  <2>1. i + 1 \in 1 .. b - a /\ a + (i + 1) = a + 1 + i
    OBVIOUS
  <2> QED BY <1>1, <1>4, <1>5, <1>6, <2>1
<1>8. rest = Run(a + 1, b)
  BY <1>4, <1>5, <1>6, <1>7, SeqEqual
<1>9. 1 \in 1 .. b - a
  BY <1>2
<1> QED BY <1>1, <1>2, <1>3, <1>5, <1>8, <1>9 DEF rest

\* The first k items of a sequence, and the items after them.
LEMMA FrontItems ==
  ASSUME NEW S, NEW s \in Seq(S), NEW k \in Nat, k <= Len(s)
  PROVE  /\ SubSeq(s, 1, k) \in Seq(S) /\ Len(SubSeq(s, 1, k)) = k
         /\ \A i \in 1 .. k : SubSeq(s, 1, k)[i] = s[i]
<1>1. /\ 1 \in Int /\ k \in Int
      /\ \A i \in 1 .. k : s[i] \in S
  OBVIOUS
<1>2. /\ SubSeq(s, 1, k) \in Seq(S)
      /\ Len(SubSeq(s, 1, k)) = IF 1 <= k THEN k - 1 + 1 ELSE 0
      /\ \A i \in 1 .. k - 1 + 1 : SubSeq(s, 1, k)[i] = s[1 + i - 1]
  BY ONLY <1>1, SubSeqProperties
<1>3. k - 1 + 1 = k /\ (1 <= k \/ k = 0) /\ \A i \in 1 .. k : 1 + i - 1 = i
  OBVIOUS
<1>4. \A i \in 1 .. k : SubSeq(s, 1, k)[i] = s[i]
  BY ONLY <1>2, <1>3
<1>5. Len(SubSeq(s, 1, k)) = k
  BY ONLY <1>2, <1>3, k \in Nat
<1> QED BY <1>2, <1>4, <1>5

LEMMA RestItems ==
  ASSUME NEW S, NEW s \in Seq(S), NEW k \in Nat, NEW m \in Nat, k + m = Len(s)
  PROVE  /\ SubSeq(s, k + 1, Len(s)) \in Seq(S) /\ Len(SubSeq(s, k + 1, Len(s))) = m
         /\ \A i \in 1 .. m : SubSeq(s, k + 1, Len(s))[i] = s[k + i]
<1> PICK n \in Nat : n = Len(s)
  BY LenProperties
<1>1. /\ k + 1 \in Int /\ n \in Int
      /\ \A i \in k + 1 .. n : s[i] \in S
  OBVIOUS
<1>2. /\ SubSeq(s, k + 1, n) \in Seq(S)
      /\ Len(SubSeq(s, k + 1, n)) = IF k + 1 <= n THEN n - (k + 1) + 1 ELSE 0
      /\ \A i \in 1 .. n - (k + 1) + 1 : SubSeq(s, k + 1, n)[i] = s[(k + 1) + i - 1]
  BY ONLY <1>1, SubSeqProperties
<1>3. /\ n - (k + 1) + 1 = m /\ (k + 1 <= n \/ m = 0)
      /\ \A i \in 1 .. m : (k + 1) + i - 1 = k + i
  OBVIOUS
<1>4. \A i \in 1 .. m : SubSeq(s, k + 1, n)[i] = s[k + i]
  BY ONLY <1>2, <1>3
<1>5. k + 1 <= n => Len(SubSeq(s, k + 1, n)) = m
  BY ONLY <1>2, <1>3
<1>6. ~(k + 1 <= n) => Len(SubSeq(s, k + 1, n)) = m
  BY ONLY <1>2, <1>3
<1> QED BY ONLY <1>2, <1>4, <1>5, <1>6, n = Len(s)

LEMMA RunSplit ==
  ASSUME NEW a \in Nat, NEW b \in Nat, a <= b, NEW k \in 0 .. Len(Run(a, b))
  PROVE  /\ a + k \in Nat /\ a + k <= b
         /\ SubSeq(Run(a, b), 1, k) = Run(a, a + k)
         /\ SubSeq(Run(a, b), k + 1, Len(Run(a, b))) = Run(a + k, b)
<1>1. /\ Run(a, b) \in Seq(Nat) /\ Len(Run(a, b)) = b - a
      /\ \A i \in 1 .. b - a : Run(a, b)[i] = a + i
  BY RunProperties
<1>2. k \in Nat /\ k <= b - a /\ a + k \in Nat /\ a + k <= b /\ a <= a + k
  BY <1>1
<1> PICK n \in Nat : n = b - a
  BY <1>1
<1>3. SubSeq(Run(a, b), 1, k) = Run(a, a + k)
  <2>1. /\ Run(a, a + k) \in Seq(Nat) /\ Len(Run(a, a + k)) = k
        /\ \A i \in 1 .. k : Run(a, a + k)[i] = a + i
    <3> PICK e \in Nat : e = a + k
      BY <1>2
    <3>1. e - a = k /\ a <= e
      BY <1>2
    <3> QED BY <3>1, RunProperties
  <2> PICK part : part = SubSeq(Run(a, b), 1, k)
    OBVIOUS
  <2>2. /\ part \in Seq(Nat) /\ Len(part) = k
        /\ \A i \in 1 .. k : part[i] = Run(a, b)[i]
    <3>1. k \in Nat /\ k <= Len(Run(a, b)) /\ Run(a, b) \in Seq(Nat)
      BY <1>1, <1>2
    <3> QED BY ONLY <3>1, part = SubSeq(Run(a, b), 1, k), FrontItems
  <2>3. \A i \in 1 .. k : part[i] = a + i
    BY <1>1, <1>2, <2>2
  <2>4. part = Run(a, a + k)
    BY <2>1, <2>2, <2>3, SeqEqual
  <2> QED BY <2>4
<1>4. SubSeq(Run(a, b), k + 1, b - a) = Run(a + k, b)
  <2> PICK e \in Nat, m \in Nat : e = a + k /\ m = n - k
    BY <1>2
  <2>0. b - e = m /\ e <= b /\ n = k + m
    BY <1>2
  <2>1. /\ Run(e, b) \in Seq(Nat) /\ Len(Run(e, b)) = m
        /\ \A i \in 1 .. m : Run(e, b)[i] = e + i
    <3>1. e \in Nat /\ b \in Nat /\ e <= b
      BY <2>0
    <3>2. /\ Run(e, b) \in Seq(Nat) /\ Len(Run(e, b)) = b - e
          /\ \A i \in 1 .. b - e : Run(e, b)[i] = e + i
      BY ONLY <3>1, RunProperties
    <3> QED BY ONLY <2>0, <3>2
  <2>9. n = Len(Run(a, b))
    BY <1>1
  <2> PICK part : part = SubSeq(Run(a, b), k + 1, n)
    OBVIOUS
  <2>2. /\ part \in Seq(Nat) /\ Len(part) = m
        /\ \A i \in 1 .. m : part[i] = Run(a, b)[k + i]
    <3>1. k \in Nat /\ m \in Nat /\ k + m = Len(Run(a, b)) /\ Run(a, b) \in Seq(Nat)
      BY <1>1, <1>2, <2>0
    <3> QED BY ONLY <3>1, <2>9, part = SubSeq(Run(a, b), k + 1, n), RestItems
  <2>3. \A i \in 1 .. m : part[i] = e + i
    <3>1. \A i \in 1 .. m : k + i \in 1 .. n /\ a + (k + i) = e + i
      BY <1>2, <2>0
    <3> QED BY <1>1, <2>2, <3>1
  <2> PICK run : run = Run(e, b)
    OBVIOUS
  <2>4. /\ run \in Seq(Nat) /\ part \in Seq(Nat) /\ Len(part) = Len(run)
        /\ \A i \in 1 .. Len(part) : part[i] = run[i]
    BY ONLY <2>1, <2>2, <2>3, run = Run(e, b)
  <2>5. part = run
    BY ONLY <2>4, SeqEqual
  <2> QED BY <2>5
<1> QED BY <1>1, <1>2, <1>3, <1>4

\* The numbers of a run up to N are among 1..N.
LEMMA RunUpTo ==
  ASSUME NEW N \in Nat, NEW a \in Nat, NEW b \in Nat, a <= b, b <= N
  PROVE  Run(a, b) \in Seq(1..N)
<1>1. /\ Run(a, b) \in Seq(Nat) /\ Len(Run(a, b)) = b - a
      /\ \A i \in 1 .. b - a : Run(a, b)[i] = a + i
  BY RunProperties
<1>2. \A i \in 1 .. b - a : a + i \in 1..N
  OBVIOUS
<1> PICK r : r = Run(a, b)
  OBVIOUS
<1> PICK n \in Nat : n = b - a
  OBVIOUS
<1>3. /\ r \in Seq(Nat) /\ Len(r) = n /\ DOMAIN r = 1 .. n
      /\ \A i \in 1 .. n : r[i] \in 1..N
  BY <1>1, <1>2, LenProperties
<1>4. r \in [1 .. n -> 1..N]
  BY ONLY <1>3
<1>5. r \in Seq(1..N)
  BY ONLY <1>4, n \in Nat, SeqDef
<1> QED BY <1>5

-----------------------------------------------------------------------------
(* The DNS client (async_dns_client_noblock.c).                               *)

Answered == {results[i][1] : i \in DOMAIN results}

\* The committing thread: what it has sent or registered is behind it.
Committing ==
  /\ pc \in {"sendto", "add"} => /\ next <= Queries /\ sockfd \in Descriptors
                                 /\ socket[sockfd] = next
  /\ \A fd \in Descriptors : socket[fd] # 0 /\ socket[fd] >= next =>
       socket[fd] = next /\ pc \in {"sendto", "add"} /\ fd = sockfd
  /\ \A q \in sent \union inbox : q < next \/ (q = next /\ pc = "add")
  /\ \A e \in epoll : e[2] < next
  /\ \A q \in Answered \union freed : q < next

\* A socket belongs to one query, a registration to the query of its socket.
OneSocket ==
  /\ \A fd, other \in Descriptors : socket[fd] = socket[other] /\ socket[fd] # 0 => fd = other
  /\ \A e \in epoll : socket[e[1]] = e[2]

\* The rest of the batch: its first event is being handled when proc is "close"; the
\* others are registered, and have their answers.
Rest == IF proc = "close" THEN 2..Len(events) ELSE 1..Len(events)

Pending ==
  /\ proc = "wait" <=> events = <<>>
  /\ \A i \in Rest : events[i] \in epoll /\ events[i][2] \in inbox
  /\ \A i, j \in DOMAIN events : i # j => events[i] # events[j]
  /\ proc = "close" => /\ socket[events[1][1]] = events[1][2]
                       /\ \A e \in epoll : e[1] # events[1][1]
                       /\ events[1][2] \notin freed

\* The callbacks that have run: their contexts are freed but for the last one.
Callbacks ==
  /\ \A i \in DOMAIN results : results[i][1] = results[i][2]
  /\ \A i, j \in DOMAIN results : i # j => results[i][1] # results[j][1]
  /\ Answered = freed \union (IF proc = "close" THEN {events[1][2]} ELSE {})
  /\ \A q \in freed : \A fd \in Descriptors : socket[fd] # q

DnsInv == Dns!TypeOK /\ Committing /\ OneSocket /\ Pending /\ Callbacks

LEMMA DnsInitInv == Dns!Init => DnsInv
<1> SUFFICES ASSUME Dns!Init PROVE DnsInv
  OBVIOUS
<1>1. /\ pc = "socket" /\ next = 1 /\ sockfd = 0 /\ socket = [fd \in Descriptors |-> 0]
      /\ sent = {} /\ inbox = {} /\ epoll = {} /\ proc = "wait" /\ events = <<>>
      /\ freed = {} /\ results = <<>>
  BY DEF Dns!Init, Dns!NONE
<1>2. Dns!TypeOK
  <2>1. events \in Seq(Descriptors \X (1..Queries)) /\ results \in Seq((1..Queries) \X (0..Queries))
    BY <1>1
  <2>2. 0 \in 0..Queries /\ 1 \in 1..(Queries + 1)
    BY DnsAssumption
  <2> QED BY <1>1, <2>1, <2>2 DEF Dns!TypeOK, Dns!NONE
<1>3. Answered = {}
  BY <1>1 DEF Answered
<1>4. Committing /\ OneSocket
  BY <1>1, <1>3 DEF Committing, OneSocket
<1>5. Pending /\ Callbacks
  BY <1>1, <1>3 DEF Pending, Callbacks, Rest
<1> QED BY <1>2, <1>4, <1>5 DEF DnsInv

\* What the types say of the parts.
LEMMA DnsTypes ==
  ASSUME Dns!TypeOK
  PROVE  /\ pc \in {"socket", "sendto", "add", "exited"} /\ next \in 1..(Queries + 1)
         /\ next \in Nat /\ socket \in [Descriptors -> 0..Queries]
         /\ \A fd \in Descriptors : socket[fd] \in 0..Queries /\ socket[fd] \in Nat
         /\ \A e \in epoll :
              e \in Descriptors \X (1..Queries) /\ e[1] \in Descriptors /\ e[2] \in 1..Queries
         /\ events \in Seq(Descriptors \X (1..Queries)) /\ Len(events) \in Nat
         /\ DOMAIN events = 1..Len(events)
         /\ \A i \in DOMAIN events : events[i][1] \in Descriptors /\ events[i][2] \in 1..Queries
         /\ results \in Seq((1..Queries) \X (0..Queries)) /\ Len(results) \in Nat
         /\ DOMAIN results = 1..Len(results)
         /\ sent \subseteq 1..Queries /\ inbox \subseteq 1..Queries /\ freed \subseteq 1..Queries
         /\ proc \in {"wait", "event", "close"}
<1>1. events \in Seq(Descriptors \X (1..Queries)) /\ results \in Seq((1..Queries) \X (0..Queries))
  BY DEF Dns!TypeOK
<1>2. /\ Len(events) \in Nat /\ DOMAIN events = 1..Len(events)
      /\ Len(results) \in Nat /\ DOMAIN results = 1..Len(results)
      /\ \A i \in DOMAIN events : events[i] \in Descriptors \X (1..Queries)
  BY <1>1, LenProperties
<1>3. Queries \in Nat
  BY DnsAssumption
<1>4. \A i \in DOMAIN events : events[i][1] \in Descriptors /\ events[i][2] \in 1..Queries
  BY <1>2
<1>5. socket \in [Descriptors -> 0..Queries] /\ next \in 1..(Queries + 1)
  BY DEF Dns!TypeOK
<1>6. \A fd \in Descriptors : socket[fd] \in 0..Queries /\ socket[fd] \in Nat
  BY <1>3, <1>5
<1>7. next \in Nat
  BY <1>3, <1>5
<1>8. epoll \subseteq Descriptors \X (1..Queries)
  BY DEF Dns!TypeOK
<1> QED BY <1>1, <1>2, <1>4, <1>5, <1>6, <1>7, <1>8 DEF Dns!TypeOK

LEMMA AnsweredQueries ==
  ASSUME Dns!TypeOK
  PROVE  Answered \subseteq 1..Queries
<1>1. \A i \in DOMAIN results : results[i] \in (1..Queries) \X (0..Queries)
  BY DnsTypes
<1>2. \A i \in DOMAIN results : results[i][1] \in 1..Queries
  BY <1>1
<1> QED BY <1>2 DEF Answered

\* The lowest free descriptor is one.
LEMMA LowestFree ==
  ASSUME NEW S \in SUBSET Nat, S # {}
  PROVE  (CHOOSE n \in S : \A m \in S : n <= m) \in S
BY NatLeast

LEMMA DnsSocket == DnsInv /\ Dns!Socket => DnsInv'
<1> SUFFICES ASSUME DnsInv, Dns!Socket PROVE DnsInv'
  OBVIOUS
<1> USE DEF DnsInv
<1>1. /\ pc = "socket" /\ next <= Queries /\ next' = next /\ sent' = sent /\ inbox' = inbox
      /\ epoll' = epoll /\ proc' = proc /\ events' = events /\ freed' = freed
      /\ results' = results
  BY DEF Dns!Socket, Dns!client
<1>2. Answered' = Answered /\ Rest' = Rest
  BY <1>1 DEF Answered, Rest
<1>3. CASE pc' = "exited" /\ UNCHANGED <<sockfd, socket>>
  BY <1>1, <1>2, <1>3 DEF Dns!TypeOK, Committing, OneSocket, Pending, Callbacks
<1>4. CASE /\ sockfd' \in Descriptors /\ socket[sockfd'] = 0
           /\ socket' = [socket EXCEPT ![sockfd'] = next] /\ pc' = "sendto"
  <2>1. /\ next \in 1..Queries /\ next \in Nat /\ next # 0
        /\ \A fd \in Descriptors : socket'[fd] = IF fd = sockfd' THEN next ELSE socket[fd]
        /\ \A fd \in Descriptors : socket[fd] < next
    BY <1>1, <1>4, DnsTypes, DnsAssumption DEF Committing
  <2>2. Dns!TypeOK'
    <3>1. socket' \in [Descriptors -> 0..Queries]
      BY <1>4, <2>1, DnsTypes
    <3> QED BY <1>1, <1>4, <3>1 DEF Dns!TypeOK
  <2>3. \A e \in epoll : e[1] # sockfd' /\ socket'[e[1]] = e[2]
    BY <1>4, <2>1, DnsTypes DEF OneSocket
  <2>4. OneSocket'
    BY <1>1, <1>4, <2>1, <2>3 DEF OneSocket
  <2>5. Committing'
    BY <1>1, <1>2, <1>4, <2>1 DEF Committing
  <2>6. Pending'
    <3>1. ASSUME proc = "close" PROVE socket'[events[1][1]] = socket[events[1][1]]
      <4>1. events # <<>> /\ socket[events[1][1]] = events[1][2]
        BY <3>1 DEF Pending
      <4>2. 1 \in DOMAIN events
        BY <4>1, DnsTypes
      <4> QED BY <1>4, <2>1, <4>1, <4>2, DnsTypes
    <3> QED BY <1>1, <1>2, <3>1 DEF Pending
  <2>7. Callbacks'
    BY <1>1, <1>2, <2>1 DEF Callbacks, Committing
  <2> QED BY <2>2, <2>4, <2>5, <2>6, <2>7
<1>5. \/ pc' = "exited" /\ UNCHANGED <<sockfd, socket>>
      \/ /\ sockfd' \in Descriptors /\ socket[sockfd'] = 0
         /\ socket' = [socket EXCEPT ![sockfd'] = next] /\ pc' = "sendto"
  <2> DEFINE Free == {fd \in Descriptors : socket[fd] = 0}
  <2>1. CASE Free = {}
    BY <2>1 DEF Dns!Socket, Dns!NONE
  <2>2. CASE Free # {}
    <3>1. sockfd' = CHOOSE fd \in Free : \A other \in Free : fd <= other
      BY <2>2 DEF Dns!Socket, Dns!NONE
    <3>2. Free \in SUBSET Nat
      BY DnsAssumption
    <3>3. sockfd' \in Free
      BY ONLY <2>2, <3>1, <3>2, LowestFree
    <3> QED BY <2>2, <3>3 DEF Dns!Socket, Dns!NONE
  <2> QED BY <2>1, <2>2
<1> QED BY <1>3, <1>4, <1>5

LEMMA DnsCommit == DnsInv /\ (Dns!Sendto \/ Dns!Add) => DnsInv'
<1> SUFFICES ASSUME DnsInv, Dns!Sendto \/ Dns!Add PROVE DnsInv'
  OBVIOUS
<1> USE DEF DnsInv
<1>0. /\ sockfd' = sockfd /\ socket' = socket /\ inbox' = inbox
      /\ proc' = proc /\ events' = events /\ freed' = freed /\ results' = results
      /\ pc \in {"sendto", "add"} /\ next <= Queries /\ sockfd \in Descriptors
      /\ socket[sockfd] = next
  BY DEF Dns!Sendto, Dns!Add, Dns!client, Committing
<1>1. Answered' = Answered /\ Rest' = Rest
  BY <1>0 DEF Answered, Rest
<1>2. CASE Dns!Sendto
  <2>1. pc = "sendto" /\ pc' = "add" /\ sent' = sent \union {next} /\ next' = next /\ epoll' = epoll
    BY <1>2 DEF Dns!Sendto
  <2>2. next \in 1..Queries
    BY <1>0, DnsTypes, DnsAssumption
  <2> QED BY <1>0, <1>1, <2>1, <2>2 DEF Dns!TypeOK, Committing, OneSocket, Pending,
                 Callbacks
<1>3. CASE Dns!Add
  <2>1. /\ pc = "add" /\ pc' = "socket" /\ epoll' = epoll \union {<<sockfd, next>>}
        /\ next' = next + 1 /\ sent' = sent
    BY <1>3 DEF Dns!Add
  <2>2. next \in 1..Queries /\ next \in Nat /\ next' \in 1..(Queries + 1)
    BY <1>0, <2>1, DnsTypes, DnsAssumption
  <2>3. Dns!TypeOK'
    BY <1>0, <2>1, <2>2 DEF Dns!TypeOK
  <2>4. Committing'
    <3>1. \A q \in sent \union inbox : q < next + 1
      BY <2>2, DnsTypes, DnsAssumption DEF Committing
    <3>2. \A e \in epoll' : e[2] < next + 1
      BY <2>1, <2>2, DnsTypes, DnsAssumption DEF Committing
    <3>3. \A q \in Answered \union freed : q < next + 1
      <4>1. \A q \in Answered \union freed : q \in Nat /\ q < next
        BY AnsweredQueries, DnsTypes, DnsAssumption DEF Committing
      <4> QED BY <2>2, <4>1
    <3>4. \A fd \in Descriptors : ~(socket[fd] # 0 /\ socket[fd] >= next + 1)
      BY <2>2, DnsTypes, DnsAssumption DEF Committing
    <3> QED BY <1>0, <1>1, <2>1, <3>1, <3>2, <3>3, <3>4 DEF Committing
  <2>5. OneSocket'
    BY <1>0, <2>1 DEF OneSocket
  <2>6. Pending'
    <3>1. ASSUME proc = "close" PROVE events[1][1] # sockfd
      <4>1. events # <<>> /\ socket[events[1][1]] = events[1][2] /\ events[1][2] \in Answered
        BY <3>1 DEF Pending, Callbacks
      <4>2. 1 \in DOMAIN events /\ events[1][2] \in Nat
        BY <4>1, DnsTypes, DnsAssumption
      <4>3. events[1][2] < next
        BY <4>1 DEF Committing
      <4> QED BY <1>0, <4>1, <4>2, <4>3, <2>2
    <3> QED BY <1>0, <1>1, <2>1, <3>1 DEF Pending
  <2>7. Callbacks'
    BY <1>0, <1>1 DEF Callbacks
  <2> QED BY <2>3, <2>4, <2>5, <2>6, <2>7
<1> QED BY <1>2, <1>3

LEMMA DnsWait == DnsInv /\ Dns!Wait => DnsInv'
<1> SUFFICES ASSUME DnsInv, Dns!Wait PROVE DnsInv'
  OBVIOUS
<1> USE DEF DnsInv
<1>1. /\ proc = "wait" /\ proc' = "event" /\ pc' = pc /\ next' = next /\ sockfd' = sockfd
      /\ socket' = socket /\ sent' = sent /\ inbox' = inbox /\ epoll' = epoll
      /\ freed' = freed /\ results' = results
      /\ events' \in Dns!SetToAllKPermutations(Dns!Ready) /\ Len(events') > 0
  BY DEF Dns!Wait, Dns!commit
<1>2. PICK s \in SUBSET Dns!Ready : events' \in Dns!SetToSeqs(s)
  BY <1>1 DEF Dns!SetToAllKPermutations
<1>3. IsFiniteSet(s)
  <2>1. IsFiniteSet(1..Queries)
    BY DnsAssumption, FS_Interval
  <2>2. IsFiniteSet(Descriptors \X (1..Queries))
    BY <2>1, DnsAssumption, FS_Product
  <2>3. s \subseteq Descriptors \X (1..Queries)
    BY <1>2 DEF Dns!Ready, Dns!TypeOK
  <2> QED BY <2>2, <2>3, FS_Subset
<1>4. PICK n \in Nat : n = Dns!Cardinality(s)
  BY <1>3, FS_CardinalityType DEF Dns!Cardinality, Cardinality
<1>5. events' \in [1..n -> s] /\ \A i, j \in 1..n : i # j => events'[i] # events'[j]
  BY <1>2, <1>4 DEF Dns!SetToSeqs
<1>6. events' \in Seq(s) /\ Len(events') = n /\ DOMAIN events' = 1..n /\ events' # <<>>
  BY ONLY <1>1, <1>5, n \in Nat
<1>7. \A e \in s : e \in epoll /\ e \in Descriptors \X (1..Queries) /\ e[2] \in inbox
  BY <1>2 DEF Dns!Ready, Dns!TypeOK, OneSocket
<1>8. Dns!TypeOK'
  <2>1. events' \in Seq(Descriptors \X (1..Queries))
    BY ONLY <1>5, <1>7, n \in Nat
  <2> QED BY <1>1, <2>1 DEF Dns!TypeOK
<1>9. Answered' = Answered
  BY <1>1 DEF Answered
<1>10. Committing' /\ OneSocket'
  BY <1>1, <1>9 DEF Committing, OneSocket
<1>11. Callbacks'
  BY <1>1, <1>9 DEF Callbacks
<1>12. Pending'
  <2>1. Rest' = 1..n
    BY <1>1, <1>6 DEF Rest
  <2> QED BY <1>1, <1>5, <1>6, <1>7, <2>1 DEF Pending
<1> QED BY <1>8, <1>10, <1>11, <1>12

LEMMA DnsEvent == DnsInv /\ Dns!Event => DnsInv'
<1> SUFFICES ASSUME DnsInv, Dns!Event PROVE DnsInv'
  OBVIOUS
<1> USE DEF DnsInv
<1>1. /\ proc = "event" /\ proc' = "close" /\ pc' = pc /\ next' = next /\ sockfd' = sockfd
      /\ socket' = socket /\ sent' = sent /\ events' = events /\ freed' = freed
  BY DEF Dns!Event, Dns!commit
<1>2. /\ events # <<>> /\ 1 \in DOMAIN events /\ Head(events) = events[1]
      /\ DOMAIN events = 1..Len(events) /\ Len(events) \in Nat
  <2>1. events # <<>>
    BY <1>1 DEF Pending
  <2> QED BY <2>1, DnsTypes
<1> PICK fd, q : fd = events[1][1] /\ q = events[1][2]
  OBVIOUS
<1>3. /\ fd \in Descriptors /\ q \in 1..Queries /\ q \in Nat /\ q # 0 /\ events[1] = <<fd, q>>
  <2>1. events[1] \in Descriptors \X (1..Queries)
    BY <1>2, DnsTypes
  <2> QED BY <2>1, DnsAssumption
<1>4. events[1] \in epoll /\ q \in inbox /\ socket[fd] = q
  BY <1>1, <1>2, <1>3 DEF Pending, Rest, OneSocket
<1>5. /\ results' = Append(results, <<q, q>>) /\ inbox' = inbox \ {q}
      /\ epoll' = {e \in epoll : e[1] # fd}
  BY <1>2, <1>3, <1>4 DEF Dns!Event
<1>6. q < next /\ q \notin Answered
  BY <1>1, <1>3, <1>4 DEF Committing, Callbacks
<1>7. /\ results' \in Seq((1..Queries) \X (0..Queries)) /\ Len(results') = Len(results) + 1
      /\ DOMAIN results = 1..Len(results) /\ DOMAIN results' = 1..(Len(results) + 1)
      /\ Len(results) \in Nat /\ results'[Len(results) + 1] = <<q, q>>
      /\ \A i \in 1..Len(results) : results'[i] = results[i]
  <2>1. results \in Seq((1..Queries) \X (0..Queries)) /\ <<q, q>> \in (1..Queries) \X (0..Queries)
    BY <1>3, DnsTypes
  <2> QED BY ONLY <2>1, <1>5, AppendProperties, LenProperties
<1>8. Dns!TypeOK'
  BY <1>1, <1>5, <1>7 DEF Dns!TypeOK
<1>9. Answered' = Answered \union {q}
  <2>1. Answered = {results[i][1] : i \in 1..Len(results)}
    BY <1>7 DEF Answered
  <2>2. Answered' = {results'[i][1] : i \in 1..(Len(results) + 1)}
    BY <1>7 DEF Answered
  <2>3. \A i \in 1..(Len(results) + 1) : i \in 1..Len(results) \/ i = Len(results) + 1
    BY <1>7
  <2>4. /\ 1..Len(results) \subseteq 1..(Len(results) + 1)
        /\ Len(results) + 1 \in 1..(Len(results) + 1)
    BY <1>7
  <2>5. results'[Len(results) + 1][1] = q
    BY <1>7
  <2>6. \A i \in 1..Len(results) : results'[i][1] = results[i][1]
    BY <1>7
  <2>7. ASSUME NEW x \in Answered' PROVE x \in Answered \union {q}
    <3>1. PICK i \in 1..(Len(results) + 1) : x = results'[i][1]
      BY <2>2
    <3> QED BY <2>1, <2>3, <2>5, <2>6, <3>1
  <2>8. ASSUME NEW x \in Answered \union {q} PROVE x \in Answered'
    BY <2>1, <2>2, <2>4, <2>5, <2>6
  <2> QED BY <2>7, <2>8
<1>10. Committing'
  BY <1>1, <1>5, <1>6, <1>9 DEF Committing
<1>11. OneSocket'
  BY <1>1, <1>5 DEF OneSocket
<1>12. Callbacks'
  <2>1. \A i \in DOMAIN results' : results'[i][1] = results'[i][2]
    <3>1. \A i \in 1..Len(results) : results'[i][1] = results'[i][2]
      BY <1>7 DEF Callbacks
    <3>2. results'[Len(results) + 1][1] = results'[Len(results) + 1][2]
      BY <1>7
    <3>3. \A i \in DOMAIN results' : i \in 1..Len(results) \/ i = Len(results) + 1
      BY <1>7
    <3> QED BY ONLY <3>1, <3>2, <3>3
  <2>2. \A i \in 1..Len(results) : results'[i][1] \in Answered /\ results'[i][1] # q
    BY <1>6, <1>7 DEF Answered
  <2>3. \A i, j \in DOMAIN results' : i # j => results'[i][1] # results'[j][1]
    <3>1. \A i, j \in 1..Len(results) : i # j => results'[i][1] # results'[j][1]
      BY <1>7 DEF Callbacks
    <3>2. results'[Len(results) + 1][1] = q
      BY <1>7
    <3>3. \A i \in DOMAIN results' : i \in 1..Len(results) \/ i = Len(results) + 1
      BY <1>7
    <3> QED BY ONLY <2>2, <3>1, <3>2, <3>3
  <2>4. Answered' = freed' \union (IF proc' = "close" THEN {events'[1][2]} ELSE {})
    BY <1>1, <1>3, <1>9 DEF Callbacks
  <2>5. \A p \in freed' : \A any \in Descriptors : socket'[any] # p
    BY <1>1 DEF Callbacks
  <2> QED BY <2>1, <2>3, <2>4, <2>5 DEF Callbacks
<1>13. Pending'
  <2>1. Rest = 1..Len(events) /\ Rest' = 2..Len(events)
    BY <1>1 DEF Rest
  <2>2. ASSUME NEW i \in 2..Len(events) PROVE events[i] \in epoll' /\ events[i][2] \in inbox'
    <3>1. i \in 1..Len(events) /\ i # 1
      BY <1>2
    <3>2. /\ events[i] \in epoll /\ events[i][2] \in inbox /\ events[i] # events[1]
          /\ events[i] \in Descriptors \X (1..Queries)
      BY <1>2, <2>1, <3>1, DnsTypes DEF Pending
    <3>3. /\ socket[events[i][1]] = events[i][2] /\ events[i] = <<events[i][1], events[i][2]>>
          /\ events[i][1] \in Descriptors
      BY <3>2 DEF OneSocket
    <3>4. events[i][1] # fd
      BY <1>3, <1>4, <3>2, <3>3
    <3>5. events[i][2] # q
      BY <1>3, <1>4, <3>3, <3>4 DEF OneSocket
    <3> QED BY <1>5, <3>2, <3>4, <3>5
  <2>3. q \notin freed
    BY <1>3, <1>4 DEF Callbacks
  <2>4. \A i, j \in DOMAIN events : i # j => events[i] # events[j]
    BY DEF Pending
  <2> QED BY <1>1, <1>2, <1>3, <1>4, <1>5, <2>1, <2>2, <2>3, <2>4 DEF Pending
<1> QED BY <1>8, <1>10, <1>11, <1>12, <1>13

LEMMA DnsClose == DnsInv /\ Dns!Close => DnsInv'
<1> SUFFICES ASSUME DnsInv, Dns!Close PROVE DnsInv'
  OBVIOUS
<1> USE DEF DnsInv
<1>1. /\ proc = "close" /\ pc' = pc /\ next' = next /\ sockfd' = sockfd /\ sent' = sent
      /\ inbox' = inbox /\ epoll' = epoll /\ results' = results /\ events' = Tail(events)
      /\ proc' = IF events' = <<>> THEN "wait" ELSE "event"
  BY DEF Dns!Close, Dns!commit
<1>2. /\ events # <<>> /\ 1 \in DOMAIN events /\ Head(events) = events[1]
      /\ DOMAIN events = 1..Len(events) /\ Len(events) \in Nat /\ Len(events) >= 1
  <2>1. events # <<>>
    BY <1>1 DEF Pending
  <2> QED BY <2>1, DnsTypes
<1> PICK fd, q : fd = events[1][1] /\ q = events[1][2]
  OBVIOUS
<1>3. /\ fd \in Descriptors /\ q \in 1..Queries /\ q \in Nat /\ q # 0 /\ events[1] = <<fd, q>>
      /\ socket[fd] = q /\ q \notin freed /\ q < next
      /\ Answered = freed \union {q} /\ \A e \in epoll : e[1] # fd
  <2>1. events[1] \in Descriptors \X (1..Queries)
    BY <1>2, DnsTypes
  <2>2. Answered = freed \union {q} /\ q \in Answered
    BY <1>1 DEF Callbacks
  <2> QED BY <1>1, <2>1, <2>2, DnsAssumption DEF Pending, Committing
<1>4. /\ socket' = [socket EXCEPT ![fd] = 0] /\ freed' = freed \union {q}
      /\ \A any \in Descriptors : socket'[any] = IF any = fd THEN 0 ELSE socket[any]
  BY <1>2, DnsTypes DEF Dns!Close, Dns!NONE
<1> PICK n \in Nat : n = Len(events)
  BY <1>2
<1>5. /\ events' \in Seq(Descriptors \X (1..Queries)) /\ Len(events') = n - 1 /\ n >= 1
      /\ DOMAIN events' = 1..(n - 1) /\ \A i \in 1..(n - 1) : events'[i] = events[i + 1]
  BY <1>1, <1>2, DnsTypes, HeadTailProperties, LenProperties
<1>6. Dns!TypeOK'
  <2>1. socket' \in [Descriptors -> 0..Queries]
    <3>1. 0 \in 0..Queries
      BY DnsAssumption
    <3> QED BY <1>4, <3>1, DnsTypes
  <2>2. freed' \subseteq 1..Queries
    BY <1>3, <1>4, DnsTypes
  <2>3. proc' \in {"wait", "event", "close"}
    BY <1>1
  <2> QED BY <1>1, <1>5, <2>1, <2>2, <2>3 DEF Dns!TypeOK
<1>7. Answered' = Answered
  BY <1>1 DEF Answered
<1>8. Committing'
  BY <1>1, <1>3, <1>4, <1>7, DnsTypes DEF Committing
<1>9. \A e \in epoll : e[1] \in Descriptors /\ socket'[e[1]] = socket[e[1]]
  BY <1>3, <1>4, DnsTypes
<1>10. OneSocket'
  BY <1>1, <1>4, <1>9 DEF OneSocket
<1>11. Callbacks'
  <2>1. \A any \in Descriptors : socket'[any] # q
    BY <1>3, <1>4 DEF OneSocket
  <2>2. \A p \in freed : \A any \in Descriptors : socket'[any] # p
    BY <1>4, DnsTypes DEF Callbacks
  <2>3. Answered' = freed' \union (IF proc' = "close" THEN {events'[1][2]} ELSE {})
    BY <1>1, <1>3, <1>4, <1>7
  <2> QED BY <1>1, <1>4, <2>1, <2>2, <2>3 DEF Callbacks
<1>12. Pending'
  <2>1. Rest = 2..n /\ Rest' = 1..(n - 1)
    BY <1>1, <1>5 DEF Rest
  <2>2. ASSUME NEW i \in 1..(n - 1) PROVE events'[i] \in epoll /\ events'[i][2] \in inbox
    <3>1. i + 1 \in 2..n
      OBVIOUS
    <3> QED BY <1>5, <2>1, <3>1 DEF Pending
  <2>3. ASSUME NEW i \in 1..(n - 1), NEW j \in 1..(n - 1), i # j PROVE events'[i] # events'[j]
    <3>1. i + 1 \in 1..n /\ j + 1 \in 1..n /\ i + 1 # j + 1
      BY <2>3
    <3>2. \A k, l \in 1..n : k # l => events[k] # events[l]
      BY <1>2 DEF Pending
    <3>3. events[i + 1] # events[j + 1]
      BY ONLY <3>1, <3>2
    <3> QED BY <1>5, <3>3
  <2>4. proc' = "wait" <=> events' = <<>>
    BY <1>1
  <2>5. proc' # "close"
    BY <1>1
  <2> QED BY <1>1, <1>5, <2>1, <2>2, <2>3, <2>4, <2>5 DEF Pending
<1> QED BY <1>6, <1>8, <1>10, <1>11, <1>12

LEMMA DnsServer ==
  ASSUME DnsInv, NEW q \in 1..Queries, Dns!Answer(q) \/ Dns!Lose(q)
  PROVE  DnsInv'
<1> USE DEF DnsInv
<1>1. /\ pc' = pc /\ next' = next /\ sockfd' = sockfd /\ socket' = socket /\ epoll' = epoll
      /\ proc' = proc /\ events' = events /\ freed' = freed /\ results' = results
      /\ q \in sent /\ sent' = sent \ {q} /\ (inbox' = inbox \/ inbox' = inbox \union {q})
  BY DEF Dns!Answer, Dns!Lose, Dns!commit, Dns!client
<1>2. Answered' = Answered /\ Rest' = Rest
  BY <1>1 DEF Answered, Rest
<1> QED BY <1>1, <1>2 DEF Dns!TypeOK, Committing, OneSocket, Pending, Callbacks

LEMMA DnsStep == DnsInv /\ Dns!Next => DnsInv'
BY DnsSocket, DnsCommit, DnsWait, DnsEvent, DnsClose, DnsServer
   DEF Dns!Next, Dns!Committer, Dns!Proc

LEMMA DnsFrame == DnsInv /\ UNCHANGED dnsVars => DnsInv'
<1> SUFFICES ASSUME DnsInv, UNCHANGED dnsVars PROVE DnsInv'
  OBVIOUS
<1>1. /\ pc' = pc /\ next' = next /\ sockfd' = sockfd /\ socket' = socket /\ epoll' = epoll
      /\ proc' = proc /\ events' = events /\ freed' = freed /\ results' = results
      /\ sent' = sent /\ inbox' = inbox
  BY DEF dnsVars
<1>2. Answered' = Answered /\ Rest' = Rest
  BY <1>1 DEF Answered, Rest
<1> QED BY <1>1, <1>2 DEF DnsInv, Dns!TypeOK, Committing, OneSocket, Pending, Callbacks

\* The invariant is stronger than the property.
LEMMA DnsSafe == DnsInv => Dns!QueriesAccounted
<1> SUFFICES ASSUME DnsInv PROVE Dns!QueriesAccounted
  OBVIOUS
<1> USE DEF DnsInv
<1>1. \A i \in DOMAIN results : results[i][1] = results[i][2]
  BY DEF Callbacks
<1>2. \A i, j \in DOMAIN results : i # j => results[i] # results[j]
  BY DEF Callbacks
<1>3. \A q \in freed : \E i \in DOMAIN results : results[i][1] = q
  BY DEF Callbacks, Answered
<1>4. ASSUME NEW e \in epoll PROVE socket[e[1]] = e[2] /\ e[2] \notin freed
  BY DnsTypes DEF OneSocket, Callbacks
<1>5. {q \in 1..Queries : \E fd \in Descriptors : socket[fd] = q} \intersect freed = {}
  BY DEF Callbacks
<1> QED BY <1>1, <1>2, <1>3, <1>4, <1>5 DEF Dns!QueriesAccounted

-----------------------------------------------------------------------------
(* The asynchronous Redis client (hiredis/async.c) and its commands.            *)

\* Of the commands 1..Num, in this order, the first a have had their callbacks; the
\* replies to those up to b are there, those up to d are on their way to the server, as
\* long as it has the connection, and the rest is not yet written.
Traffic(a, b, d) ==
  /\ a \in Nat /\ b \in Nat /\ d \in Nat /\ a <= b /\ b <= d /\ d <= Num
  /\ Len(called) = a
  /\ replies = Run(a, Num) /\ unread = Run(a, b) /\ obuf = Run(d, Num)
  /\ sock \in {"connecting", "open"} => wire = Run(b, d)

\* The callbacks have had their own commands, and their own replies or NULL, with which
\* it stays.
EachInOrder(s) ==
  /\ \A i \in DOMAIN s : s[i][1] = i /\ s[i][2] \in {i, 0}
  /\ \A i, j \in DOMAIN s : i < j /\ s[i][2] = 0 => s[j][2] = 0

OwnReplies(s) == \A i \in DOMAIN s : s[i][1] = i /\ s[i][2] = i

\* The callbacks so far: with their own replies as long as the context is there, and all
\* of them when it is freed.
CalledInOrder ==
  /\ EachInOrder(called)
  /\ ~contextFreed => OwnReplies(called)
  /\ contextFreed => Len(called) = Num /\ replies = <<>>

AsyncInv == /\ Async!TypeOK /\ CalledInOrder
            /\ ~contextFreed => \E a, b, d \in Nat : Traffic(a, b, d)

\* A run up to Num is a sequence of commands.
LEMMA RunCommands ==
  ASSUME NEW a \in Nat, NEW b \in Nat, a <= b, b <= Num
  PROVE  /\ Run(a, b) \in Seq(Async!Commands) /\ Len(Run(a, b)) = b - a
         /\ \A i \in 1 .. b - a : Run(a, b)[i] = a + i /\ a + i \in Async!Commands
<1>1. Len(Run(a, b)) = b - a /\ \A i \in 1 .. b - a : Run(a, b)[i] = a + i
  BY RunProperties
<1>2. \A i \in 1 .. b - a : a + i \in 1..Num
  BY AsyncAssumption
<1>3. Run(a, b) \in Seq(1..Num)
  BY AsyncAssumption, RunUpTo
<1> QED BY <1>1, <1>2, <1>3 DEF Async!Commands

\* More callbacks: with their own replies, or all with NULL.
LEMMA MoreCalled ==
  ASSUME NEW P, NEW s \in Seq(P), NEW t \in Seq(P), OwnReplies(s),
         \A i \in 1 .. Len(t) : t[i][1] = Len(s) + i
  PROVE  /\ s \o t \in Seq(P) /\ Len(s \o t) = Len(s) + Len(t)
         /\ (\A i \in 1 .. Len(t) : t[i][2] = Len(s) + i) => OwnReplies(s \o t)
         /\ (\A i \in 1 .. Len(t) : t[i][2] = 0) => EachInOrder(s \o t)
<1> PICK u : u = s \o t
  OBVIOUS
<1> PICK m \in Nat, n \in Nat : m = Len(s) /\ n = Len(t)
  BY LenProperties
<1>1. /\ u \in Seq(P) /\ Len(u) = m + n /\ DOMAIN u = 1 .. m + n
      /\ \A i \in 1 .. m + n : u[i] = IF i <= m THEN s[i] ELSE t[i - m]
  BY ConcatProperties, LenProperties
<1>2. \A i \in 1 .. m : u[i][1] = i /\ u[i][2] = i
  BY <1>1, LenProperties DEF OwnReplies
<1>3. ASSUME NEW i \in m + 1 .. m + n
      PROVE  u[i] = t[i - m] /\ i - m \in 1 .. n /\ u[i][1] = i /\ m + (i - m) = i
  <2>1. i - m \in 1 .. n /\ m + (i - m) = i /\ ~(i <= m) /\ i \in 1 .. m + n
    OBVIOUS
  <2> QED BY <1>1, <2>1
<1>4. \A i \in 1 .. m + n : i \in 1 .. m \/ i \in m + 1 .. m + n
  OBVIOUS
<1>5. ASSUME \A i \in 1 .. n : t[i][2] = m + i PROVE OwnReplies(u)
  <2>1. \A i \in m + 1 .. m + n : u[i][2] = i
    BY <1>3, <1>5
  <2>2. \A i \in 1 .. m + n : u[i][1] = i /\ u[i][2] = i
    BY ONLY <1>2, <1>3, <1>4, <2>1
  <2> QED BY ONLY <1>1, <2>2 DEF OwnReplies
<1>6. ASSUME \A i \in 1 .. n : t[i][2] = 0 PROVE EachInOrder(u)
  <2>1. \A i \in m + 1 .. m + n : u[i][2] = 0
    BY <1>3, <1>6
  <2>2. \A i \in 1 .. m + n : u[i][1] = i /\ u[i][2] \in {i, 0}
    BY ONLY <1>2, <1>3, <1>4, <2>1
  <2>3. ASSUME NEW i \in 1 .. m + n, NEW j \in 1 .. m + n, i < j, u[i][2] = 0
        PROVE  u[j][2] = 0
    <3>1. i \notin 1 .. m
      BY <1>2, <2>3
    <3>2. j \in m + 1 .. m + n
      BY <1>4, <2>3, <3>1
    <3> QED BY <2>1, <3>2
  <2> QED BY ONLY <1>1, <2>2, <2>3 DEF EachInOrder
<1> QED BY <1>1, <1>5, <1>6

LEMMA AsyncInitInv == Async!Init => AsyncInv
<1> SUFFICES ASSUME Async!Init PROVE AsyncInv
  OBVIOUS
<1>1. /\ sock = "connecting" /\ wire = <<>> /\ unread = <<>>
      /\ obuf = [i \in 1..Num |-> i] /\ replies = [i \in 1..Num |-> i]
      /\ connected = FALSE /\ disconnecting = FALSE /\ contextFreed = FALSE
      /\ mask = {"out"} /\ interest = {"out"} /\ read_fn = FALSE /\ write_fn = TRUE
      /\ batch = {} /\ stop = FALSE /\ called = <<>> /\ crashed = FALSE
  BY DEF Async!Init, Async!Commands
<1>2. Run(0, Num) = [i \in 1..Num |-> i] /\ Run(0, 0) = <<>>
  <2>1. Num - 0 = Num /\ \A i \in 1..Num : 0 + i = i
    BY AsyncAssumption
  <2> QED BY <2>1, RunEmpty DEF Run
<1>3. Traffic(0, 0, 0)
  BY <1>1, <1>2, AsyncAssumption DEF Traffic
<1>4. CalledInOrder
  BY <1>1 DEF CalledInOrder, EachInOrder, OwnReplies
<1>5. Async!TypeOK
  <2>1. /\ Run(0, Num) \in Seq(Async!Commands) /\ <<>> \in Seq(Async!Commands)
        /\ <<>> \in Seq(Async!Commands \X (Async!Commands \union {0}))
    BY RunCommands, AsyncAssumption
  <2> QED BY <1>1, <1>2, <2>1 DEF Async!TypeOK, Async!NoReply
<1> QED BY <1>1, <1>3, <1>4, <1>5 DEF AsyncInv

\* The types, one by one.
AsyncQueues ==
  /\ wire \in Seq(Async!Commands) /\ unread \in Seq(Async!Commands)
  /\ obuf \in Seq(Async!Commands) /\ replies \in Seq(Async!Commands)
  /\ called \in Seq(Async!Commands \X (Async!Commands \union {0}))

AsyncFlags ==
  /\ sock \in {"connecting", "refused", "open", "closed", "reset"}
  /\ mask \subseteq {"in", "out"} /\ batch \subseteq {"in", "out"}
  /\ interest = {"absent"} \/ interest \subseteq {"in", "out"}
  /\ connected \in BOOLEAN /\ disconnecting \in BOOLEAN /\ contextFreed \in BOOLEAN
  /\ stop \in BOOLEAN /\ read_fn \in BOOLEAN /\ write_fn \in BOOLEAN /\ crashed \in BOOLEAN

LEMMA AsyncTypes == Async!TypeOK <=> AsyncQueues /\ AsyncFlags
BY DEF Async!TypeOK, AsyncQueues, AsyncFlags, Async!ABSENT, Async!NoReply

LEMMA AsyncTypesNext == (Async!TypeOK)' <=> (AsyncQueues /\ AsyncFlags)'
BY AsyncTypes, PTL

\* The disconnection: the callbacks that are pending run with NULL.
LEMMA AsyncFails == AsyncInv /\ (Async!HandleReadError \/ Async!HandleWriteError) => AsyncInv'
<1> SUFFICES ASSUME AsyncInv, Async!HandleReadError \/ Async!HandleWriteError PROVE AsyncInv'
  OBVIOUS
<1>1. /\ ~contextFreed /\ contextFreed' = TRUE /\ replies' = <<>>
      /\ called' = called \o [i \in 1..Len(replies) |-> <<replies[i], 0>>]
      /\ disconnecting' = TRUE /\ stop' = TRUE /\ obuf' = obuf /\ connected' = connected
      /\ interest' = {"absent"} /\ mask' = {} /\ read_fn' = FALSE /\ write_fn' = FALSE
      /\ sock' = sock /\ wire' = wire /\ unread' = unread /\ crashed' = crashed
      /\ (batch' = batch \ {"in"} \/ batch' = {})
  BY DEF Async!HandleReadError, Async!HandleWriteError, Async!DisconnectOnError,
         Async!AsyncFree, Async!redisCleanup, Async!peer, Async!NoReply, Async!ABSENT
<1>2. PICK a \in Nat, b \in Nat, d \in Nat : Traffic(a, b, d)
  BY <1>1 DEF AsyncInv
<1>3. AsyncQueues /\ AsyncFlags
  BY AsyncTypes DEF AsyncInv
<1> DEFINE P == Async!Commands \X (Async!Commands \union {0})
<1> PICK t : t = [i \in 1..Len(replies) |-> <<replies[i], 0>>]
  OBVIOUS
<1>4. a <= Num /\ Len(called) = a /\ replies = Run(a, Num)
  BY <1>2, AsyncAssumption DEF Traffic
<1>5. PICK k \in Nat : k = Num - a
  BY <1>4, AsyncAssumption
<1>6. /\ Len(replies) = k /\ \A i \in 1 .. k : replies[i] = a + i /\ a + i \in Async!Commands
  <2>1. Num \in Nat /\ Num <= Num
    BY AsyncAssumption
  <2> QED BY ONLY <1>4, <1>5, <2>1, a \in Nat, RunCommands
<1>7. /\ t \in Seq(P) /\ Len(t) = k
      /\ \A i \in 1 .. k : t[i][1] = a + i /\ t[i][2] = 0
  <2>1. t = [i \in 1 .. k |-> <<replies[i], 0>>]
    BY <1>6
  <2>2. \A i \in 1 .. k : t[i] = <<a + i, 0>> /\ t[i] \in P
    BY <1>6, <2>1
  <2> QED BY ONLY <2>1, <2>2, k \in Nat, SeqDef, LenProperties
<1>8. called \in Seq(P)
  BY <1>3 DEF AsyncQueues
<1>9. OwnReplies(called)
  BY <1>1 DEF AsyncInv, CalledInOrder
<1> HIDE DEF P
<1>10. called \o t \in Seq(P) /\ Len(called \o t) = a + k /\ EachInOrder(called \o t)
  <2>1. \A i \in 1 .. Len(t) : t[i][1] = Len(called) + i /\ t[i][2] = 0
    BY <1>4, <1>7
  <2>2. t \in Seq(P)
    BY <1>7
  <2>3. /\ called \o t \in Seq(P) /\ Len(called \o t) = Len(called) + Len(t)
        /\ EachInOrder(called \o t)
    BY ONLY <1>8, <1>9, <2>1, <2>2, MoreCalled
  <2> QED BY ONLY <1>4, <1>7, <2>3
<1>11. a + k = Num
  BY <1>4, <1>5, AsyncAssumption
<1>12. CalledInOrder'
  BY <1>1, <1>10, <1>11 DEF CalledInOrder
<1>13. AsyncQueues'
  <2>1. replies' \in Seq(Async!Commands)
    BY <1>1
  <2>2. called' \in Seq(P)
    BY <1>1, <1>10
  <2> QED BY <1>1, <1>3, <2>1, <2>2 DEF AsyncQueues, P
<1>14. AsyncFlags'
  BY <1>1, <1>3 DEF AsyncFlags
<1> QED BY <1>1, <1>12, <1>13, <1>14, AsyncTypes, AsyncTypesNext DEF AsyncInv

\* The interest of epoll stays a set of events, or none.
LEMMA WatchedType ==
  ASSUME NEW old, NEW new \in SUBSET {"in", "out"}, NEW flag \in {"in", "out"}, NEW watch,
         watch = {"absent"} \/ watch \subseteq {"in", "out"}
  PROVE  \/ Async!Watched(old, new, flag, watch) = {"absent"}
         \/ Async!Watched(old, new, flag, watch) \subseteq {"in", "out"}
BY DEF Async!Watched, Async!ABSENT

\* The steps that leave the commands where they are.
LEMMA AsyncAside ==
  ASSUME AsyncInv,
         UNCHANGED <<sock, wire, unread, obuf, replies, contextFreed, called, connected,
                     disconnecting, stop, mask, read_fn, write_fn, interest>>,
         batch' \subseteq {"in", "out"}, crashed' \in BOOLEAN
  PROVE  AsyncInv'
<1>1. AsyncQueues /\ AsyncFlags
  BY AsyncTypes DEF AsyncInv
<1>2. AsyncQueues' /\ AsyncFlags'
  BY <1>1 DEF AsyncQueues, AsyncFlags
<1>3. CalledInOrder'
  BY DEF AsyncInv, CalledInOrder
<1>4. \A a, b, d \in Nat : Traffic(a, b, d) => Traffic(a, b, d)'
  BY DEF Traffic
<1> QED BY <1>2, <1>3, <1>4, AsyncTypesNext DEF AsyncInv

LEMMA AsyncLoop ==
  ASSUME AsyncInv,
         \/ Async!EpollWait \/ Async!WriteFreed
         \/ \E event \in {"in", "out"} : Async!NoHandler(event)
  PROVE  AsyncInv'
<1>1. AsyncFlags
  BY AsyncTypes DEF AsyncInv
<1>2. CASE Async!EpollWait
  <2>1. Async!Ready \subseteq {"in", "out"}
    BY <1>1 DEF Async!Ready, AsyncFlags, Async!ABSENT
  <2>2. batch' \subseteq {"in", "out"} /\ crashed' \in BOOLEAN
    BY <1>1, <1>2, <2>1 DEF Async!EpollWait, AsyncFlags
  <2>3. UNCHANGED <<sock, wire, unread, obuf, replies, contextFreed, called, connected,
                     disconnecting, stop, mask, read_fn, write_fn, interest>>
    BY <1>2 DEF Async!EpollWait, Async!peer, Async!adapter, Async!context
  <2> QED BY <2>2, <2>3, AsyncAside
<1>3. CASE Async!WriteFreed
  <2>1. batch' \subseteq {"in", "out"} /\ crashed' \in BOOLEAN
    BY <1>3 DEF Async!WriteFreed
  <2>2. UNCHANGED <<sock, wire, unread, obuf, replies, contextFreed, called, connected,
                     disconnecting, stop, mask, read_fn, write_fn, interest>>
    BY <1>3 DEF Async!WriteFreed, Async!peer, Async!adapter, Async!context
  <2> QED BY <2>1, <2>2, AsyncAside
<1>4. ASSUME NEW event \in {"in", "out"}, Async!NoHandler(event) PROVE AsyncInv'
  <2>1. batch' \subseteq {"in", "out"} /\ crashed' \in BOOLEAN
    BY <1>1, <1>4 DEF Async!NoHandler, AsyncFlags
  <2>2. UNCHANGED <<sock, wire, unread, obuf, replies, contextFreed, called, connected,
                     disconnecting, stop, mask, read_fn, write_fn, interest>>
    BY <1>4 DEF Async!NoHandler, Async!peer, Async!adapter, Async!context
  <2> QED BY <2>1, <2>2, AsyncAside
<1> QED BY <1>2, <1>3, <1>4

LEMMA AsyncRead ==
  ASSUME AsyncInv, NEW k \in Async!Commands, Async!HandleRead(k)
  PROVE  AsyncInv'
<1>1. /\ ~contextFreed /\ k \in 1..Len(unread) /\ sock \in {"open", "closed"}
      /\ unread' = SubSeq(unread, k + 1, Len(unread))
      /\ replies' = SubSeq(replies, k + 1, Len(replies))
      /\ called' = called \o [i \in 1..k |-> <<replies[i], unread[i]>>]
      /\ disconnecting' = (disconnecting \/ Len(called') = Num)
      /\ contextFreed' = (disconnecting' /\ obuf = <<>> /\ replies' = <<>>)
      /\ stop' = (stop \/ contextFreed')
      /\ batch' = batch \ {"in"} /\ sock' = sock /\ wire' = wire /\ obuf' = obuf
      /\ connected' = connected /\ crashed' = crashed
  BY DEF Async!HandleRead
<1>2. PICK a \in Nat, b \in Nat, d \in Nat : Traffic(a, b, d)
  BY <1>1 DEF AsyncInv
<1>3. AsyncQueues /\ AsyncFlags
  BY AsyncTypes DEF AsyncInv
<1> DEFINE P == Async!Commands \X (Async!Commands \union {0})
<1> PICK t : t = [i \in 1..k |-> <<replies[i], unread[i]>>]
  OBVIOUS
<1>4. /\ a <= b /\ b <= d /\ d <= Num /\ Len(called) = a /\ Num \in Nat /\ a <= Num /\ b <= Num
      /\ replies = Run(a, Num) /\ unread = Run(a, b) /\ obuf = Run(d, Num)
  BY <1>2, AsyncAssumption DEF Traffic
<1>5. /\ Len(unread) = b - a /\ Len(replies) = Num - a
      /\ \A i \in 1 .. b - a : unread[i] = a + i /\ a + i \in Async!Commands
      /\ \A i \in 1 .. Num - a : replies[i] = a + i
  <2>1. /\ Len(Run(a, b)) = b - a
        /\ \A i \in 1 .. b - a : Run(a, b)[i] = a + i /\ a + i \in Async!Commands
    BY ONLY <1>4, a \in Nat, b \in Nat, RunCommands
  <2>2. Len(Run(a, Num)) = Num - a /\ \A i \in 1 .. Num - a : Run(a, Num)[i] = a + i
    BY ONLY <1>4, a \in Nat, RunProperties
  <2> QED BY <1>4, <2>1, <2>2
<1>6. k \in 0 .. Len(unread) /\ k \in 0 .. Len(replies) /\ k \in Nat /\ k <= b - a /\ k >= 1
  BY <1>1, <1>4, <1>5
<1>7. /\ a + k \in Nat /\ a + k <= b /\ unread' = Run(a + k, b) /\ replies' = Run(a + k, Num)
  <2>1. a + k <= b /\ SubSeq(unread, k + 1, Len(unread)) = Run(a + k, b)
    BY ONLY <1>4, <1>6, a \in Nat, b \in Nat, RunSplit
  <2>2. SubSeq(replies, k + 1, Len(replies)) = Run(a + k, Num)
    BY ONLY <1>4, <1>6, a \in Nat, RunSplit
  <2> QED BY <1>1, <1>6, <2>1, <2>2
<1>8. /\ t \in Seq(P) /\ Len(t) = k
      /\ \A i \in 1 .. k : t[i][1] = a + i /\ t[i][2] = a + i
  <2>1. \A i \in 1 .. k : i \in 1 .. b - a /\ i \in 1 .. Num - a
    BY <1>4, <1>6
  <2>2. \A i \in 1 .. k : t[i] = <<a + i, a + i>> /\ t[i] \in P
    BY <1>5, <2>1
  <2> QED BY ONLY t = [i \in 1..k |-> <<replies[i], unread[i]>>], <2>2, <1>6, SeqDef,
             LenProperties
<1>9. called \in Seq(P)
  BY <1>3 DEF AsyncQueues
<1>10. OwnReplies(called)
  BY <1>1 DEF AsyncInv, CalledInOrder
<1> HIDE DEF P
<1>11. called' \in Seq(P) /\ Len(called') = a + k /\ OwnReplies(called')
  <2>1. \A i \in 1 .. Len(t) : t[i][1] = Len(called) + i /\ t[i][2] = Len(called) + i
    BY <1>4, <1>8
  <2>2. t \in Seq(P)
    BY <1>8
  <2>3. /\ called \o t \in Seq(P) /\ Len(called \o t) = Len(called) + Len(t)
        /\ OwnReplies(called \o t)
    BY ONLY <1>9, <1>10, <2>1, <2>2, MoreCalled
  <2> QED BY <1>1, <1>4, <1>8, <2>3
<1>12. EachInOrder(called')
  <2>1. \A i \in DOMAIN called' : i \in 1 .. a + k /\ i # 0
    BY <1>11, LenProperties
  <2> QED BY <1>11, <2>1 DEF OwnReplies, EachInOrder
<1>13. contextFreed' => Len(called') = Num /\ replies' = <<>>
  <2> SUFFICES ASSUME contextFreed' PROVE Len(called') = Num /\ replies' = <<>>
    OBVIOUS
  <2>1. replies' = <<>>
    BY <1>1
  <2>2. Len(replies') = Num - (a + k)
    <3> PICK e \in Nat : e = a + k
      BY <1>7
    <3>1. e <= Num /\ Num \in Nat
      BY <1>4, <1>7
    <3>2. Len(Run(e, Num)) = Num - e
      BY ONLY <3>1, e \in Nat, RunProperties
    <3> QED BY <1>7, <3>2
  <2>3. Num - (a + k) = 0
    BY <2>1, <2>2
  <2> QED BY <1>4, <1>7, <1>11, <2>1, <2>3
<1>14. CalledInOrder'
  BY <1>11, <1>12, <1>13 DEF CalledInOrder
<1>15. Traffic(a + k, b, d)'
  <2>1. sock' \in {"connecting", "open"} => wire' = Run(b, d)
    BY <1>1, <1>2 DEF Traffic
  <2> QED BY <1>1, <1>4, <1>7, <1>11, <2>1 DEF Traffic
<1>16. AsyncQueues'
  <2>1. Run(a + k, b) \in Seq(Async!Commands) /\ Run(a + k, Num) \in Seq(Async!Commands)
    <3> PICK e \in Nat : e = a + k
      BY <1>7
    <3>1. e <= b /\ b <= Num /\ e <= Num /\ Num \in Nat /\ Num <= Num
      BY <1>4, <1>7
    <3>2. Run(e, b) \in Seq(Async!Commands) /\ Run(e, Num) \in Seq(Async!Commands)
      BY ONLY <3>1, e \in Nat, b \in Nat, RunCommands
    <3> QED BY <3>2
  <2> QED BY <1>1, <1>3, <1>7, <1>11, <2>1 DEF AsyncQueues, P
<1>17. AsyncFlags'
  <2>1. disconnecting' \in BOOLEAN /\ contextFreed' \in BOOLEAN /\ stop' \in BOOLEAN
    BY <1>1, <1>3 DEF AsyncFlags
  <2>2. CASE contextFreed'
    <3>1. interest' = {"absent"} /\ mask' = {} /\ read_fn' = FALSE /\ write_fn' = FALSE
      BY <2>2 DEF Async!HandleRead, Async!redisCleanup, Async!ABSENT
    <3> QED BY <1>1, <1>3, <2>1, <3>1 DEF AsyncFlags
  <2>3. CASE ~contextFreed'
    <3>1. /\ mask' = mask \union {"in"} /\ read_fn' = read_fn /\ write_fn' = write_fn
          /\ interest' = Async!Watched(mask, mask \union {"in"}, "in", interest)
      BY <2>3 DEF Async!HandleRead, Async!redisEventUpdate
    <3>2. mask \union {"in"} \in SUBSET {"in", "out"}
      BY <1>3 DEF AsyncFlags
    <3>3. interest' = {"absent"} \/ interest' \subseteq {"in", "out"}
      BY <1>3, <3>1, <3>2, WatchedType DEF AsyncFlags
    <3> QED BY <1>1, <1>3, <2>1, <3>1, <3>2, <3>3 DEF AsyncFlags
  <2> QED BY <2>2, <2>3
<1> QED BY <1>7, <1>14, <1>15, <1>16, <1>17, AsyncTypesNext DEF AsyncInv

LEMMA AsyncWrite ==
  ASSUME AsyncInv, NEW k \in 0..Num, Async!HandleWrite(k)
  PROVE  AsyncInv'
<1>1. /\ ~contextFreed /\ k \in 0..Len(obuf) /\ sock \in {"open", "closed"}
      /\ wire' = wire \o SubSeq(obuf, 1, k) /\ obuf' = SubSeq(obuf, k + 1, Len(obuf))
      /\ batch' = {} /\ connected' = TRUE /\ sock' = sock /\ unread' = unread
      /\ replies' = replies /\ disconnecting' = disconnecting /\ contextFreed' = contextFreed
      /\ called' = called /\ stop' = stop /\ crashed' = crashed
  BY DEF Async!HandleWrite
<1>2. PICK a \in Nat, b \in Nat, d \in Nat : Traffic(a, b, d)
  BY <1>1 DEF AsyncInv
<1>3. AsyncQueues /\ AsyncFlags
  BY AsyncTypes DEF AsyncInv
<1>4. /\ a <= b /\ b <= d /\ d <= Num /\ Num \in Nat /\ obuf = Run(d, Num)
      /\ sock \in {"connecting", "open"} => wire = Run(b, d)
  BY <1>2, AsyncAssumption DEF Traffic
<1>5. /\ d + k \in Nat /\ d + k <= Num /\ SubSeq(obuf, 1, k) = Run(d, d + k)
      /\ obuf' = Run(d + k, Num)
  <2>1. k \in 0 .. Len(Run(d, Num))
    BY <1>1, <1>4
  <2>2. /\ d + k \in Nat /\ d + k <= Num /\ SubSeq(obuf, 1, k) = Run(d, d + k)
        /\ SubSeq(obuf, k + 1, Len(obuf)) = Run(d + k, Num)
    BY ONLY <1>4, <2>1, d \in Nat, RunSplit
  <2> QED BY <1>1, <2>2
<1>6. PICK e \in Nat : e = d + k
  BY <1>5
<1>7. d <= e /\ b <= e /\ e <= Num /\ obuf' = Run(e, Num)
  BY <1>4, <1>5, <1>6
<1>8. sock' \in {"connecting", "open"} => wire' = Run(b, e)
  <2>1. Run(b, d) \o Run(d, e) = Run(b, e)
    BY <1>4, <1>7, RunConcat
  <2> QED BY <1>1, <1>4, <1>5, <1>6, <2>1
<1>9. Traffic(a, b, e)'
  BY <1>1, <1>2, <1>7, <1>8 DEF Traffic
<1>10. CalledInOrder'
  BY <1>1 DEF AsyncInv, CalledInOrder
<1>11. AsyncQueues'
  <2>1. Run(e, Num) \in Seq(Async!Commands) /\ Run(d, e) \in Seq(Async!Commands)
    BY <1>4, <1>7, RunCommands
  <2>2. wire' \in Seq(Async!Commands)
    <3>1. wire \in Seq(Async!Commands) /\ wire' = wire \o Run(d, e)
      BY <1>1, <1>3, <1>5, <1>6 DEF AsyncQueues
    <3> QED BY ONLY <2>1, <3>1, ConcatProperties
  <2> QED BY <1>1, <1>3, <1>7, <2>1, <2>2 DEF AsyncQueues
<1>12. AsyncFlags'
  <2> DEFINE done == obuf' = <<>>
             kept == IF done THEN mask \ {"out"} ELSE mask
             wish == kept \union {"in"}
             first == Async!Watched(mask, kept, "out", interest)
  <2>1. /\ write_fn' = ~done /\ read_fn' = TRUE /\ mask' = wish
        /\ interest' = Async!Watched(kept, wish, "in", first)
    BY DEF Async!HandleWrite, Async!AfterWrite
  <2>2. kept \in SUBSET {"in", "out"} /\ wish \in SUBSET {"in", "out"}
    BY <1>3 DEF AsyncFlags
  <2>3. first = {"absent"} \/ first \subseteq {"in", "out"}
    <3> HIDE DEF kept
    <3> QED BY <1>3, <2>2, WatchedType DEF AsyncFlags
  <2>4. interest' = {"absent"} \/ interest' \subseteq {"in", "out"}
    <3> HIDE DEF first, wish
    <3> QED BY <2>1, <2>2, <2>3, WatchedType
  <2>5. write_fn' \in BOOLEAN
    BY <2>1
  <2> QED BY <1>1, <1>3, <2>1, <2>2, <2>4, <2>5 DEF AsyncFlags
<1> QED BY <1>7, <1>9, <1>10, <1>11, <1>12, AsyncTypesNext DEF AsyncInv

LEMMA AsyncPeer ==
  ASSUME AsyncInv, Async!Establish \/ Async!Answer \/ Async!ServerFails
  PROVE  AsyncInv'
<1>1. /\ obuf' = obuf /\ replies' = replies /\ contextFreed' = contextFreed /\ called' = called
      /\ connected' = connected /\ disconnecting' = disconnecting /\ stop' = stop
      /\ mask' = mask /\ read_fn' = read_fn /\ write_fn' = write_fn /\ interest' = interest
      /\ batch' = batch /\ crashed' = crashed
  BY DEF Async!Establish, Async!Answer, Async!ServerFails, Async!adapter, Async!context
<1>2. AsyncQueues /\ AsyncFlags
  BY AsyncTypes DEF AsyncInv
<1>3. CalledInOrder'
  BY <1>1 DEF AsyncInv, CalledInOrder
<1>4. CASE Async!Establish
  <2>1. sock = "connecting" /\ sock' \in {"open", "refused"} /\ wire' = wire /\ unread' = unread
    BY <1>4 DEF Async!Establish
  <2>2. \A a, b, d \in Nat : Traffic(a, b, d) => Traffic(a, b, d)'
    BY <1>1, <2>1 DEF Traffic
  <2>3. AsyncQueues' /\ AsyncFlags'
    BY <1>1, <1>2, <2>1 DEF AsyncQueues, AsyncFlags
  <2> QED BY <1>1, <1>3, <2>2, <2>3, AsyncTypesNext DEF AsyncInv
<1>5. CASE Async!Answer
  <2>1. /\ sock = "open" /\ sock' = sock /\ wire # <<>>
        /\ unread' = Append(unread, Head(wire)) /\ wire' = Tail(wire)
    BY <1>5 DEF Async!Answer
  <2>2. ASSUME NEW a \in Nat, NEW b \in Nat, NEW d \in Nat, Traffic(a, b, d)
        PROVE  \E any \in Nat : Traffic(a, any, d)'
    <3>1. /\ a <= b /\ b <= d /\ wire = Run(b, d) /\ unread = Run(a, b)
      BY <2>1, <2>2 DEF Traffic
    <3>2. /\ b + 1 \in Nat /\ b + 1 <= d /\ Head(wire) = b + 1 /\ wire' = Run(b + 1, d)
      BY ONLY <2>1, <3>1, b \in Nat, d \in Nat, RunTail
    <3>3. unread' = Run(a, b + 1)
      BY ONLY <2>1, <3>1, <3>2, a \in Nat, b \in Nat, RunNext
    <3>4. Traffic(a, b + 1, d)'
      BY <1>1, <2>1, <2>2, <3>1, <3>2, <3>3 DEF Traffic
    <3> QED BY <3>2, <3>4
  <2>3. unread' \in Seq(Async!Commands) /\ wire' \in Seq(Async!Commands)
    BY <1>2, <2>1, HeadTailProperties, AppendProperties DEF AsyncQueues
  <2>4. AsyncQueues' /\ AsyncFlags'
    BY <1>1, <1>2, <2>1, <2>3 DEF AsyncQueues, AsyncFlags
  <2> QED BY <1>1, <1>3, <2>2, <2>4, AsyncTypesNext DEF AsyncInv
<1>6. CASE Async!ServerFails
  <2>1. /\ sock' \in {"closed", "reset"} /\ wire' = <<>>
        /\ unread' \in {unread, <<>>}
    BY <1>6 DEF Async!ServerFails
  <2>2. ASSUME NEW a \in Nat, NEW b \in Nat, NEW d \in Nat, Traffic(a, b, d)
        PROVE  \E any \in Nat : Traffic(a, any, d)'
    <3>1. CASE unread' = unread
      <4>1. Traffic(a, b, d)'
        BY <1>1, <2>1, <2>2, <3>1 DEF Traffic
      <4> QED BY <4>1
    <3>2. CASE unread' = <<>>
      <4>1. unread' = Run(a, a) /\ a <= a /\ a <= d
        BY <2>2, <3>2, RunEmpty DEF Traffic
      <4>2. Traffic(a, a, d)'
        BY <1>1, <2>1, <2>2, <4>1 DEF Traffic
      <4> QED BY <4>2
    <3> QED BY <2>1, <3>1, <3>2
  <2>3. AsyncQueues'
    <3>1. <<>> \in Seq(Async!Commands)
      OBVIOUS
    <3>2. unread' \in Seq(Async!Commands) /\ wire' \in Seq(Async!Commands)
      BY <1>2, <2>1, <3>1 DEF AsyncQueues
    <3> QED BY <1>1, <1>2, <3>2 DEF AsyncQueues
  <2>4. AsyncFlags'
    BY <1>1, <1>2, <2>1 DEF AsyncFlags
  <2> QED BY <1>1, <1>3, <2>2, <2>3, <2>4, AsyncTypesNext DEF AsyncInv
<1> QED BY <1>4, <1>5, <1>6

LEMMA AsyncStep == AsyncInv /\ Async!Next => AsyncInv'
BY AsyncLoop, AsyncFails, AsyncRead, AsyncWrite, AsyncPeer
   DEF Async!Next, Async!Loop, Async!Server

LEMMA AsyncFrame == AsyncInv /\ UNCHANGED asyncVars => AsyncInv'
<1> SUFFICES ASSUME AsyncInv, UNCHANGED asyncVars PROVE AsyncInv'
  OBVIOUS
<1>1. batch' \subseteq {"in", "out"} /\ crashed' \in BOOLEAN
  BY AsyncTypes DEF asyncVars, AsyncInv, AsyncFlags
<1>2. UNCHANGED <<sock, wire, unread, obuf, replies, contextFreed, called, connected,
                  disconnecting, stop, mask, read_fn, write_fn, interest>>
  BY DEF asyncVars
<1> QED BY <1>1, <1>2, AsyncAside

\* The invariant implies the property.
LEMMA AsyncSafe == AsyncInv => Async!EachCallbackOnce
<1> SUFFICES ASSUME AsyncInv PROVE Async!EachCallbackOnce
  OBVIOUS
<1>1. AsyncQueues /\ AsyncFlags
  BY AsyncTypes DEF AsyncInv
<1>2. EachInOrder(called)
  BY DEF AsyncInv, CalledInOrder
<1>3. contextFreed => Len(called) = Num
  BY DEF AsyncInv, CalledInOrder
<1> DEFINE P == Async!Commands \X (Async!Commands \union {0})
<1> PICK m \in Nat : m = Len(called)
  BY <1>1, LenProperties DEF AsyncQueues
<1>4. /\ m <= Num /\ Num \in Nat
      /\ Len(replies) = Num - m /\ \A i \in 1 .. Num - m : replies[i] = m + i
  <2>1. CASE contextFreed
    <3>1. replies = <<>> /\ m = Num
      BY <2>1 DEF AsyncInv, CalledInOrder
    <3>2. Len(replies) = 0 /\ Num - m = 0
      BY <3>1, AsyncAssumption
    <3> QED BY <3>1, <3>2, AsyncAssumption
  <2>2. CASE ~contextFreed
    <3>1. PICK a \in Nat, b \in Nat, d \in Nat : Traffic(a, b, d)
      BY <2>2 DEF AsyncInv
    <3>2. a = m /\ a <= Num /\ Num \in Nat /\ replies = Run(a, Num)
      BY <3>1, AsyncAssumption DEF Traffic
    <3>3. /\ Len(Run(a, Num)) = Num - a /\ \A i \in 1 .. Num - a : Run(a, Num)[i] = a + i
      BY ONLY <3>2, a \in Nat, RunProperties
    <3> QED BY <3>2, <3>3
  <2> QED BY <2>1, <2>2
<1>0. Num - m \in Nat
  BY <1>4
<1> PICK k \in Nat : k = Num - m
  BY <1>0
<1> PICK t : t = [i \in 1..Len(replies) |-> <<replies[i], 0>>]
  OBVIOUS
<1>5. /\ t \in Seq(P) /\ Len(t) = k /\ \A i \in 1 .. k : t[i] = <<m + i, 0>>
  <2>1. \A i \in 1 .. k : m + i \in 1..Num
    BY <1>4
  <2>2. \A i \in 1 .. k : t[i] = <<m + i, 0>> /\ t[i] \in P
    BY <1>4, <2>1 DEF Async!Commands
  <2>3. t = [i \in 1..k |-> <<replies[i], 0>>]
    BY <1>4
  <2> QED BY ONLY <2>2, <2>3, k \in Nat, SeqDef, LenProperties
<1>6. called \in Seq(P) /\ DOMAIN called = 1 .. m /\ \A i \in 1 .. m : called[i] \in P
  BY <1>1, LenProperties DEF AsyncQueues
<1>7. \A i \in 1 .. m : called[i] = <<i, called[i][2]>>
  <2>1. \A i \in 1 .. m : called[i][1] = i
    BY <1>2, <1>6 DEF EachInOrder
  <2>2. \A i \in 1 .. m : called[i] = <<called[i][1], called[i][2]>>
    BY <1>6
  <2> QED BY <2>1, <2>2
<1> DEFINE want == [i \in Async!Commands |->
                      <<i, IF i <= Len(called) THEN called[i][2] ELSE 0>>]
<1>8. called \o t = want
  <2>1. \A i \in 1..Num : want[i] = IF i <= m THEN called[i] ELSE <<i, 0>>
    <3>1. \A i \in 1..Num : i <= m => i \in 1 .. m
      OBVIOUS
    <3> QED BY <1>7, <3>1 DEF Async!Commands
  <2>2. \A i \in 1..Num : want[i] \in P
    <3>1. \A i \in 1..Num : i <= m => i \in 1 .. m
      OBVIOUS
    <3>2. \A i \in 1..Num : <<i, 0>> \in P
      BY DEF Async!Commands
    <3> HIDE DEF P, want
    <3> QED BY <1>6, <2>1, <3>1, <3>2
  <2>3. want \in Seq(P) /\ Len(want) = Num
    <3>1. want \in [1..Num -> P]
      BY <2>2 DEF Async!Commands
    <3> HIDE DEF P, want
    <3> QED BY ONLY <1>4, <3>1, SeqDef, LenProperties
  <2> HIDE DEF P, want
  <2>4. /\ called \o t \in Seq(P) /\ Len(called \o t) = m + k
        /\ \A i \in 1 .. m + k : (called \o t)[i] = IF i <= m THEN called[i] ELSE t[i - m]
    <3>1. /\ called \o t \in Seq(P) /\ Len(called \o t) = Len(called) + Len(t)
          /\ \A i \in 1 .. Len(called) + Len(t) :
               (called \o t)[i] = IF i <= Len(called) THEN called[i] ELSE t[i - Len(called)]
      BY ONLY <1>5, <1>6, ConcatProperties
    <3>2. Len(called) = m /\ Len(t) = k
      BY <1>5
    <3> QED BY ONLY <3>1, <3>2
  <2>5. m + k = Num
    BY <1>4
  <2>6. ASSUME NEW i \in 1 .. Num PROVE (called \o t)[i] = want[i]
    <3>1. CASE i <= m
      BY <2>1, <2>4, <2>5, <3>1
    <3>2. CASE ~(i <= m)
      <4>1. i - m \in 1 .. k /\ m + (i - m) = i
        BY <1>4, <3>2
      <4>2. t[i - m] = <<i, 0>>
        BY ONLY <1>5, <4>1
      <4>3. (called \o t)[i] = t[i - m]
        BY ONLY <2>4, <2>5, <3>2, i \in 1 .. Num
      <4> QED BY ONLY <2>1, <3>2, <4>2, <4>3, i \in 1 .. Num
    <3> QED BY <3>1, <3>2
  <2> PICK u : u = called \o t
    OBVIOUS
  <2>7. /\ u \in Seq(P) /\ want \in Seq(P) /\ Len(u) = Len(want)
        /\ \A i \in 1 .. Len(u) : u[i] = want[i]
    BY <2>3, <2>4, <2>5, <2>6
  <2>8. u = want
    BY ONLY <2>7, SeqEqual
  <2> QED BY <2>8
<1> QED BY <1>2, <1>3, <1>8 DEF Async!EachCallbackOnce, EachInOrder, Async!NoReply

-----------------------------------------------------------------------------
(* The asynchronous Redis context on libevent (hiredis/adapters/libevent.h).    *)

Records == [added : BOOLEAN, flags : SUBSET {"read", "write"},
            tv : {"none", "connect", "command"}, entered : BOOLEAN, deleted : BOOLEAN,
            destroyed : BOOLEAN]

\* The event record is given up.
Cleaned == record.deleted \/ record.destroyed

EventsFlags ==
  /\ options \in [connect : BOOLEAN, command : BOOLEAN, keep : BOOLEAN]
  /\ peerState \in {"connecting", "refused", "open", "closed"}
  /\ isConnected \in BOOLEAN /\ isDisconnecting \in BOOLEAN /\ isFreeing \in BOOLEAN
  /\ isFreed \in BOOLEAN /\ touched \in BOOLEAN /\ failure \in {"none", "io", "timeout"}
  /\ record \in Records
  /\ library \in {"loop", "handler", "replies", "expire", "free", "return", "over"}
  /\ fired \subseteq {"timeout", "read", "write"}
  /\ onConnect \in {"none", "ok", "error"} /\ onDisconnect \in {"none", "ok", "error"}

EventsQueues ==
  /\ toServer \in Seq(1..MaxCommands) /\ toClient \in Seq(1..MaxCommands)
  /\ unwritten \in Seq(1..MaxCommands) /\ reader \in Seq(1..MaxCommands)
  /\ waiting \in Seq(1..MaxCommands) /\ issued \in 0..MaxCommands
  /\ callbacks \in Seq((1..MaxCommands) \X (0..MaxCommands))

\* Of the commands 1..issued, in this order, the first have had their callbacks, with
\* their own replies or NULL; the others wait for theirs.
CallsInOrder ==
  /\ Len(callbacks) <= issued
  /\ waiting = Run(Len(callbacks), issued)
  /\ \A i \in DOMAIN callbacks : callbacks[i][1] = i /\ callbacks[i][2] \in {i, 0}

\* While replies may still be read: those of the commands up to e are in the reader,
\* those up to b on the socket; the commands up to d are on their way to the server, as
\* long as it has the connection, and the rest is not written.
EventsTraffic(e, b, d) ==
  /\ e \in Nat /\ b \in Nat /\ d \in Nat
  /\ Len(callbacks) <= e /\ e <= b /\ b <= d /\ d <= issued
  /\ reader = Run(Len(callbacks), e) /\ toClient = Run(e, b)
  /\ unwritten = Run(d, issued)
  /\ peerState \in {"connecting", "open"} => toServer = Run(b, d)
  /\ library # "replies" => reader = <<>>

InUse == library \in {"loop", "handler", "replies", "return"} /\ ~Cleaned

\* Which of the two, the context and the event record, is there at each point of the
\* library, and why.
Control ==
  /\ library = "loop" => fired = {} /\ ~record.entered /\ ~record.deleted
  /\ library \in {"handler", "replies", "expire"} => record.entered /\ ~Cleaned /\ ~isFreed
  /\ library = "handler" => fired # {}
  /\ library \in {"handler", "replies"} => ~isFreeing /\ failure = "none"
  /\ library = "expire" => fired = {} /\ failure # "none"
  /\ library = "free" => ~isFreed
  /\ library \in {"free", "return"} => IF record.entered THEN ~record.destroyed
                                      ELSE fired = {} /\ ~record.deleted
  /\ library \in {"loop", "return"} =>
       /\ isFreeing /\ ~isFreed => Cleaned /\ options.keep /\ waiting = <<>>
       /\ failure # "none" => Cleaned
       /\ Cleaned /\ ~isFreed => options.keep \/ (library = "loop" /\ waiting # <<>>)
  /\ library = "free" => isFreeing \/ Cleaned
  /\ library = "free" /\ failure = "none" /\ ~isFreeing => waiting = <<>>
  /\ isFreed => Cleaned /\ waiting = <<>> /\ library # "over"
  /\ library # "over" => /\ Cleaned => ~record.added /\ (isDisconnecting \/ isFreeing)
                         /\ ~touched

\* Which timer is set, and what the program has been told.
Timers ==
  /\ record.tv = "connect" => options.connect
  /\ record.tv = "command" => options.command /\ isConnected
  /\ "timeout" \in fired => fired = {"timeout"} /\ record.tv # "none"
  /\ isConnected <=> onConnect = "ok"
  /\ isConnected => peerState \in {"open", "closed"}
  /\ (onDisconnect # "none") = (isFreed /\ isConnected)
  /\ Events!TimeoutAsked

EventsInv == /\ EventsFlags /\ EventsQueues /\ CallsInOrder /\ Control /\ Timers
             /\ InUse => \E e, b, d \in Nat : EventsTraffic(e, b, d)

\* What becomes of the event record: it is added, with the timer of the phase, or the
\* flags change; or it is given up.
Refreshed(r, u) ==
  /\ u \in Records /\ u.entered = r.entered /\ u.deleted = r.deleted
  /\ u.destroyed = r.destroyed
  /\ \/ u.tv = r.tv
     \/ u.tv = "command" /\ isConnected /\ options.command
     \/ u.tv = "connect" /\ ~isConnected /\ options.connect

LEMMA UpdatedEffect ==
  ASSUME NEW r \in Records, NEW flag \in {"read", "write"}, NEW remove \in BOOLEAN
  PROVE  /\ Events!Updated(r, flag, remove) \in Records
         /\ Events!Updated(r, flag, remove).entered = r.entered
         /\ Events!Updated(r, flag, remove).deleted = r.deleted
         /\ Events!Updated(r, flag, remove).destroyed = r.destroyed
         /\ Events!Updated(r, flag, remove).tv = r.tv
<1> PICK u : u = Events!Updated(r, flag, remove)
  OBVIOUS
<1>1. CASE u = r
  BY <1>1
<1>2. CASE u # r
  <2>1. PICK new \in SUBSET {"read", "write"} : u = [r EXCEPT !.added = TRUE, !.flags = new]
    <3>1. u = [r EXCEPT !.added = TRUE,
                 !.flags = IF remove THEN @ \ {flag} ELSE @ \union {flag}]
      BY <1>2 DEF Events!Updated
    <3>2. r.flags \in SUBSET {"read", "write"}
      BY DEF Records
    <3>3. CASE remove
      <4>1. u = [r EXCEPT !.added = TRUE, !.flags = r.flags \ {flag}]
        BY <3>1, <3>3 DEF Records
      <4> QED BY <3>2, <4>1
    <3>4. CASE ~remove
      <4>1. u = [r EXCEPT !.added = TRUE, !.flags = r.flags \union {flag}]
        BY <3>1, <3>4 DEF Records
      <4> QED BY <3>2, <4>1
    <3> QED BY <3>3, <3>4
  <2> QED BY <2>1 DEF Records
<1> QED BY <1>1, <1>2

LEMMA TimeoutEffect ==
  ASSUME NEW r \in Records
  PROVE  Refreshed(r, Events!refreshTimeout(r))
<1>1. CASE isConnected /\ options.command
  BY <1>1 DEF Events!refreshTimeout, Refreshed, Records
<1>2. CASE ~isConnected /\ options.connect
  BY <1>2 DEF Events!refreshTimeout, Refreshed, Records
<1>3. CASE ~(isConnected /\ options.command) /\ ~(~isConnected /\ options.connect)
  BY <1>3 DEF Events!refreshTimeout, Refreshed, Records
<1> QED BY <1>1, <1>2, <1>3

LEMMA AddEffect ==
  ASSUME NEW r \in Records
  PROVE  Refreshed(r, Events!AddRead(r)) /\ Refreshed(r, Events!AddWrite(r))
<1> PICK t : t = Events!refreshTimeout(r)
  OBVIOUS
<1>1. Refreshed(r, t)
  BY TimeoutEffect
<1>2. t \in Records
  BY <1>1 DEF Refreshed
<1>3. Events!AddRead(r) = Events!Updated(t, "read", FALSE)
  BY DEF Events!AddRead
<1>4. Events!AddWrite(r) = Events!Updated(t, "write", FALSE)
  BY DEF Events!AddWrite
<1>5. Refreshed(r, Events!Updated(t, "read", FALSE))
  BY <1>1, <1>2, UpdatedEffect DEF Refreshed
<1>6. Refreshed(r, Events!Updated(t, "write", FALSE))
  BY <1>1, <1>2, UpdatedEffect DEF Refreshed
<1> QED BY <1>3, <1>4, <1>5, <1>6

LEMMA CleanupEffect ==
  ASSUME NEW r \in Records
  PROVE  /\ Events!Cleanup(r) \in Records /\ Events!Cleanup(r).tv = r.tv
         /\ Events!Cleanup(r).entered = r.entered
         /\ r.deleted \/ r.destroyed => Events!Cleanup(r) = r
         /\ ~(r.deleted \/ r.destroyed) =>
              /\ Events!Cleanup(r).added = FALSE /\ Events!Cleanup(r).deleted = r.entered
              /\ Events!Cleanup(r).destroyed = ~r.entered
<1>1. CASE r.deleted \/ r.destroyed
  BY <1>1 DEF Events!Cleanup
<1>2. CASE ~(r.deleted \/ r.destroyed)
  <2>1. Events!Cleanup(r) = [r EXCEPT !.added = FALSE, !.flags = {},
                 !.deleted = r.entered, !.destroyed = ~r.entered]
    BY <1>2 DEF Events!Cleanup, Records
  <2> QED BY <1>2, <2>1 DEF Records
<1> QED BY <1>1, <1>2

\* A command is taken, or none.
Taken(rest) ==
  /\ issued < MaxCommands /\ ~isDisconnecting /\ ~isFreeing
  /\ waiting' = Append(rest, issued + 1) /\ unwritten' = Append(unwritten, issued + 1)
  /\ issued' = issued + 1

NotTaken(rest) ==
  waiting' = rest /\ unwritten' = unwritten /\ issued' = issued /\ record' = record

LEMMA DoesEffect ==
  ASSUME EventsFlags, NEW what, NEW rest, Events!Does(what, rest, record)
  PROVE  /\ Taken(rest) \/ NotTaken(rest)
         /\ Refreshed(record, record')
         /\ what # "command" => NotTaken(rest)
         /\ isDisconnecting' = (isDisconnecting \/ what = "disconnect")
         /\ isFreeing' = (isFreeing \/ what = "free")
         /\ options' \in [connect : BOOLEAN, command : BOOLEAN, keep : BOOLEAN]
         /\ options'.connect = options.connect /\ options'.command = options.command
         /\ options'.keep = (options.keep /\ what # "disconnect")
<1> DEFINE takes == what = "command" /\ issued < MaxCommands /\ ~isDisconnecting /\ ~isFreeing
<1>1. record \in Records /\ Refreshed(record, record)
  BY DEF EventsFlags, Refreshed
<1>2. CASE takes
  <2>1. Taken(rest) /\ record' = Events!AddWrite(record)
    BY <1>2 DEF Events!Does, Taken
  <2> QED BY <1>1, <1>2, <2>1, AddEffect DEF Events!Does, EventsFlags
<1>3. CASE ~takes
  <2>1. NotTaken(rest)
    BY <1>3 DEF Events!Does, NotTaken
  <2>2. Refreshed(record, record')
    BY <1>1, <2>1 DEF NotTaken
  <2> QED BY <2>1, <2>2 DEF Events!Does, EventsFlags
<1> QED BY <1>2, <1>3

-----------------------------------------------------------------------------
\* The commands that wait, when one is taken and when the first has its callback.
LEMMA CallsTake ==
  ASSUME EventsQueues, CallsInOrder, callbacks' = callbacks, Taken(waiting)
  PROVE  /\ CallsInOrder' /\ waiting' \in Seq(1..MaxCommands) /\ issued' \in 0..MaxCommands
         /\ unwritten' \in Seq(1..MaxCommands)
<1> PICK a \in Nat, n \in Nat : a = Len(callbacks) /\ n = issued
  BY EventsAssumption, LenProperties DEF EventsQueues
<1>1. /\ n < MaxCommands /\ MaxCommands \in Nat /\ a <= n /\ waiting = Run(a, n)
      /\ waiting' = Append(waiting, n + 1) /\ issued' = n + 1 /\ n + 1 \in 1..MaxCommands
      /\ unwritten' = Append(unwritten, n + 1)
  BY EventsAssumption DEF Taken, CallsInOrder
<1>2. waiting' = Run(a, n + 1)
  BY ONLY <1>1, a \in Nat, n \in Nat, RunNext
<1>3. waiting' \in Seq(1..MaxCommands) /\ unwritten' \in Seq(1..MaxCommands)
  BY <1>1, AppendProperties DEF EventsQueues
<1> QED BY <1>1, <1>2, <1>3 DEF CallsInOrder

LEMMA CallsRun ==
  ASSUME EventsQueues, CallsInOrder, waiting # <<>>, NEW reply \in {0, Len(callbacks) + 1},
         callbacks' = Append(callbacks, <<Head(waiting), reply>>),
         Taken(Tail(waiting)) \/ NotTaken(Tail(waiting))
  PROVE  /\ CallsInOrder' /\ waiting' \in Seq(1..MaxCommands) /\ issued' \in 0..MaxCommands
         /\ unwritten' \in Seq(1..MaxCommands)
         /\ callbacks' \in Seq((1..MaxCommands) \X (0..MaxCommands))
         /\ Len(callbacks') = Len(callbacks) + 1 /\ Len(callbacks) < issued
<1> DEFINE P == (1..MaxCommands) \X (0..MaxCommands)
<1>0. callbacks \in Seq(P)
  BY DEF EventsQueues
<1> PICK a \in Nat, n \in Nat : a = Len(callbacks) /\ n = issued
  BY EventsAssumption, LenProperties DEF EventsQueues
<1>1. /\ n <= MaxCommands /\ MaxCommands \in Nat /\ a <= n /\ waiting = Run(a, n)
      /\ reply \in {0, a + 1}
  BY EventsAssumption DEF CallsInOrder, EventsQueues
<1>2. /\ a < n /\ a + 1 \in Nat /\ a + 1 <= n /\ Head(waiting) = a + 1
      /\ Tail(waiting) = Run(a + 1, n)
  BY ONLY <1>1, a \in Nat, n \in Nat, waiting # <<>>, RunTail
<1>3. <<a + 1, reply>> \in P
  BY <1>1, <1>2
<1> HIDE DEF P
<1>4. /\ callbacks' \in Seq(P) /\ Len(callbacks') = a + 1 /\ DOMAIN callbacks' = 1 .. a + 1
      /\ DOMAIN callbacks = 1 .. a
      /\ callbacks'[a + 1] = <<a + 1, reply>>
      /\ \A i \in 1 .. a : callbacks'[i] = callbacks[i]
  <2>1. callbacks' = Append(callbacks, <<a + 1, reply>>)
    BY <1>2
  <2> QED BY ONLY <1>0, <1>3, <2>1, a = Len(callbacks), AppendProperties, LenProperties
<1>5. \A i \in DOMAIN callbacks' : callbacks'[i][1] = i /\ callbacks'[i][2] \in {i, 0}
  <2>1. \A i \in 1 .. a : callbacks'[i][1] = i /\ callbacks'[i][2] \in {i, 0}
    BY <1>4 DEF CallsInOrder
  <2>2. callbacks'[a + 1][1] = a + 1 /\ callbacks'[a + 1][2] \in {a + 1, 0}
    BY <1>1, <1>4
  <2>3. \A i \in 1 .. a + 1 : i \in 1 .. a \/ i = a + 1
    OBVIOUS
  <2> QED BY ONLY <1>4, <2>1, <2>2, <2>3
<1>6. CASE Taken(Tail(waiting))
  <2>1. /\ n < MaxCommands /\ waiting' = Append(Run(a + 1, n), n + 1) /\ issued' = n + 1
        /\ n + 1 \in 1..MaxCommands /\ unwritten' = Append(unwritten, n + 1)
    BY <1>1, <1>2, <1>6 DEF Taken
  <2> PICK b \in Nat, m \in Nat : b = a + 1 /\ m = n + 1
    BY <1>2
  <2>2. b <= n /\ b <= m /\ m <= MaxCommands /\ MaxCommands \in Nat
    BY <1>1, <1>2, <2>1
  <2>3. waiting' = Run(b, m)
    <3>1. Append(Run(b, n), n + 1) = Run(b, n + 1)
      BY ONLY <2>2, b \in Nat, n \in Nat, RunNext
    <3> QED BY <2>1, <3>1
  <2>5. waiting' \in Seq(1..MaxCommands)
    <3>1. Run(b, m) \in Seq(1..MaxCommands)
      BY ONLY <2>2, b \in Nat, m \in Nat, RunUpTo
    <3> QED BY <2>3, <3>1
  <2>4. unwritten' \in Seq(1..MaxCommands)
    BY <2>1, AppendProperties DEF EventsQueues
  <2>6. CallsInOrder'
    <3>1. Len(callbacks') = b /\ issued' = m
      BY <1>4, <2>1
    <3> QED BY ONLY <1>5, <2>2, <2>3, <3>1 DEF CallsInOrder
  <2>7. issued' \in 0..MaxCommands
    BY <1>1, <2>1
  <2> QED BY <1>2, <1>4, <2>4, <2>5, <2>6, <2>7 DEF P
<1>7. CASE NotTaken(Tail(waiting))
  <2>1. waiting' = Run(a + 1, n) /\ issued' = n /\ unwritten' = unwritten
    BY <1>2, <1>7 DEF NotTaken
  <2>2. waiting' \in Seq(1..MaxCommands)
    BY <1>7, HeadTailProperties DEF NotTaken, EventsQueues
  <2>3. unwritten' \in Seq(1..MaxCommands) /\ issued' \in 0..MaxCommands
    BY <2>1 DEF EventsQueues
  <2> QED BY <1>2, <1>4, <1>5, <2>1, <2>2, <2>3 DEF CallsInOrder, P
<1> QED BY <1>6, <1>7

\* The steps that leave the commands where they are.
LEMMA EventsQuiet ==
  ASSUME EventsInv, UNCHANGED <<peerState, toServer, toClient, unwritten, reader, waiting,
                                issued, callbacks>>,
         InUse' => InUse /\ (library # "replies" \/ library' = "replies" \/ reader = <<>>)
  PROVE  /\ EventsQueues' /\ CallsInOrder'
         /\ InUse' => \E e, b, d \in Nat : EventsTraffic(e, b, d)'
<1>1. EventsQueues' /\ CallsInOrder'
  BY DEF EventsInv, EventsQueues, CallsInOrder
<1>2. ASSUME InUse', NEW e \in Nat, NEW b \in Nat, NEW d \in Nat, EventsTraffic(e, b, d)
      PROVE  EventsTraffic(e, b, d)'
  BY <1>2 DEF EventsTraffic
<1> QED BY <1>1, <1>2 DEF EventsInv

\* The traffic when a command is taken, which goes to what is not written.
LEMMA TrafficTake ==
  ASSUME EventsQueues, NEW e \in Nat, NEW b \in Nat, NEW d \in Nat, EventsTraffic(e, b, d),
         UNCHANGED <<peerState, toServer, toClient, reader, callbacks>>,
         Taken(waiting) \/ NotTaken(waiting), library' # "replies" => reader = <<>>
  PROVE  EventsTraffic(e, b, d)'
<1> PICK n \in Nat : n = issued
  BY EventsAssumption DEF EventsQueues
<1>1. CASE Taken(waiting)
  <2>1. d <= n /\ unwritten = Run(d, n) /\ unwritten' = Append(unwritten, n + 1)
        /\ issued' = n + 1
    BY <1>1 DEF Taken, EventsTraffic
  <2>2. unwritten' = Run(d, n + 1) /\ d <= n + 1
    BY ONLY <2>1, d \in Nat, n \in Nat, RunNext
  <2> QED BY <2>1, <2>2 DEF EventsTraffic
<1>2. CASE NotTaken(waiting)
  BY <1>2 DEF NotTaken, EventsTraffic
<1> QED BY <1>1, <1>2

LEMMA EventsInitInv == Events!Init => EventsInv
<1> SUFFICES ASSUME Events!Init PROVE EventsInv
  OBVIOUS
<1>1. /\ options \in [connect : BOOLEAN, command : BOOLEAN, keep : BOOLEAN]
      /\ peerState = "connecting" /\ toServer = <<>> /\ toClient = <<>>
      /\ unwritten = <<>> /\ reader = <<>> /\ waiting = <<>>
      /\ isConnected = FALSE /\ isDisconnecting = FALSE /\ isFreeing = FALSE
      /\ failure = "none" /\ isFreed = FALSE
      /\ record = Events!AddWrite(Events!NewRecord)
      /\ library = "loop" /\ fired = {} /\ issued = 0 /\ callbacks = <<>>
      /\ onConnect = "none" /\ onDisconnect = "none" /\ touched = FALSE
  BY DEF Events!Init
<1>2. Events!NewRecord \in Records
  BY DEF Events!NewRecord, Records
<1>3. Refreshed(Events!NewRecord, record)
  BY <1>1, <1>2, AddEffect
<1>4. /\ record \in Records /\ record.entered = FALSE /\ record.deleted = FALSE
      /\ record.destroyed = FALSE /\ record.tv \in {"none", "connect"}
      /\ record.tv = "connect" => options.connect
  BY <1>1, <1>3 DEF Refreshed, Events!NewRecord
<1>5. EventsFlags
  BY <1>1, <1>4 DEF EventsFlags
<1>6. EventsQueues
  BY <1>1, EventsAssumption DEF EventsQueues
<1>7. Run(0, 0) = <<>>
  BY RunEmpty
<1>8. CallsInOrder
  BY <1>1, <1>7 DEF CallsInOrder
<1>9. Control
  BY <1>1, <1>4 DEF Control, Cleaned
<1>10. Timers
  BY <1>1, <1>4 DEF Timers, Events!TimeoutAsked
<1>11. EventsTraffic(0, 0, 0)
  BY <1>1, <1>7 DEF EventsTraffic
<1> QED BY <1>5, <1>6, <1>8, <1>9, <1>10, <1>11 DEF EventsInv

-----------------------------------------------------------------------------
(* The steps of the program, the library and the peer.                        *)

LEMMA EventsCommand == EventsInv /\ Events!Command => EventsInv'
<1> SUFFICES ASSUME EventsInv, Events!Command PROVE EventsInv'
  OBVIOUS
<1>0. EventsFlags /\ EventsQueues /\ CallsInOrder /\ Control /\ Timers
  BY DEF EventsInv
<1>1. /\ library = "loop" /\ ~isFreed /\ ~isDisconnecting /\ ~isFreeing
      /\ Events!Does("command", waiting, record)
      /\ touched' = (touched \/ record.destroyed)
      /\ peerState' = peerState /\ toServer' = toServer /\ toClient' = toClient
      /\ reader' = reader /\ isConnected' = isConnected /\ failure' = failure
      /\ isFreed' = isFreed /\ library' = library /\ fired' = fired /\ callbacks' = callbacks
      /\ onConnect' = onConnect /\ onDisconnect' = onDisconnect
  BY DEF Events!Command, Events!Outside, Events!peer
<1>2. /\ Taken(waiting) \/ NotTaken(waiting)
      /\ Refreshed(record, record')
      /\ isDisconnecting' = FALSE /\ isFreeing' = FALSE
      /\ options' \in [connect : BOOLEAN, command : BOOLEAN, keep : BOOLEAN]
      /\ options'.connect = options.connect /\ options'.command = options.command
      /\ options'.keep = options.keep
  BY <1>0, <1>1, DoesEffect DEF EventsFlags
<1>3. ~Cleaned /\ ~Cleaned' /\ touched' = touched
  BY <1>0, <1>1, <1>2 DEF Control, Cleaned, Refreshed, EventsFlags
<1>4. EventsFlags'
  BY <1>0, <1>1, <1>2, <1>3 DEF EventsFlags, Refreshed
<1>5. CallsInOrder' /\ EventsQueues'
  <2>1. CASE Taken(waiting)
    BY <1>0, <1>1, <2>1, CallsTake DEF EventsQueues
  <2>2. CASE NotTaken(waiting)
    BY <1>0, <1>1, <2>2 DEF EventsQueues, CallsInOrder, NotTaken
  <2> QED BY <1>2, <2>1, <2>2
<1>6. Control'
  BY <1>0, <1>1, <1>2, <1>3 DEF Control, Refreshed, Cleaned
<1>7. Timers'
  BY <1>0, <1>1, <1>2 DEF Timers, Refreshed, Events!TimeoutAsked
<1>8. \E e, b, d \in Nat : EventsTraffic(e, b, d)'
  <2>1. PICK e \in Nat, b \in Nat, d \in Nat : EventsTraffic(e, b, d)
    BY <1>1, <1>3 DEF EventsInv, InUse
  <2>2. reader = <<>>
    BY <1>1, <2>1 DEF EventsTraffic
  <2>3. EventsTraffic(e, b, d)'
    BY <1>0, <1>1, <1>2, <2>1, <2>2, TrafficTake
  <2> QED BY <2>3
<1> QED BY <1>4, <1>5, <1>6, <1>7, <1>8 DEF EventsInv

LEMMA EventsOutside ==
  ASSUME EventsInv, Events!Disconnect \/ Events!AsyncFree \/ Events!SetTimeout
  PROVE  EventsInv'
<1>0. EventsFlags /\ EventsQueues /\ CallsInOrder /\ Control /\ Timers
  BY DEF EventsInv
<1>1. /\ library = "loop" /\ ~isFreed
      /\ peerState' = peerState /\ toServer' = toServer /\ toClient' = toClient
      /\ unwritten' = unwritten /\ reader' = reader /\ waiting' = waiting
      /\ isConnected' = isConnected /\ failure' = failure /\ isFreed' = isFreed
      /\ fired' = fired /\ issued' = issued /\ callbacks' = callbacks
      /\ onConnect' = onConnect /\ onDisconnect' = onDisconnect /\ touched' = touched
  BY DEF Events!Disconnect, Events!AsyncFree, Events!SetTimeout, Events!Outside,
         Events!peer,
         Events!history, Events!flags
<1>2. CASE Events!Disconnect
  <2>1. /\ isDisconnecting /\ waiting # <<>> => options.keep
        /\ isDisconnecting' = TRUE /\ options' = [options EXCEPT !.keep = FALSE]
        /\ isFreeing' = isFreeing
        /\ \/ waiting = <<>> /\ library' = "free" /\ record' = Events!Cleanup(record)
           \/ waiting # <<>> /\ library' = library /\ record' = record
    BY <1>2 DEF Events!Disconnect
  <2>2. /\ options' \in [connect : BOOLEAN, command : BOOLEAN, keep : BOOLEAN]
        /\ options'.connect = options.connect /\ options'.command = options.command
        /\ options'.keep = FALSE
    BY <1>0, <2>1 DEF EventsFlags
  <2>3. /\ record' \in Records /\ record'.tv = record.tv /\ record'.entered = record.entered
    BY <1>0, <2>1, CleanupEffect DEF EventsFlags
  <2>4. EventsFlags'
    BY <1>0, <1>1, <2>1, <2>2, <2>3 DEF EventsFlags
  <2>5. Control'
    <3>1. CASE waiting = <<>>
      <4>1. /\ library' = "free" /\ record'.entered = FALSE /\ record'.deleted = FALSE
            /\ record'.destroyed = TRUE /\ record'.added = FALSE
        BY <1>0, <1>1, <2>1, <3>1, CleanupEffect DEF EventsFlags, Control, Cleaned, Records
      <4> QED BY <1>0, <1>1, <2>1, <3>1, <4>1 DEF Control, Cleaned
    <3>2. CASE waiting # <<>>
      <4>1. library' = "loop" /\ record' = record
        BY <1>1, <2>1, <3>2
      <4> QED BY <1>0, <1>1, <2>1, <2>2, <3>2, <4>1 DEF Control, Cleaned
    <3> QED BY <3>1, <3>2
  <2>6. Timers'
    BY <1>0, <1>1, <2>1, <2>2, <2>3 DEF Timers, Events!TimeoutAsked
  <2>7. InUse' => InUse
    BY <1>0, <1>1, <2>1, CleanupEffect DEF InUse, Cleaned, EventsFlags
  <2> QED BY <1>1, <2>4, <2>5, <2>6, <2>7, EventsQuiet DEF EventsInv
<1>3. CASE Events!AsyncFree
  <2>1. /\ isFreeing' = TRUE /\ library' = "free" /\ options' = options
        /\ isDisconnecting' = isDisconnecting /\ record' = record
    BY <1>3 DEF Events!AsyncFree
  <2>2. EventsFlags' /\ Timers'
    BY <1>0, <1>1, <2>1 DEF EventsFlags, Timers, Events!TimeoutAsked
  <2>3. Control'
    BY <1>0, <1>1, <2>1 DEF Control, Cleaned
  <2>4. ~InUse'
    BY <2>1 DEF InUse
  <2> QED BY <1>1, <2>2, <2>3, <2>4, EventsQuiet DEF EventsInv
<1>4. CASE Events!SetTimeout
  <2>1. /\ options' = [options EXCEPT !.command = TRUE] /\ library' = library
        /\ isDisconnecting' = isDisconnecting /\ isFreeing' = isFreeing /\ record' = record
    BY <1>4 DEF Events!SetTimeout, Events!flags
  <2>2. /\ options' \in [connect : BOOLEAN, command : BOOLEAN, keep : BOOLEAN]
        /\ options'.connect = options.connect /\ options'.command = TRUE
        /\ options'.keep = options.keep
    BY <1>0, <2>1 DEF EventsFlags
  <2>3. EventsFlags'
    BY <1>0, <1>1, <2>1, <2>2 DEF EventsFlags
  <2>4. Timers'
    BY <1>0, <1>1, <2>1, <2>2 DEF Timers, Events!TimeoutAsked
  <2>5. Control'
    BY <1>0, <1>1, <2>1, <2>2 DEF Control, Cleaned
  <2>6. InUse' => InUse
    BY <2>1 DEF InUse, Cleaned
  <2> QED BY <1>1, <2>3, <2>4, <2>5, <2>6, EventsQuiet DEF EventsInv
<1> QED BY <1>2, <1>3, <1>4

LEMMA EventsFire == EventsInv /\ Events!Fire => EventsInv'
<1> SUFFICES ASSUME EventsInv, Events!Fire PROVE EventsInv'
  OBVIOUS
<1>0. EventsFlags /\ EventsQueues /\ CallsInOrder /\ Control /\ Timers
  BY DEF EventsInv
<1>1. /\ library = "loop" /\ record.added /\ library' = "handler"
      /\ record' = [record EXCEPT !.entered = TRUE] /\ options' = options
      /\ peerState' = peerState /\ toServer' = toServer /\ toClient' = toClient
      /\ unwritten' = unwritten /\ reader' = reader /\ waiting' = waiting
      /\ isConnected' = isConnected /\ isDisconnecting' = isDisconnecting
      /\ isFreeing' = isFreeing /\ failure' = failure /\ isFreed' = isFreed
      /\ issued' = issued /\ callbacks' = callbacks
      /\ onConnect' = onConnect /\ onDisconnect' = onDisconnect /\ touched' = touched
  BY DEF Events!Fire, Events!peer, Events!flags, Events!history
<1>2. \/ fired' = {"timeout"} /\ record.tv # "none"
      \/ fired' # {} /\ fired' \subseteq {"read", "write"}
  BY <1>0 DEF Events!Fire, EventsFlags, Records
<1>3. /\ record' \in Records /\ record'.entered = TRUE /\ record'.tv = record.tv
      /\ record'.deleted = record.deleted /\ record'.destroyed = record.destroyed
      /\ record'.added = record.added
  BY <1>0, <1>1 DEF EventsFlags, Records
<1>4. ~Cleaned /\ ~Cleaned' /\ ~isFreed
  BY <1>0, <1>1, <1>3 DEF Control, Cleaned
<1>5. EventsFlags'
  BY <1>0, <1>1, <1>2, <1>3 DEF EventsFlags
<1>6. Timers'
  BY <1>0, <1>1, <1>2, <1>3 DEF Timers, Events!TimeoutAsked
<1>7. Control'
  BY <1>0, <1>1, <1>2, <1>3, <1>4 DEF Control, Cleaned, EventsFlags
<1>8. InUse' => InUse
  BY <1>1, <1>4 DEF InUse
<1> QED BY <1>1, <1>5, <1>6, <1>7, <1>8, EventsQuiet DEF EventsInv

\* The steps of the library that end a context or give it back, and find no reply.
LEMMA EventsEnds ==
  ASSUME EventsInv,
         \/ Events!HandleTimeout \/ Events!ExpireEnds \/ Events!HandleReadError
         \/ Events!ProcessEnds \/ Events!HandleWriteError \/ Events!Return
  PROVE  EventsInv'
<1>0. EventsFlags /\ EventsQueues /\ CallsInOrder /\ Control /\ Timers
  BY DEF EventsInv
<1>1. /\ options' = options
      /\ peerState' = peerState /\ toServer' = toServer /\ toClient' = toClient
      /\ unwritten' = unwritten /\ reader' = reader /\ waiting' = waiting
      /\ isConnected' = isConnected /\ isFreeing' = isFreeing /\ isFreed' = isFreed
      /\ issued' = issued /\ callbacks' = callbacks /\ onDisconnect' = onDisconnect
  BY DEF Events!HandleTimeout, Events!ExpireEnds, Events!HandleReadError,
         Events!ProcessEnds, Events!HandleWriteError, Events!Return, Events!peer,
         Events!flags, Events!history
<1>2. CASE Events!HandleTimeout
  <2>1. /\ library = "handler" /\ "timeout" \in fired /\ fired' = fired \ {"timeout"}
        /\ isDisconnecting' = isDisconnecting /\ record' = record /\ touched' = touched
        /\ \/ isConnected /\ waiting = <<>> /\ library' = "return" /\ failure' = failure
              /\ onConnect' = onConnect
           \/ library' = "expire" /\ failure' = (IF failure = "none" THEN "timeout" ELSE failure)
              /\ onConnect' = (IF isConnected THEN onConnect ELSE "error")
    BY <1>2 DEF Events!HandleTimeout, Events!Handling
  <2>2. fired = {"timeout"} /\ fired' = {} /\ record.tv # "none" /\ failure = "none" /\ ~Cleaned
        /\ ~isFreed
    BY <1>0, <2>1 DEF Timers, Control
  <2>3. EventsFlags'
    BY <1>0, <1>1, <2>1, <2>2 DEF EventsFlags
  <2>4. Timers'
    BY <1>0, <1>1, <2>1, <2>2 DEF Timers, Events!TimeoutAsked, EventsFlags, Records
  <2>5. Control'
    BY <1>0, <1>1, <2>1, <2>2 DEF Control, Cleaned
  <2>6. InUse' => InUse
    BY <2>1, <2>2 DEF InUse
  <2> QED BY <1>1, <2>1, <2>3, <2>4, <2>5, <2>6, EventsQuiet DEF EventsInv
\* __redisAsyncDisconnect in the handler.
<1>3. ASSUME NEW how \in {"none", "io", "timeout"}, Events!AsyncDisconnect(how),
             library \in {"handler", "replies", "expire"}, fired' \subseteq fired,
             fired' \ {"timeout"} \subseteq fired \ {"timeout"},
             onConnect' = onConnect, touched' = touched,
             how = "timeout" => failure = "timeout",
             how = "none" => isDisconnecting /\ waiting = <<>>,
             isFreeing => waiting = <<>>
      PROVE  EventsInv'
  <2>1. /\ failure' = how /\ isDisconnecting' = (isDisconnecting \/ how # "none")
        /\ record' = Events!Cleanup(record)
        /\ library' = IF options.keep THEN "return" ELSE "free"
    BY <1>3 DEF Events!AsyncDisconnect
  <2>2. /\ record.entered /\ ~Cleaned /\ ~isFreed /\ record.deleted = FALSE
        /\ record.destroyed = FALSE /\ record.entered = TRUE /\ record \in Records
    BY <1>0, <1>3 DEF Control, Cleaned, EventsFlags, Records
  <2>3. /\ record' \in Records /\ record'.tv = record.tv /\ record'.entered = TRUE
        /\ record'.deleted = TRUE /\ record'.destroyed = FALSE /\ record'.added = FALSE
    BY <2>1, <2>2, CleanupEffect
  <2>4. EventsFlags'
    BY <1>0, <1>1, <1>3, <2>1, <2>3 DEF EventsFlags
  <2>5. Timers'
    BY <1>0, <1>1, <1>3, <2>1, <2>3 DEF Timers, Events!TimeoutAsked
  <2>6. Control'
    <3>1. library' \in {"return", "free"} /\ (library' = "return" => options.keep)
          /\ Cleaned' /\ ~isFreed'
      BY <1>1, <2>1, <2>2, <2>3 DEF Cleaned
    <3>2. isDisconnecting' = TRUE
      BY <1>3, <2>1
    <3>3. ~touched'
      BY <1>0, <1>3 DEF Control
    <3> QED BY <1>1, <1>3, <2>1, <2>3, <3>1, <3>2, <3>3 DEF Control
  <2>7. ~InUse'
    BY <2>3 DEF InUse, Cleaned
  <2> QED BY <1>1, <2>4, <2>5, <2>6, <2>7, EventsQuiet DEF EventsInv
<1>4. CASE Events!ExpireEnds
  <2>1. /\ library = "expire" /\ waiting = <<>> /\ Events!AsyncDisconnect(failure)
        /\ fired' = fired /\ onConnect' = onConnect /\ touched' = touched
    BY <1>4 DEF Events!ExpireEnds, Events!history
  <2>2. failure \in {"io", "timeout"}
    BY <1>0, <2>1 DEF Control, EventsFlags
  <2> QED BY <1>3, <2>1, <2>2
<1>5. CASE Events!HandleReadError \/ Events!HandleWriteError
  <2>1. /\ library = "handler" /\ Events!AsyncDisconnect("io")
        /\ fired' \subseteq fired /\ onConnect' = onConnect /\ touched' = touched
    BY <1>5 DEF Events!HandleReadError, Events!HandleWriteError, Events!Handling,
                Events!history
  <2>2. ~isFreeing
    BY <1>0, <2>1 DEF Control
  <2> QED BY <1>3, <2>1, <2>2
<1>6. CASE Events!ProcessEnds
  <2>1. /\ library = "replies" /\ reader = <<>>
        /\ fired' = fired /\ onConnect' = onConnect /\ touched' = touched
        /\ \/ isDisconnecting /\ waiting = <<>> /\ Events!AsyncDisconnect(failure)
           \/ library' = "return" /\ failure' = failure /\ record' = record
              /\ isDisconnecting' = isDisconnecting
    BY <1>6 DEF Events!ProcessEnds, Events!history
  <2>2. ~isFreeing /\ failure = "none" /\ record.entered /\ ~Cleaned /\ ~isFreed
    BY <1>0, <2>1 DEF Control
  <2>3. CASE isDisconnecting /\ waiting = <<>> /\ Events!AsyncDisconnect(failure)
    BY <1>3, <2>1, <2>2, <2>3
  <2>4. CASE /\ library' = "return" /\ failure' = failure /\ record' = record
             /\ isDisconnecting' = isDisconnecting
    <3>1. EventsFlags' /\ Timers'
      BY <1>0, <1>1, <2>1, <2>4 DEF EventsFlags, Timers, Events!TimeoutAsked
    <3>2. Control'
      BY <1>0, <1>1, <2>1, <2>2, <2>4 DEF Control, Cleaned
    <3>3. InUse' => InUse
      BY <2>1, <2>2 DEF InUse
    <3> QED BY <1>1, <2>1, <3>1, <3>2, <3>3, EventsQuiet DEF EventsInv
  <2> QED BY <2>1, <2>3, <2>4
<1>7. CASE Events!Return
  <2>1. /\ library = "return" /\ failure' = failure /\ isDisconnecting' = isDisconnecting
        /\ onConnect' = onConnect
        /\ touched' = (touched \/ (record.entered /\ record.destroyed))
    BY <1>7 DEF Events!Return, Events!flags
  <2>2. touched' = touched
    BY <1>0, <2>1 DEF Control, EventsFlags
  <2>3. CASE record.deleted
    <3>1. /\ record' = [record EXCEPT !.deleted = FALSE, !.destroyed = TRUE, !.entered = FALSE]
          /\ fired' = {} /\ library' = "loop"
      BY <1>7, <2>3 DEF Events!Return
    <3>2. /\ record' \in Records /\ record'.tv = record.tv /\ record'.entered = FALSE
          /\ record'.deleted = FALSE /\ record'.destroyed = TRUE /\ record'.added = record.added
      BY <1>0, <3>1 DEF EventsFlags, Records
    <3>3. Cleaned /\ Cleaned'
      BY <2>3, <3>2 DEF Cleaned
    <3>4. EventsFlags' /\ Timers'
      BY <1>0, <1>1, <2>1, <2>2, <3>1, <3>2 DEF EventsFlags, Timers, Events!TimeoutAsked
    <3>5. Control'
      BY <1>0, <1>1, <2>1, <2>2, <3>1, <3>2, <3>3 DEF Control
    <3>6. ~InUse'
      BY <3>3 DEF InUse
    <3> QED BY <1>1, <3>4, <3>5, <3>6, EventsQuiet DEF EventsInv
  <2>4. CASE ~record.deleted
    <3>1. /\ library' = (IF fired = {} THEN "loop" ELSE "handler") /\ fired' = fired
          /\ record' = [record EXCEPT !.entered = (fired # {})]
      BY <1>7, <2>4 DEF Events!Return
    <3>2. /\ record' \in Records /\ record'.tv = record.tv /\ record'.entered = (fired # {})
          /\ record'.deleted = record.deleted /\ record'.destroyed = record.destroyed
          /\ record'.added = record.added
      BY <1>0, <3>1 DEF EventsFlags, Records
    <3>3. EventsFlags' /\ Timers'
      BY <1>0, <1>1, <2>1, <2>2, <3>1, <3>2 DEF EventsFlags, Timers, Events!TimeoutAsked
    <3>4. Cleaned' = Cleaned
      BY <3>2 DEF Cleaned
    <3>5. Control'
      BY <1>0, <1>1, <2>1, <2>2, <2>4, <3>1, <3>2, <3>4 DEF Control, Cleaned
    <3>6. InUse' => InUse
      BY <2>1, <3>4 DEF InUse
    <3> QED BY <1>1, <2>1, <3>3, <3>5, <3>6, EventsQuiet DEF EventsInv
  <2> QED BY <2>3, <2>4
<1> QED BY <1>2, <1>4, <1>5, <1>6, <1>7

\* The server answers, and it or the network ends the connection.
LEMMA EventsPeer ==
  ASSUME EventsInv, Events!Establish \/ Events!Answer \/ Events!ServerCloses
  PROVE  EventsInv'
<1>0. EventsFlags /\ EventsQueues /\ CallsInOrder /\ Control /\ Timers
  BY DEF EventsInv
<1>1. /\ options' = options /\ unwritten' = unwritten /\ reader' = reader
      /\ waiting' = waiting /\ isConnected' = isConnected
      /\ isDisconnecting' = isDisconnecting /\ isFreeing' = isFreeing
      /\ failure' = failure /\ isFreed' = isFreed /\ record' = record
      /\ library' = library /\ fired' = fired /\ issued' = issued
      /\ callbacks' = callbacks /\ onConnect' = onConnect
      /\ onDisconnect' = onDisconnect /\ touched' = touched
  BY DEF Events!Establish, Events!Answer, Events!ServerCloses, Events!flags, Events!history
<1>2. CallsInOrder' /\ Control' /\ Timers'
  <2>1. CallsInOrder' /\ Control'
    BY <1>0, <1>1 DEF CallsInOrder, Control, Cleaned
  <2>2. isConnected => peerState' \in {"open", "closed"}
    BY <1>0 DEF Timers, Events!Establish, Events!Answer, Events!ServerCloses
  <2>3. Timers'
    BY <1>0, <1>1, <2>2 DEF Timers, Events!TimeoutAsked
  <2> QED BY <2>1, <2>3
<1>3. InUse' = InUse
  BY <1>1 DEF InUse, Cleaned
<1>4. CASE Events!Establish
  <2>1. /\ peerState = "connecting" /\ peerState' \in {"open", "refused"}
        /\ toServer' = toServer /\ toClient' = toClient
    BY <1>4 DEF Events!Establish
  <2>2. EventsFlags' /\ EventsQueues'
    BY <1>0, <1>1, <2>1 DEF EventsFlags, EventsQueues
  <2>3. ASSUME NEW e \in Nat, NEW b \in Nat, NEW d \in Nat, EventsTraffic(e, b, d)
        PROVE  EventsTraffic(e, b, d)'
    BY <1>1, <2>1, <2>3 DEF EventsTraffic
  <2> QED BY <1>2, <1>3, <2>2, <2>3 DEF EventsInv
<1>5. CASE Events!Answer
  <2>1. /\ peerState = "open" /\ toServer # <<>> /\ peerState' = peerState
        /\ toClient' = Append(toClient, Head(toServer)) /\ toServer' = Tail(toServer)
    BY <1>5 DEF Events!Answer
  <2>2. EventsFlags'
    BY <1>0, <1>1, <2>1 DEF EventsFlags
  <2>3. EventsQueues'
    <3>1. toServer' \in Seq(1..MaxCommands) /\ Head(toServer) \in 1..MaxCommands
      BY <1>0, <2>1, HeadTailProperties DEF EventsQueues
    <3>2. toClient' \in Seq(1..MaxCommands)
      BY <1>0, <2>1, <3>1, AppendProperties DEF EventsQueues
    <3> QED BY <1>0, <1>1, <3>1, <3>2 DEF EventsQueues
  <2>4. ASSUME NEW e \in Nat, NEW b \in Nat, NEW d \in Nat, EventsTraffic(e, b, d)
        PROVE  \E f \in Nat : EventsTraffic(e, f, d)'
    <3>1. /\ e <= b /\ b <= d /\ toClient = Run(e, b) /\ toServer = Run(b, d)
      BY <2>1, <2>4 DEF EventsTraffic
    <3>2. /\ b < d /\ b + 1 \in Nat /\ b + 1 <= d /\ Head(toServer) = b + 1
          /\ toServer' = Run(b + 1, d)
      BY ONLY <2>1, <3>1, b \in Nat, d \in Nat, RunTail
    <3>3. toClient' = Run(e, b + 1)
      BY ONLY <2>1, <3>1, <3>2, b \in Nat, e \in Nat, RunNext
    <3> PICK f \in Nat : f = b + 1
      BY <3>2
    <3>4. e <= f /\ f <= d /\ toClient' = Run(e, f) /\ toServer' = Run(f, d)
      BY <3>1, <3>2, <3>3
    <3> QED BY <1>1, <2>1, <2>4, <3>4 DEF EventsTraffic
  <2> QED BY <1>2, <1>3, <2>2, <2>3, <2>4 DEF EventsInv
<1>6. CASE Events!ServerCloses
  <2>1. peerState' = "closed" /\ toServer' = <<>> /\ toClient' = toClient
    BY <1>6 DEF Events!ServerCloses
  <2>2. EventsFlags' /\ EventsQueues'
    BY <1>0, <1>1, <2>1 DEF EventsFlags, EventsQueues
  <2>3. ASSUME NEW e \in Nat, NEW b \in Nat, NEW d \in Nat, EventsTraffic(e, b, d)
        PROVE  EventsTraffic(e, b, d)'
    BY <1>1, <2>1, <2>3 DEF EventsTraffic
  <2> QED BY <1>2, <1>3, <2>2, <2>3 DEF EventsInv
<1> QED BY <1>4, <1>5, <1>6

\* A callback calls the library.
LEMMA EventsCallback ==
  ASSUME EventsInv, NEW what, NEW reply \in {0, Len(callbacks) + 1}, waiting # <<>>,
         Events!RunCallback(what, reply)
  PROVE  /\ CallsInOrder' /\ waiting' \in Seq(1..MaxCommands) /\ issued' \in 0..MaxCommands
         /\ unwritten' \in Seq(1..MaxCommands)
         /\ callbacks' \in Seq((1..MaxCommands) \X (0..MaxCommands))
         /\ Len(callbacks') = Len(callbacks) + 1 /\ Len(callbacks) < issued
         /\ Taken(Tail(waiting)) \/ NotTaken(Tail(waiting))
         /\ Refreshed(record, record')
         /\ what # "command" => NotTaken(Tail(waiting))
         /\ isDisconnecting' = (isDisconnecting \/ what = "disconnect")
         /\ isFreeing' = (isFreeing \/ what = "free")
         /\ options' \in [connect : BOOLEAN, command : BOOLEAN, keep : BOOLEAN]
         /\ options'.connect = options.connect /\ options'.command = options.command
<1>0. EventsFlags /\ EventsQueues /\ CallsInOrder
  BY DEF EventsInv
<1>1. /\ Events!Does(what, Tail(waiting), record)
      /\ callbacks' = Append(callbacks, <<Head(waiting), reply>>)
  BY DEF Events!RunCallback
<1>2. /\ Taken(Tail(waiting)) \/ NotTaken(Tail(waiting))
      /\ Refreshed(record, record')
      /\ what # "command" => NotTaken(Tail(waiting))
      /\ isDisconnecting' = (isDisconnecting \/ what = "disconnect")
      /\ isFreeing' = (isFreeing \/ what = "free")
      /\ options' \in [connect : BOOLEAN, command : BOOLEAN, keep : BOOLEAN]
      /\ options'.connect = options.connect /\ options'.command = options.command
  BY <1>0, <1>1, DoesEffect
<1> QED BY <1>0, <1>1, <1>2, CallsRun

\* The callbacks without a reply, of a timeout and of the end.
LEMMA EventsNoReply ==
  ASSUME EventsInv, NEW what, Events!Expire(what) \/ Events!FreePending(what)
  PROVE  EventsInv'
<1>0. EventsFlags /\ EventsQueues /\ CallsInOrder /\ Control /\ Timers
  BY DEF EventsInv
<1>1. /\ library \in {"expire", "free"} /\ waiting # <<>>
      /\ library = "free" => what # "command"
      /\ Events!RunCallback(what, 0)
      /\ peerState' = peerState /\ toServer' = toServer /\ toClient' = toClient
      /\ reader' = reader /\ isConnected' = isConnected /\ failure' = failure
      /\ isFreed' = isFreed /\ library' = library /\ fired' = fired
      /\ onConnect' = onConnect /\ onDisconnect' = onDisconnect /\ touched' = touched
  BY DEF Events!Expire, Events!FreePending, Events!peer, Events!history, Events!NoReply
<1>2. /\ CallsInOrder' /\ waiting' \in Seq(1..MaxCommands) /\ issued' \in 0..MaxCommands
      /\ unwritten' \in Seq(1..MaxCommands)
      /\ callbacks' \in Seq((1..MaxCommands) \X (0..MaxCommands))
      /\ Taken(Tail(waiting)) \/ NotTaken(Tail(waiting))
      /\ Refreshed(record, record')
      /\ what # "command" => NotTaken(Tail(waiting))
      /\ isDisconnecting' = (isDisconnecting \/ what = "disconnect")
      /\ isFreeing' = (isFreeing \/ what = "free")
      /\ options' \in [connect : BOOLEAN, command : BOOLEAN, keep : BOOLEAN]
      /\ options'.connect = options.connect /\ options'.command = options.command
  BY <1>1, EventsCallback
<1>3. EventsFlags'
  BY <1>0, <1>1, <1>2 DEF EventsFlags, Refreshed
<1>4. EventsQueues'
  BY <1>0, <1>1, <1>2 DEF EventsQueues
<1>5. Timers'
  BY <1>0, <1>1, <1>2 DEF Timers, Refreshed, Events!TimeoutAsked
<1>6. Control'
  <2>1. CASE library = "expire"
    <3>1. ~Cleaned /\ ~Cleaned'
      BY <1>0, <1>2, <2>1 DEF Control, Cleaned, Refreshed
    <3> QED BY <1>0, <1>1, <1>2, <2>1, <3>1 DEF Control, Refreshed
  <2>2. CASE library = "free"
    <3>1. record' = record
      BY <1>1, <1>2, <2>2 DEF NotTaken
    <3> QED BY <1>0, <1>1, <1>2, <2>2, <3>1 DEF Control, Cleaned
  <2> QED BY <1>1, <2>1, <2>2
<1>7. ~InUse'
  BY <1>1 DEF InUse
<1> QED BY <1>2, <1>3, <1>4, <1>5, <1>6, <1>7 DEF EventsInv

\* The callback of a reply, which is the one to the first pending command.
LEMMA EventsReply ==
  ASSUME EventsInv, NEW what, Events!ProcessReply(what)
  PROVE  EventsInv'
<1>0. EventsFlags /\ EventsQueues /\ CallsInOrder /\ Control /\ Timers
  BY DEF EventsInv
<1>1. /\ library = "replies" /\ reader # <<>> /\ reader' = Tail(reader)
      /\ Events!RunCallback(what, Head(reader))
      /\ library' = (IF isFreeing' THEN "free" ELSE "replies")
      /\ peerState' = peerState /\ toServer' = toServer /\ toClient' = toClient
      /\ isConnected' = isConnected /\ failure' = failure
      /\ isFreed' = isFreed /\ fired' = fired
      /\ onConnect' = onConnect /\ onDisconnect' = onDisconnect /\ touched' = touched
  BY DEF Events!ProcessReply, Events!peer, Events!history
<1>2. /\ record.entered /\ ~Cleaned /\ ~isFreed /\ ~isFreeing /\ failure = "none" /\ ~touched
  BY <1>0, <1>1 DEF Control
<1> PICK e \in Nat, b \in Nat, d \in Nat : EventsTraffic(e, b, d)
  BY <1>1, <1>2 DEF EventsInv, InUse
<1> PICK a \in Nat, n \in Nat : a = Len(callbacks) /\ n = issued
  BY <1>0, EventsAssumption, LenProperties DEF EventsQueues
<1>3. /\ a <= e /\ e <= b /\ b <= d /\ d <= n /\ reader = Run(a, e)
      /\ unwritten = Run(d, n) /\ waiting = Run(a, n) /\ toClient = Run(e, b)
      /\ peerState \in {"connecting", "open"} => toServer = Run(b, d)
  BY <1>0 DEF EventsTraffic, CallsInOrder
<1>4. /\ a < e /\ a + 1 \in Nat /\ a + 1 <= e /\ Head(reader) = a + 1
      /\ reader' = Run(a + 1, e)
  BY ONLY <1>1, <1>3, a \in Nat, e \in Nat, RunTail
<1>5. waiting # <<>>
  <2>1. Len(waiting) = n - a /\ n - a > 0
    <3>1. a <= n /\ a < n
      BY <1>3, <1>4
    <3>2. Len(Run(a, n)) = n - a
      BY <3>1, RunProperties
    <3> QED BY <1>3, <3>1, <3>2
  <2> QED BY <2>1
<1>6. /\ CallsInOrder' /\ waiting' \in Seq(1..MaxCommands) /\ issued' \in 0..MaxCommands
      /\ unwritten' \in Seq(1..MaxCommands)
      /\ callbacks' \in Seq((1..MaxCommands) \X (0..MaxCommands))
      /\ Len(callbacks') = a + 1
      /\ Taken(Tail(waiting)) \/ NotTaken(Tail(waiting))
      /\ Refreshed(record, record')
      /\ isDisconnecting' = (isDisconnecting \/ what = "disconnect")
      /\ isFreeing' = (isFreeing \/ what = "free")
      /\ options' \in [connect : BOOLEAN, command : BOOLEAN, keep : BOOLEAN]
      /\ options'.connect = options.connect /\ options'.command = options.command
  BY <1>1, <1>4, <1>5, EventsCallback
<1>7. EventsFlags'
  BY <1>0, <1>1, <1>6 DEF EventsFlags, Refreshed
<1>8. EventsQueues'
  <2>1. reader' \in Seq(1..MaxCommands)
    BY <1>0, <1>1, HeadTailProperties DEF EventsQueues
  <2> QED BY <1>0, <1>1, <1>6, <2>1 DEF EventsQueues
<1>9. Timers'
  BY <1>0, <1>1, <1>6 DEF Timers, Refreshed, Events!TimeoutAsked
<1>10. Control'
  <2>1. ~Cleaned' /\ record'.entered /\ ~record'.destroyed
    BY <1>2, <1>6 DEF Cleaned, Refreshed
  <2> QED BY <1>1, <1>2, <1>6, <2>1 DEF Control
<1>11. InUse' => EventsTraffic(e, b, d)'
  <2> SUFFICES ASSUME InUse' PROVE EventsTraffic(e, b, d)'
    OBVIOUS
  <2>1. library' = "replies"
    BY <1>1 DEF InUse
  <2>2. unwritten' = Run(d, issued') /\ d <= issued'
    <3>1. CASE Taken(Tail(waiting))
      <4>1. unwritten' = Append(unwritten, n + 1) /\ issued' = n + 1
        BY <3>1 DEF Taken
      <4>2. unwritten' = Run(d, n + 1) /\ d <= n + 1
        BY ONLY <1>3, <4>1, d \in Nat, n \in Nat, RunNext
      <4> QED BY <4>1, <4>2
    <3>2. CASE NotTaken(Tail(waiting))
      BY <1>3, <3>2 DEF NotTaken
    <3> QED BY <1>6, <3>1, <3>2
  <2> QED BY <1>1, <1>3, <1>4, <1>6, <2>1, <2>2 DEF EventsTraffic
<1> QED BY <1>6, <1>7, <1>8, <1>9, <1>10, <1>11 DEF EventsInv

\* The connect callback of a connection that is there.
LEMMA EventsConnected ==
  ASSUME EventsInv, NEW what, Events!Connected(what)
  PROVE  EventsInv'
<1>0. EventsFlags /\ EventsQueues /\ CallsInOrder /\ Control /\ Timers
  BY DEF EventsInv
<1>1. /\ library = "handler" /\ fired \intersect {"read", "write"} # {}
      /\ ~isConnected /\ peerState \in {"open", "closed"}
      /\ onConnect' = "ok" /\ isConnected' = TRUE
      /\ Events!Does(what, waiting, record)
      /\ \/ what # "free" /\ library' = "handler" /\ touched' = touched
         \/ library' = "over" /\ touched' = TRUE
      /\ peerState' = peerState /\ toServer' = toServer /\ toClient' = toClient
      /\ reader' = reader /\ failure' = failure /\ isFreed' = isFreed
      /\ fired' = fired /\ callbacks' = callbacks /\ onDisconnect' = onDisconnect
  <2>1. CASE Events!FreesItself(what)
    BY <2>1 DEF Events!Connected, Events!Handling, Events!peer
  <2>2. CASE ~Events!FreesItself(what)
    <3>1. touched' = touched
      BY <1>0, <2>2 DEF Events!Connected, EventsFlags
    <3> QED BY <2>2, <3>1 DEF Events!Connected, Events!Handling, Events!peer,
                              Events!FreesItself
  <2> QED BY <2>1, <2>2
<1>2. /\ Taken(waiting) \/ NotTaken(waiting)
      /\ Refreshed(record, record')
      /\ isDisconnecting' = (isDisconnecting \/ what = "disconnect")
      /\ isFreeing' = (isFreeing \/ what = "free")
      /\ options' \in [connect : BOOLEAN, command : BOOLEAN, keep : BOOLEAN]
      /\ options'.connect = options.connect /\ options'.command = options.command
  BY <1>0, <1>1, DoesEffect
<1>3. /\ record.entered /\ ~Cleaned /\ ~isFreed /\ ~isFreeing /\ failure = "none" /\ ~touched
      /\ fired # {}
  BY <1>0, <1>1 DEF Control
<1>4. ~Cleaned' /\ record'.entered
  BY <1>2, <1>3 DEF Cleaned, Refreshed
<1>5. EventsFlags'
  BY <1>0, <1>1, <1>2 DEF EventsFlags, Refreshed
<1>6. CallsInOrder' /\ EventsQueues'
  <2>1. CASE Taken(waiting)
    BY <1>0, <1>1, <2>1, CallsTake DEF EventsQueues
  <2>2. CASE NotTaken(waiting)
    BY <1>0, <1>1, <2>2 DEF EventsQueues, CallsInOrder, NotTaken
  <2> QED BY <1>2, <2>1, <2>2
<1>7. Control'
  <2>1. CASE library' = "over"
    BY <1>1, <1>3, <2>1 DEF Control
  <2>2. CASE what # "free" /\ library' = "handler" /\ touched' = touched
    BY <1>1, <1>2, <1>3, <1>4, <2>2 DEF Control
  <2> QED BY <1>1, <2>1, <2>2
<1>8. Timers'
  <2>1. "timeout" \notin fired
    BY <1>0, <1>1 DEF Timers
  <2>2. onDisconnect = "none"
    BY <1>0, <1>3 DEF Timers
  <2> QED BY <1>0, <1>1, <1>2, <1>3, <2>1, <2>2 DEF Timers, Refreshed, Events!TimeoutAsked
<1>9. InUse' => \E e, b, d \in Nat : EventsTraffic(e, b, d)'
  <2> SUFFICES ASSUME InUse' PROVE \E e, b, d \in Nat : EventsTraffic(e, b, d)'
    OBVIOUS
  <2>1. PICK e \in Nat, b \in Nat, d \in Nat : EventsTraffic(e, b, d)
    BY <1>1, <1>3 DEF EventsInv, InUse
  <2>2. reader = <<>>
    BY <1>1, <2>1 DEF EventsTraffic
  <2>3. EventsTraffic(e, b, d)'
    BY <1>0, <1>1, <1>2, <2>1, <2>2, TrafficTake
  <2> QED BY <2>3
<1> QED BY <1>5, <1>6, <1>7, <1>8, <1>9 DEF EventsInv

\* The connect callback of an attempt that failed: what it asks for is not written.
LEMMA EventsConnectFailed ==
  ASSUME EventsInv, NEW what, Events!ConnectFailed(what)
  PROVE  EventsInv'
<1>0. EventsFlags /\ EventsQueues /\ CallsInOrder /\ Control /\ Timers
  BY DEF EventsInv
<1> DEFINE takes == what = "command" /\ issued < MaxCommands /\ ~isDisconnecting
<1>1. /\ library = "handler" /\ fired \intersect {"read", "write"} # {} /\ ~isConnected
      /\ onConnect' = "error" /\ fired' = {} /\ failure' = "io"
      /\ waiting' = (IF takes THEN Append(waiting, issued + 1) ELSE waiting)
      /\ issued' = (IF takes THEN issued + 1 ELSE issued)
      /\ isDisconnecting' = TRUE /\ record' = Events!Cleanup(record)
      /\ library' = (IF options.keep THEN "return" ELSE "free")
      /\ options' = options /\ unwritten' = unwritten /\ isFreeing' = isFreeing
      /\ peerState' = peerState /\ toServer' = toServer /\ toClient' = toClient
      /\ reader' = reader /\ isConnected' = isConnected /\ isFreed' = isFreed
      /\ callbacks' = callbacks /\ onDisconnect' = onDisconnect /\ touched' = touched
  BY DEF Events!ConnectFailed, Events!Handling, Events!peer
<1> HIDE DEF takes
<1>2. /\ record.entered = TRUE /\ ~Cleaned /\ ~isFreed /\ ~isFreeing /\ ~touched
      /\ record \in Records
  BY <1>0, <1>1 DEF Control, EventsFlags, Records
<1>3. /\ record' \in Records /\ record'.tv = record.tv /\ record'.entered = TRUE
      /\ record'.deleted = TRUE /\ record'.destroyed = FALSE /\ record'.added = FALSE
  BY <1>1, <1>2, CleanupEffect DEF Cleaned
<1>4. EventsFlags'
  BY <1>0, <1>1, <1>3 DEF EventsFlags
<1>5. /\ CallsInOrder' /\ waiting' \in Seq(1..MaxCommands) /\ issued' \in 0..MaxCommands
  <2>1. CASE takes
    <3> PICK a \in Nat, n \in Nat : a = Len(callbacks) /\ n = issued
      BY <1>0, EventsAssumption, LenProperties DEF EventsQueues
    <3>1. /\ n < MaxCommands /\ MaxCommands \in Nat /\ a <= n /\ waiting = Run(a, n)
          /\ waiting' = Append(waiting, n + 1) /\ issued' = n + 1
          /\ n + 1 \in 1..MaxCommands
      BY <1>0, <1>1, <2>1, EventsAssumption DEF CallsInOrder, takes
    <3>2. waiting' = Run(a, n + 1)
      BY ONLY <3>1, a \in Nat, n \in Nat, RunNext
    <3>3. waiting' \in Seq(1..MaxCommands)
      BY <1>0, <3>1, AppendProperties DEF EventsQueues
    <3> PICK m \in Nat : m = n + 1
      OBVIOUS
    <3>4. a <= m /\ issued' = m /\ waiting' = Run(a, m) /\ m \in 0..MaxCommands
      BY <3>1, <3>2
    <3> QED BY <1>0, <1>1, <3>3, <3>4 DEF CallsInOrder
  <2>2. CASE ~takes
    BY <1>0, <1>1, <2>2 DEF CallsInOrder, EventsQueues
  <2> QED BY <2>1, <2>2
<1>6. EventsQueues'
  BY <1>0, <1>1, <1>5 DEF EventsQueues
<1>7. Timers'
  BY <1>0, <1>1, <1>2, <1>3 DEF Timers, Events!TimeoutAsked
<1>8. Cleaned'
  BY <1>3 DEF Cleaned
<1>9. Control'
  BY <1>1, <1>2, <1>3, <1>8 DEF Control
<1>10. ~InUse'
  BY <1>8 DEF InUse
<1> QED BY <1>4, <1>5, <1>6, <1>7, <1>9, <1>10 DEF EventsInv

\* The replies that are read.
LEMMA EventsRead ==
  ASSUME EventsInv, NEW k, Events!HandleRead(k)
  PROVE  EventsInv'
<1>0. EventsFlags /\ EventsQueues /\ CallsInOrder /\ Control /\ Timers
  BY DEF EventsInv
<1>1. /\ library = "handler" /\ library' = "replies"
      /\ isConnected /\ "read" \in fired /\ fired' = fired \ {"read"} /\ k \in 1..Len(toClient)
      /\ reader' = SubSeq(toClient, 1, k)
      /\ toClient' = SubSeq(toClient, k + 1, Len(toClient))
      /\ record' = Events!AddRead(record) /\ options' = options
      /\ peerState' = peerState /\ toServer' = toServer /\ unwritten' = unwritten
      /\ waiting' = waiting /\ isConnected' = isConnected
      /\ isDisconnecting' = isDisconnecting /\ isFreeing' = isFreeing
      /\ failure' = failure /\ isFreed' = isFreed /\ issued' = issued
      /\ callbacks' = callbacks /\ onConnect' = onConnect
      /\ onDisconnect' = onDisconnect /\ touched' = touched
  BY DEF Events!HandleRead, Events!Handling, Events!flags, Events!history
<1>2. /\ record.entered /\ ~Cleaned /\ ~isFreed /\ ~isFreeing /\ failure = "none" /\ ~touched
      /\ record \in Records
  BY <1>0, <1>1 DEF Control, EventsFlags
<1>3. Refreshed(record, record')
  BY <1>1, <1>2, AddEffect
<1>4. ~Cleaned' /\ record'.entered
  BY <1>2, <1>3 DEF Cleaned, Refreshed
<1>5. EventsFlags'
  BY <1>0, <1>1, <1>3 DEF EventsFlags, Refreshed
<1> PICK e \in Nat, b \in Nat, d \in Nat : EventsTraffic(e, b, d)
  BY <1>1, <1>2 DEF EventsInv, InUse
<1> PICK a \in Nat, n \in Nat : a = Len(callbacks) /\ n = issued
  BY <1>0, EventsAssumption, LenProperties DEF EventsQueues
<1>6. /\ a <= e /\ e <= b /\ b <= d /\ d <= n /\ reader = Run(a, e) /\ reader = <<>>
      /\ toClient = Run(e, b) /\ n <= MaxCommands /\ MaxCommands \in Nat
  BY <1>0, <1>1, EventsAssumption DEF EventsTraffic, EventsQueues
<1>7. a = e
  <2>1. a <= e /\ Run(a, e) = <<>>
    BY <1>6
  <2>2. Len(Run(a, e)) = e - a
    BY <2>1, RunProperties
  <2> QED BY <2>1, <2>2
<1>8. /\ e + k \in Nat /\ e + k <= b /\ reader' = Run(e, e + k) /\ toClient' = Run(e + k, b)
  <2>1. e <= b /\ k \in 0 .. Len(Run(e, b))
    BY <1>1, <1>6
  <2> QED BY ONLY <1>1, <1>6, <2>1, e \in Nat, b \in Nat, RunSplit
<1> PICK f \in Nat : f = e + k
  BY <1>8
<1>9. /\ f <= b /\ e <= f /\ reader' = Run(a, f) /\ toClient' = Run(f, b)
      /\ a <= f /\ f <= MaxCommands /\ b <= MaxCommands
  BY <1>1, <1>6, <1>7, <1>8
<1>10. EventsQueues'
  <2>1. reader' \in Seq(1..MaxCommands) /\ toClient' \in Seq(1..MaxCommands)
    BY <1>6, <1>9, RunUpTo
  <2> QED BY <1>0, <1>1, <2>1 DEF EventsQueues
<1>11. CallsInOrder'
  BY <1>0, <1>1 DEF CallsInOrder
<1>12. Timers'
  BY <1>0, <1>1, <1>3 DEF Timers, Refreshed, Events!TimeoutAsked
<1>13. Control'
  BY <1>1, <1>2, <1>4 DEF Control
<1>14. EventsTraffic(f, b, d)'
  BY <1>1, <1>6, <1>9 DEF EventsTraffic
<1> QED BY <1>5, <1>10, <1>11, <1>12, <1>13, <1>14 DEF EventsInv

\* The commands that are written, to a server that may be gone.
LEMMA EventsWrite ==
  ASSUME EventsInv, NEW k, Events!HandleWrite(k)
  PROVE  EventsInv'
<1>0. EventsFlags /\ EventsQueues /\ CallsInOrder /\ Control /\ Timers
  BY DEF EventsInv
<1>1. /\ library = "handler" /\ library' = "return"
      /\ isConnected /\ "write" \in fired /\ fired' = fired \ {"write"}
      /\ k \in 0..Len(unwritten)
      /\ unwritten' = SubSeq(unwritten, k + 1, Len(unwritten))
      /\ toServer' = (IF peerState = "open" THEN toServer \o SubSeq(unwritten, 1, k)
                      ELSE toServer)
      /\ \/ record' = Events!AddRead(Events!Updated(record, "write", TRUE))
         \/ record' = Events!AddRead(Events!AddWrite(record))
      /\ options' = options
      /\ peerState' = peerState /\ toClient' = toClient /\ reader' = reader
      /\ waiting' = waiting /\ isConnected' = isConnected
      /\ isDisconnecting' = isDisconnecting /\ isFreeing' = isFreeing
      /\ failure' = failure /\ isFreed' = isFreed /\ issued' = issued
      /\ callbacks' = callbacks /\ onConnect' = onConnect
      /\ onDisconnect' = onDisconnect /\ touched' = touched
  BY DEF Events!HandleWrite, Events!Handling, Events!flags, Events!history
<1>2. /\ record.entered /\ ~Cleaned /\ ~isFreed /\ ~isFreeing /\ failure = "none" /\ ~touched
      /\ record \in Records
  BY <1>0, <1>1 DEF Control, EventsFlags
<1>3. Refreshed(record, record')
  <2>1. CASE record' = Events!AddRead(Events!Updated(record, "write", TRUE))
    <3> PICK u : u = Events!Updated(record, "write", TRUE)
      OBVIOUS
    <3>1. /\ u \in Records /\ u.entered = record.entered /\ u.deleted = record.deleted
          /\ u.destroyed = record.destroyed /\ u.tv = record.tv
      BY <1>2, UpdatedEffect
    <3>2. Refreshed(u, record')
      BY <2>1, <3>1, AddEffect
    <3> QED BY <3>1, <3>2 DEF Refreshed
  <2>2. CASE record' = Events!AddRead(Events!AddWrite(record))
    <3> PICK u : u = Events!AddWrite(record)
      OBVIOUS
    <3>1. Refreshed(record, u) /\ u \in Records
      BY <1>2, AddEffect DEF Refreshed
    <3>2. Refreshed(u, record')
      BY <2>2, <3>1, AddEffect
    <3> QED BY <3>1, <3>2 DEF Refreshed
  <2> QED BY <1>1, <2>1, <2>2
<1>4. ~Cleaned' /\ record'.entered /\ ~record'.destroyed
  BY <1>2, <1>3 DEF Cleaned, Refreshed
<1>5. EventsFlags'
  BY <1>0, <1>1, <1>3 DEF EventsFlags, Refreshed
<1> PICK e \in Nat, b \in Nat, d \in Nat : EventsTraffic(e, b, d)
  BY <1>1, <1>2 DEF EventsInv, InUse
<1> PICK n \in Nat : n = issued
  BY <1>0, EventsAssumption DEF EventsQueues
<1>6. /\ e <= b /\ b <= d /\ d <= n /\ unwritten = Run(d, n) /\ reader = <<>>
      /\ peerState = "open" => toServer = Run(b, d)
      /\ n <= MaxCommands /\ MaxCommands \in Nat
  BY <1>0, <1>1, EventsAssumption DEF EventsTraffic, EventsQueues
<1>7. /\ d + k \in Nat /\ d + k <= n /\ SubSeq(unwritten, 1, k) = Run(d, d + k)
      /\ unwritten' = Run(d + k, n)
  <2>1. d <= n /\ k \in 0 .. Len(Run(d, n))
    BY <1>1, <1>6
  <2> QED BY ONLY <1>1, <1>6, <2>1, d \in Nat, n \in Nat, RunSplit
<1> PICK f \in Nat : f = d + k
  BY <1>7
<1>8. /\ d <= f /\ b <= f /\ f <= n /\ f <= MaxCommands /\ unwritten' = Run(f, n)
      /\ SubSeq(unwritten, 1, k) = Run(d, f)
  BY <1>1, <1>6, <1>7
<1>9. peerState = "open" => toServer' = Run(b, f)
  <2>1. Run(b, d) \o Run(d, f) = Run(b, f)
    BY <1>6, <1>8, RunConcat
  <2> QED BY <1>1, <1>6, <1>8, <2>1
<1>10. EventsQueues'
  <2>1. Run(b, f) \in Seq(1..MaxCommands) /\ unwritten' \in Seq(1..MaxCommands)
    BY <1>6, <1>8, RunUpTo
  <2>2. toServer' \in Seq(1..MaxCommands)
    BY <1>0, <1>1, <1>9, <2>1 DEF EventsQueues
  <2> QED BY <1>0, <1>1, <2>1, <2>2 DEF EventsQueues
<1>11. CallsInOrder'
  BY <1>0, <1>1 DEF CallsInOrder
<1>12. Timers'
  BY <1>0, <1>1, <1>3 DEF Timers, Refreshed, Events!TimeoutAsked
<1>13. Control'
  BY <1>1, <1>2, <1>4 DEF Control
<1>14. EventsTraffic(e, b, f)'
  <2>1. peerState # "connecting"
    BY <1>0, <1>1 DEF Timers
  <2>2. /\ Len(callbacks) <= e /\ reader = Run(Len(callbacks), e) /\ toClient = Run(e, b)
    BY DEF EventsTraffic
  <2> QED BY <1>1, <1>6, <1>8, <1>9, <2>1, <2>2 DEF EventsTraffic
<1> QED BY <1>5, <1>10, <1>11, <1>12, <1>13, <1>14 DEF EventsInv

\* The end of the context.
LEMMA EventsFree ==
  ASSUME EventsInv, Events!FreeContext
  PROVE  EventsInv'
<1>0. EventsFlags /\ EventsQueues /\ CallsInOrder /\ Control /\ Timers
  BY DEF EventsInv
<1>1. /\ library = "free" /\ library' = "return" /\ waiting = <<>>
      /\ record' = Events!Cleanup(record)
      /\ onDisconnect' = (IF ~isConnected THEN onDisconnect
                          ELSE IF isFreeing \/ failure = "none" THEN "ok" ELSE "error")
      /\ isFreed' = TRUE /\ unwritten' = <<>> /\ reader' = <<>> /\ options' = options
      /\ peerState' = peerState /\ toServer' = toServer /\ toClient' = toClient
      /\ waiting' = waiting /\ isConnected' = isConnected
      /\ isDisconnecting' = isDisconnecting /\ isFreeing' = isFreeing
      /\ failure' = failure /\ fired' = fired /\ issued' = issued
      /\ callbacks' = callbacks /\ onConnect' = onConnect /\ touched' = touched
  BY DEF Events!FreeContext, Events!peer, Events!flags
<1>2. /\ record \in Records /\ ~isFreed /\ (isFreeing \/ Cleaned) /\ ~touched
      /\ IF record.entered THEN ~record.destroyed ELSE fired = {} /\ ~record.deleted
  BY <1>0, <1>1 DEF Control, EventsFlags
<1>3. /\ record' \in Records /\ record'.tv = record.tv /\ record'.entered = record.entered
      /\ Cleaned' /\ ~record'.added /\ (isDisconnecting \/ isFreeing)
      /\ IF record.entered THEN ~record'.destroyed ELSE ~record'.deleted
  <2>1. CASE Cleaned
    <3>1. record' = record
      BY <1>1, <1>2, <2>1, CleanupEffect DEF Cleaned
    <3> QED BY <1>0, <1>1, <1>2, <2>1, <3>1 DEF Control, Cleaned
  <2>2. CASE ~Cleaned
    <3>1. /\ record' \in Records /\ record'.tv = record.tv
          /\ record'.entered = record.entered /\ record'.added = FALSE
          /\ record'.deleted = record.entered /\ record'.destroyed = ~record.entered
      BY <1>1, <1>2, <2>2, CleanupEffect DEF Cleaned
    <3>2. record.entered \in BOOLEAN
      BY <1>2 DEF Records
    <3> QED BY <1>2, <2>2, <3>1, <3>2 DEF Cleaned
  <2> QED BY <2>1, <2>2
<1>4. EventsFlags'
  BY <1>0, <1>1, <1>3 DEF EventsFlags
<1>5. EventsQueues' /\ CallsInOrder'
  BY <1>0, <1>1 DEF EventsQueues, CallsInOrder
<1>6. Timers'
  <2>1. (onDisconnect' # "none") = isConnected
    BY <1>0, <1>1, <1>2 DEF Timers, EventsFlags
  <2> QED BY <1>0, <1>1, <1>3, <2>1 DEF Timers, Events!TimeoutAsked
<1>7. Control'
  BY <1>1, <1>2, <1>3 DEF Control
<1>8. ~InUse'
  BY <1>3 DEF InUse
<1> QED BY <1>4, <1>5, <1>6, <1>7, <1>8 DEF EventsInv

LEMMA EventsStep == EventsInv /\ Events!Next => EventsInv'
<1> SUFFICES ASSUME EventsInv, Events!Next PROVE EventsInv'
  OBVIOUS
<1>1. CASE Events!Loop
  BY <1>1, EventsFire, EventsEnds, EventsFree, EventsConnected, EventsConnectFailed,
     EventsNoReply, EventsReply, EventsRead, EventsWrite DEF Events!Loop
<1>2. CASE ~Events!Loop
  BY <1>2, EventsCommand, EventsOutside, EventsPeer DEF Events!Next
<1> QED BY <1>1, <1>2

LEMMA EventsFrame == EventsInv /\ UNCHANGED eventsVars => EventsInv'
<1> SUFFICES ASSUME EventsInv, UNCHANGED eventsVars PROVE EventsInv'
  OBVIOUS
<1>0. EventsFlags /\ EventsQueues /\ CallsInOrder /\ Control /\ Timers
  BY DEF EventsInv
<1>1. /\ options' = options
      /\ peerState' = peerState /\ toServer' = toServer /\ toClient' = toClient
      /\ unwritten' = unwritten /\ reader' = reader /\ waiting' = waiting
      /\ isConnected' = isConnected /\ isDisconnecting' = isDisconnecting
      /\ isFreeing' = isFreeing /\ failure' = failure /\ isFreed' = isFreed
      /\ record' = record /\ library' = library /\ fired' = fired
      /\ issued' = issued /\ callbacks' = callbacks
      /\ onConnect' = onConnect /\ onDisconnect' = onDisconnect /\ touched' = touched
  BY DEF eventsVars
<1>2. EventsFlags' /\ Control' /\ Timers'
  BY <1>0, <1>1 DEF EventsFlags, Control, Cleaned, Timers, Events!TimeoutAsked
<1>3. InUse' => InUse
  BY <1>1 DEF InUse, Cleaned
<1> QED BY <1>1, <1>2, <1>3, EventsQuiet DEF EventsInv

LEMMA EventsSafe ==
  EventsInv => Events!CallbacksComplete /\ Events!NotUsedAfterFree /\ Events!TimeoutAsked
<1> SUFFICES ASSUME EventsInv
             PROVE  Events!CallbacksComplete /\ Events!NotUsedAfterFree /\ Events!TimeoutAsked
  OBVIOUS
<1>0. EventsFlags /\ EventsQueues /\ CallsInOrder /\ Control /\ Timers
  BY DEF EventsInv
<1>1. Events!TimeoutAsked
  BY <1>0 DEF Timers
<1>2. [i \in DOMAIN callbacks |-> callbacks[i][1]] \o waiting = [i \in 1..issued |-> i]
  <2> PICK a \in Nat, n \in Nat : a = Len(callbacks) /\ n = issued
    BY <1>0, EventsAssumption, LenProperties DEF EventsQueues
  <2>1. a <= n /\ waiting = Run(a, n) /\ DOMAIN callbacks = 1 .. a
    BY <1>0, LenProperties DEF CallsInOrder, EventsQueues
  <2>2. [i \in DOMAIN callbacks |-> callbacks[i][1]] = Run(0, a)
    <3>1. \A i \in 1 .. a : callbacks[i][1] = 0 + i
      BY <1>0, <2>1 DEF CallsInOrder
    <3>2. a - 0 = a
      OBVIOUS
    <3> QED BY <2>1, <3>1, <3>2 DEF Run
  <2>3. Run(0, n) = [i \in 1..n |-> i]
    <3>1. n - 0 = n /\ \A i \in 1 .. n : 0 + i = i
      OBVIOUS
    <3> QED BY <3>1 DEF Run
  <2>4. Run(0, a) \o Run(a, n) = Run(0, n)
    <3>1. 0 \in Nat /\ 0 <= a /\ a <= n
      BY <2>1
    <3> QED BY <3>1, RunConcat
  <2> QED BY <2>1, <2>2, <2>3, <2>4
<1>3. Events!CallbacksComplete
  <2>1. \A i \in DOMAIN callbacks : callbacks[i][2] \in {i, Events!NoReply}
    BY <1>0 DEF CallsInOrder, Events!NoReply
  <2>2. isFreed => waiting = <<>> /\ (onDisconnect # "none") = (onConnect = "ok")
    BY <1>0 DEF Control, Timers, EventsFlags
  <2>3. onDisconnect # "none" => isFreed
    BY <1>0 DEF Timers
  <2> QED BY <1>2, <2>1, <2>2, <2>3 DEF Events!CallbacksComplete
<1>4. Events!NotUsedAfterFree
  BY <1>0 DEF Control, Cleaned, Events!NotUsedAfterFree
<1> QED BY <1>1, <1>3, <1>4

-----------------------------------------------------------------------------
CONSTANTS
  \* CacheConn
  Names, MaxConnCalls, MaxClock, MaxValue

VARIABLES
  context, hasContext, m_last_connect_time, m_password, clock, commands, answers, late,
  up, authed, lets, data, step, name, got, call, runs, truth

connVars == <<context, hasContext, m_last_connect_time, m_password, clock, commands,
              answers, late, up, authed, lets, data, step, name, got, call, runs, truth>>

Conn == INSTANCE CacheConn WITH
  MaxCalls <- MaxConnCalls, m_pContext <- context, connected <- hasContext, sent <- commands

-----------------------------------------------------------------------------
(* One connection of the Redis pool (CachePool.cpp).                            *)

Commands == {"get", "set", "setex", "mget", "incr", "decr", "incrBy", "hdel", "hget",
             "hgetAll", "hset", "hincrBy", "hmset", "hmget", "lpush", "rpush", "llen",
             "lrange", "isExists", "del", "flushdb"}

\* CacheConn has a method for each command; some time passes.
ASSUME ConnAssumption == /\ Names \subseteq Commands
                         /\ MaxConnCalls \in Nat /\ MaxClock \in Nat \ {0} /\ MaxValue \in Nat

Requests == [name : Names \union {"part", "AUTH", "SELECT"}, call : Nat]
Replies == [type : {"none", "ERROR", "STATUS", "STRING", "NIL", "ARRAY", "INTEGER"}, n : Int]
Part == [name |-> "part", call |-> 0]

ConnTypes ==
  /\ clock \in 0..MaxClock /\ m_last_connect_time \in 0..clock
  /\ step \in {"out", "init", "AUTH", "SELECT", "command", "done"}
  /\ name \in Names \union {"none"} /\ call \in 0..MaxConnCalls
  /\ (step \in {"init", "AUTH", "SELECT", "command"} => name \in Names)
  /\ truth \in Replies /\ got \in Replies
ConnFlags == /\ hasContext \in BOOLEAN /\ m_password \in BOOLEAN /\ up \in BOOLEAN
             /\ authed \in BOOLEAN /\ lets \in BOOLEAN

\* The buffers.
Contexts == [err : BOOLEAN, obuf : Seq(Requests), reader : Seq(Replies)]
LateRequests == [name : Names, call : Nat]
ConnBuffers ==
  /\ context \in Contexts
  /\ commands \in Seq(Requests) /\ answers \in Seq(Replies)
  /\ late \in Seq(LateRequests) /\ runs \in Seq(Nat)

\* The value of the key: only a counter of its own type goes below zero.
DataKept == /\ data \in [type : {"nothing", "string", "hash", "list"}, n : -1..MaxValue]
            /\ (data.type # "string" => data.n >= 0)

\* The request of the call, and whether one is under way.
Busy == step \in {"AUTH", "SELECT", "command"}
Current == IF step = "command" THEN [name |-> name, call |-> call]
           ELSE [name |-> step, call |-> 0]

\* Where it is: in the output buffer, whole or written in part, on its way to the server,
\* answered, or lost with the connection.
Buffered == /\ context.obuf \in {<<Part, Current>>, <<Current>>} /\ commands = <<>>
            /\ answers = <<>> /\ context.reader = <<>>
Sent == /\ context.obuf = <<>> /\ commands = <<Current>> /\ answers = <<>>
        /\ context.reader = <<>>
AnsweredOnce == /\ context.obuf = <<>> /\ commands = <<>> /\ Len(answers) = 1
            /\ context.reader = <<>>
Arrived == /\ context.obuf = <<>> /\ commands = <<>> /\ answers = <<>>
           /\ Len(context.reader) = 1
Nowhere == /\ context.obuf = <<>> /\ commands = <<>> /\ answers = <<>>
           /\ context.reader = <<>>

Link ==
  /\ ~hasContext => context = Conn!NULL /\ ~up /\ answers = <<>> /\ ~Busy
  /\ context.err => ~up /\ answers = <<>> /\ context.reader = <<>>
  /\ ~up => commands = <<>>
  /\ Len(context.obuf) <= IF step = "command" THEN 4 ELSE 2
  /\ ~context.err =>
       IF Busy THEN Buffered \/ Sent \/ AnsweredOnce \/ Arrived \/ (Nowhere /\ ~up) ELSE Nowhere

\* The calls that the server has run or may still run: each once, and the call itself
\* only when its command has left.
Numbers ==
  /\ \A i \in DOMAIN runs : runs[i] \in 1..call
  /\ \A i \in DOMAIN late : late[i].call \in 1..call
  /\ \A i, j \in DOMAIN runs : i # j => runs[i] # runs[j]
  /\ \A i, j \in DOMAIN late : i # j => late[i].call # late[j].call
  /\ \A i \in DOMAIN runs, j \in DOMAIN late : runs[i] # late[j].call
Unserved == \/ step \in {"init", "AUTH", "SELECT"}
            \/ step = "command" /\ ~context.err /\ (context.obuf # <<>> \/ commands # <<>>)
Fresh == Unserved => /\ \A i \in DOMAIN runs : runs[i] < call
                     /\ \A i \in DOMAIN late : late[i].call < call
Begun == step \notin {"out", "done"} => call > 0

\* What a command can answer.
Shape(cmd, r) ==
  \/ r.type = "ERROR"
  \/ cmd \in {"set", "setex", "hmset", "flushdb"} /\ r.type = "STATUS"
  \/ cmd \in {"get", "hget"} /\ r.type \in {"STRING", "NIL"}
  \/ cmd \in {"mget", "hgetAll", "hmget", "lrange"} /\ r.type = "ARRAY"
  \/ cmd \in {"isExists", "del", "hdel", "hset"} /\ r.type = "INTEGER" /\ r.n \in 0..1
  \/ cmd \in {"incr", "lpush", "rpush", "llen"} /\ r.type = "INTEGER" /\ r.n >= 0
  \/ cmd \in {"decr", "incrBy", "hincrBy"} /\ r.type = "INTEGER"

\* The reply to the call, from the server to its return.
OwnAnswer(r) == /\ r = truth /\ Shape(name, r)
          /\ (r.type # "ERROR" => \E i \in DOMAIN runs : runs[i] = call)
Truthful ==
  /\ step = "command" /\ ~context.err /\ answers # <<>> => OwnAnswer(Head(answers))
  /\ step = "command" /\ ~context.err /\ context.reader # <<>> => OwnAnswer(Head(context.reader))
  /\ got # Conn!NoReply => step = "done" /\ OwnAnswer(got)

ConnInv == /\ ConnTypes /\ ConnFlags /\ ConnBuffers /\ DataKept /\ Link /\ Numbers /\ Fresh
           /\ Begun /\ Truthful

\* The names of the commands are not those of the login.
LEMMA CommandNames ==
  ASSUME NEW cmd \in Names
  PROVE  cmd \in Commands /\ cmd \notin {"part", "AUTH", "SELECT", "none"}
<1>1. cmd \in Commands
  BY ConnAssumption
<1> QED BY <1>1 DEF Commands

LEMMA NoItems == ASSUME NEW S PROVE <<>> \in Seq(S) /\ Len(<<>>) = 0
  BY EmptySeq

\* A sequence of one item.
LEMMA SingleItem ==
  ASSUME NEW S, NEW x \in S
  PROVE  /\ <<x>> \in Seq(S) /\ Len(<<x>>) = 1 /\ <<x>> # <<>> /\ Head(<<x>>) = x
         /\ Tail(<<x>>) = <<>> /\ <<x>>[1] = x /\ DOMAIN <<x>> = {1} /\ Append(<<>>, x) = <<x>>
<1>1. <<x>> \in Seq(S) /\ Len(<<x>>) = 1 /\ <<x>>[1] = x /\ DOMAIN <<x>> = {1}
  OBVIOUS
<1>2. <<x>> # <<>> /\ Head(<<x>>) = x
  OBVIOUS
<1>3. Tail(<<x>>) = <<>>
  OBVIOUS
<1>4. Append(<<>>, x) = <<x>>
  OBVIOUS
<1> QED BY <1>1, <1>2, <1>3, <1>4

LEMMA ContextFields ==
  ASSUME NEW x \in Contexts
  PROVE  /\ x.err \in BOOLEAN /\ x.obuf \in Seq(Requests) /\ x.reader \in Seq(Replies)
         /\ \A buffer \in Seq(Requests) : /\ [x EXCEPT !.obuf = buffer] \in Contexts
                                          /\ [x EXCEPT !.obuf = buffer].obuf = buffer
                                          /\ [x EXCEPT !.obuf = buffer].reader = x.reader
                                          /\ ([x EXCEPT !.obuf = buffer].err <=> x.err)
         /\ \A read \in Seq(Replies) : /\ [x EXCEPT !.reader = read] \in Contexts
                                       /\ [x EXCEPT !.reader = read].reader = read
                                       /\ [x EXCEPT !.reader = read].obuf = x.obuf
                                       /\ ([x EXCEPT !.reader = read].err <=> x.err)
         /\ [x EXCEPT !.err = TRUE] \in Contexts /\ [x EXCEPT !.err = TRUE].err = TRUE
         /\ [x EXCEPT !.err = TRUE].obuf = x.obuf /\ [x EXCEPT !.err = TRUE].reader = x.reader
  BY DEF Contexts

LEMMA NullContext ==
  /\ Conn!NULL \in Contexts /\ Conn!NULL.err = FALSE
  /\ Conn!NULL.obuf = <<>> /\ Conn!NULL.reader = <<>>
<1>1. Conn!NULL.err = FALSE /\ Conn!NULL.obuf = <<>> /\ Conn!NULL.reader = <<>>
  BY DEF Conn!NULL
<1>2. Conn!NULL \in Contexts
  <2>1. <<>> \in Seq(Requests) /\ <<>> \in Seq(Replies)
    BY NoItems
  <2> QED BY <2>1 DEF Conn!NULL, Contexts
<1> QED BY <1>1, <1>2

LEMMA ReplyKinds ==
  /\ Conn!NoReply \in Replies /\ Conn!NoReply.type = "none"
  /\ Conn!Error \in Replies /\ Conn!Error.type = "ERROR"
  /\ Conn!Status \in Replies /\ Conn!Status.type = "STATUS"
  BY DEF Replies, Conn!NoReply, Conn!Error, Conn!Status

\* The server: a command leaves a value of a type, and of no other type below zero.
LEMMA DataStep ==
  ASSUME DataKept, NEW cmd \in Names, NEW value, value.n \in -1..MaxValue,
         value = IF Conn!Wrong(cmd) THEN data ELSE Conn!After(cmd)
  PROVE  /\ value \in [type : {"nothing", "string", "hash", "list"}, n : -1..MaxValue]
         /\ (value.type # "string" => value.n >= 0)
<1>1. cmd \in Commands
  BY CommandNames
<1>2. CASE Conn!Wrong(cmd)
  BY <1>2 DEF DataKept
<1>3. CASE ~Conn!Wrong(cmd)
  <2>1. value = Conn!After(cmd)
    BY <1>3
  <2> PICK n \in -1..MaxValue : n = data.n
    BY DEF DataKept
  <2>2. data.type \in {"nothing", "string", "hash", "list"}
    BY DEF DataKept
  <2>3. CASE cmd \in {"set", "setex", "hmset", "hset"}
    <3>1. Conn!TypeOf(cmd) \in {"string", "hash"}
      BY <2>3 DEF Conn!TypeOf
    <3>2. value = [type |-> Conn!TypeOf(cmd), n |-> 1]
      BY <2>1, <2>3 DEF Conn!After, Conn!Counts
    <3>3. value.n = 1
      BY <3>2
    <3> QED BY <3>1, <3>2, <3>3
  <2>4. CASE Conn!Counts(cmd)
    <3>1. /\ cmd \notin {"set", "setex", "hmset", "hset"}
          /\ Conn!TypeOf(cmd) \in {"string", "hash", "list"}
      <4>1. cmd \in {"incr", "incrBy", "hincrBy", "lpush", "rpush"}
        BY <2>4 DEF Conn!Counts
      <4> QED BY <4>1 DEF Conn!TypeOf
    <3>2. value = [type |-> Conn!TypeOf(cmd), n |-> n + 1]
      <4>1. cmd # "decr" /\ cmd \notin {"del", "hdel", "flushdb"}
        BY <2>4 DEF Conn!Counts
      <4>2. Conn!After(cmd) = [type |-> Conn!TypeOf(cmd), n |-> data.n + 1]
        BY <2>4, <3>1, <4>1 DEF Conn!After
      <4> QED BY <2>1, <4>2
    <3>3. value.n = n + 1
      BY <3>2
    <3> QED BY <3>1, <3>2, <3>3
  <2>5. CASE cmd = "decr"
    <3>1. value = [type |-> "string", n |-> n - 1]
      BY <2>1, <2>5 DEF Conn!After, Conn!Counts
    <3>2. value.n = n - 1
      BY <3>1
    <3> QED BY <3>1, <3>2
  <2>6. CASE cmd \in {"del", "hdel", "flushdb"}
    <3>1. value = [type |-> "nothing", n |-> 0]
      BY <2>1, <2>6 DEF Conn!After, Conn!Counts
    <3>2. value.n = 0
      BY <3>1
    <3> QED BY <3>1, <3>2
  <2>7. CASE cmd \in {"get", "mget", "hget", "hgetAll", "hmget", "llen", "lrange", "isExists"}
    <3>1. value = data
      BY <2>1, <2>7 DEF Conn!After, Conn!Counts
    <3> QED BY <3>1 DEF DataKept
  <2> QED BY <1>1, <2>3, <2>4, <2>5, <2>6, <2>7 DEF Commands, Conn!Counts
<1> QED BY <1>2, <1>3

\* What it answers.
LEMMA ReplyShape ==
  ASSUME DataKept, NEW cmd \in Names, ~Conn!Wrong(cmd) => Conn!After(cmd).n \in -1..MaxValue
  PROVE  Conn!Reply(cmd) \in Replies /\ Conn!Reply(cmd).type # "none" /\ Shape(cmd, Conn!Reply(cmd))
<1>1. cmd \in Commands
  BY CommandNames
<1> PICK n \in -1..MaxValue : n = data.n
  BY DEF DataKept
<1>2. data.type \in {"nothing", "string", "hash", "list"} /\ (data.type # "string" => n >= 0)
  BY DEF DataKept
<1> USE ConnAssumption
<1>3. CASE Conn!Wrong(cmd)
  <2>1. Conn!Reply(cmd) = Conn!Error
    BY <1>3 DEF Conn!Reply
  <2> QED BY <2>1, ReplyKinds DEF Shape
<1>4. CASE ~Conn!Wrong(cmd) /\ cmd \in {"set", "setex", "hmset", "flushdb"}
  <2>1. Conn!Reply(cmd) = Conn!Status
    BY <1>4 DEF Conn!Reply
  <2> QED BY <1>4, <2>1, ReplyKinds DEF Shape
<1>5. CASE ~Conn!Wrong(cmd) /\ cmd \in {"get", "hget"}
  <2>1. \/ Conn!Reply(cmd) = [type |-> "STRING", n |-> n]
        \/ Conn!Reply(cmd) = [type |-> "NIL", n |-> -1]
    BY <1>5 DEF Conn!Reply
  <2> QED BY <1>5, <2>1 DEF Shape, Replies
<1>6. CASE ~Conn!Wrong(cmd) /\ cmd \in {"mget", "hgetAll", "hmget", "lrange"}
  <2>1. Conn!Reply(cmd) = [type |-> "ARRAY", n |-> n]
    BY <1>6 DEF Conn!Reply
  <2> QED BY <1>6, <2>1 DEF Shape, Replies
<1>7. CASE ~Conn!Wrong(cmd) /\ cmd \in {"isExists", "del", "hdel", "hset"}
  <2>1. \/ Conn!Reply(cmd) = [type |-> "INTEGER", n |-> 0]
        \/ Conn!Reply(cmd) = [type |-> "INTEGER", n |-> 1]
    BY <1>7 DEF Conn!Reply
  <2> QED BY <1>7, <2>1 DEF Shape, Replies
<1>8. CASE ~Conn!Wrong(cmd) /\ cmd
        \in {"incr", "lpush", "rpush", "llen", "decr", "incrBy", "hincrBy"}
  <2>1. Conn!Reply(cmd) = [type |-> "INTEGER", n |-> Conn!After(cmd).n]
    BY <1>8 DEF Conn!Reply
  <2> PICK k \in -1..MaxValue : k = Conn!After(cmd).n
    BY <1>8
  <2>2. cmd \in {"incr", "lpush", "rpush"} => k >= 0
    <3>1. cmd \in {"incr", "lpush", "rpush"} =>
            Conn!After(cmd) = [type |-> Conn!TypeOf(cmd), n |-> n + 1]
      BY DEF Conn!After, Conn!Counts
    <3> QED BY <3>1
  <2>3. cmd = "llen" => k >= 0
    <3>1. cmd = "llen" => Conn!After(cmd) = data /\ data.type # "string"
      BY <1>8 DEF Conn!After, Conn!Counts, Conn!Wrong, Conn!TypeOf
    <3> QED BY <1>2, <3>1
  <2>4. Conn!Reply(cmd).type = "INTEGER" /\ Conn!Reply(cmd).n = k
    BY <2>1
  <2> QED BY <1>8, <2>1, <2>2, <2>3, <2>4 DEF Shape, Replies
<1> QED BY <1>1, <1>3, <1>4, <1>5, <1>6, <1>7, <1>8 DEF Commands


\* The command at the end of the output buffer, and what is left of it when a part is written.
LEMMA AppendedContext ==
  ASSUME NEW x \in Contexts, NEW cmd \in Names \union {"AUTH", "SELECT"}, call \in Nat
  PROVE  /\ Conn!Appended(x, cmd) \in Contexts /\ (Conn!Appended(x, cmd).err <=> x.err)
         /\ Conn!Appended(x, cmd).reader = x.reader
         /\ Len(Conn!Appended(x, cmd).obuf) = Len(x.obuf) + 2 /\ Len(x.obuf) \in Nat
         /\ x.obuf = <<>> => Conn!Appended(x, cmd).obuf =
              <<Part, [name |-> cmd, call |-> IF cmd = name THEN call ELSE 0]>>
<1> DEFINE both == <<Part, [name |-> cmd, call |-> IF cmd = name THEN call ELSE 0]>>
<1>1. both \in Seq(Requests) /\ Len(both) = 2
  <2>1. Part \in Requests /\ [name |-> cmd, call |-> IF cmd = name THEN call ELSE 0] \in Requests
    BY DEF Part, Requests
  <2> QED BY <2>1
<1>2. Conn!Appended(x, cmd) = [x EXCEPT !.obuf = x.obuf \o both]
  BY DEF Conn!Appended, Part
<1> HIDE DEF both
<1>3. x.obuf \in Seq(Requests)
  BY ContextFields
<1>4. x.obuf \o both \in Seq(Requests) /\ Len(x.obuf \o both) = Len(x.obuf) + 2
        /\ Len(x.obuf) \in Nat
  <2>1. x.obuf \o both \in Seq(Requests) /\ Len(x.obuf \o both) = Len(x.obuf) + Len(both)
    BY ONLY <1>1, <1>3, ConcatProperties
  <2>2. Len(x.obuf) \in Nat
    BY ONLY <1>3, LenProperties
  <2> QED BY ONLY <1>1, <2>1, <2>2
<1>5. x.obuf = <<>> => x.obuf \o both = both
  BY ONLY <1>1, ConcatEmptySeq
<1>6. \A buffer \in Seq(Requests) : /\ [x EXCEPT !.obuf = buffer] \in Contexts
                                     /\ [x EXCEPT !.obuf = buffer].obuf = buffer
                                     /\ [x EXCEPT !.obuf = buffer].reader = x.reader
                                     /\ ([x EXCEPT !.obuf = buffer].err <=> x.err)
  BY ONLY ContextFields
<1> DEFINE buffer == x.obuf \o both
<1> HIDE DEF buffer
<1>7. /\ [x EXCEPT !.obuf = buffer] \in Contexts
      /\ [x EXCEPT !.obuf = buffer].obuf = buffer
      /\ [x EXCEPT !.obuf = buffer].reader = x.reader
      /\ ([x EXCEPT !.obuf = buffer].err <=> x.err)
  BY ONLY <1>4, <1>6 DEF buffer
<1>8. Conn!Appended(x, cmd) = [x EXCEPT !.obuf = buffer]
  BY ONLY <1>2 DEF buffer
<1>9. Len(buffer) = Len(x.obuf) + 2 /\ Len(x.obuf) \in Nat /\ (x.obuf = <<>> => buffer = both)
  BY ONLY <1>4, <1>5 DEF buffer
<1>10. /\ Conn!Appended(x, cmd) \in Contexts /\ (Conn!Appended(x, cmd).err <=> x.err)
       /\ Conn!Appended(x, cmd).reader = x.reader /\ Conn!Appended(x, cmd).obuf = buffer
  BY ONLY <1>7, <1>8
<1> QED BY ONLY <1>9, <1>10 DEF both

LEMMA WrittenParts ==
  ASSUME NEW S, NEW x \in S, NEW y \in S
  PROVE  /\ <<x, y>> \in Seq(S) /\ Len(<<x, y>>) = 2 /\ <<x, y>>[1] = x /\ <<x, y>>[2] = y
         /\ SubSeq(<<x, y>>, 2, 2) = <<y>> /\ SubSeq(<<x, y>>, 3, 2) = <<>>
         /\ SubSeq(<<x>>, 2, 1) = <<>>
<1>1. <<x, y>> \in Seq(S) /\ Len(<<x, y>>) = 2 /\ <<x, y>>[1] = x /\ <<x, y>>[2] = y
  OBVIOUS
<1>2. <<x>> \in Seq(S) /\ Len(<<x>>) = 1
  OBVIOUS
<1>3. SubSeq(<<x, y>>, 3, 2) = <<>>
  BY ONLY <1>1, SubSeqProperties, EmptySeq
<1>4. SubSeq(<<x>>, 2, 1) = <<>>
  BY ONLY <1>2, SubSeqProperties, EmptySeq
<1>5. SubSeq(<<x, y>>, 2, 2) = <<y>>
  <2> DEFINE s == SubSeq(<<x, y>>, 2, 2)
  <2>1. \A i \in 2..2 : <<x, y>>[i] \in S
    BY ONLY <1>1
  <2>2. s \in Seq(S) /\ Len(s) = 1 /\ \A i \in 1..1 : s[i] = <<x, y>>[2 + i - 1]
    BY ONLY <2>1, SubSeqProperties
  <2>3. s[1] = y
    BY ONLY <1>1, <2>2
  <2> HIDE DEF s
  <2>4. <<y>> \in Seq(S) /\ Len(<<y>>) = 1 /\ <<y>>[1] = y
    OBVIOUS
  <2>5. s = <<y>>
    BY ONLY <2>2, <2>3, <2>4, SeqEqual
  <2> QED BY ONLY <2>5 DEF s
<1> QED BY ONLY <1>1, <1>3, <1>4, <1>5
LEMMA ConnInitInv == Conn!Init => ConnInv
<1> SUFFICES ASSUME Conn!Init PROVE ConnInv
  OBVIOUS
<1> USE ConnAssumption, NullContext, ReplyKinds, NoItems
<1>1. ConnTypes
  BY DEF Conn!Init, ConnTypes
<1>2. ConnFlags
  BY DEF Conn!Init, ConnFlags
<1>3. ConnBuffers
  BY DEF Conn!Init, ConnBuffers
<1>4. DataKept
  BY DEF Conn!Init, DataKept
<1>5. Link
  BY DEF Conn!Init, Link, ConnBuffers, Busy, Buffered, Sent, AnsweredOnce, Arrived, Nowhere,
         Current, ConnTypes
<1>6. Numbers
  BY DEF Conn!Init, Numbers, ConnTypes, ConnBuffers
<1>7. Fresh
  BY DEF Conn!Init, Fresh, Unserved, ConnTypes
<1>8. Begun
  BY DEF Conn!Init, Begun, ConnTypes
<1>9. Truthful
  BY DEF Conn!Init, Truthful, OwnAnswer, ConnTypes
<1> QED BY <1>1, <1>2, <1>3, <1>4, <1>5, <1>6, <1>7, <1>8, <1>9 DEF ConnInv

LEMMA ConnServe ==
  ASSUME ConnInv, Conn!Serve
  PROVE  ConnInv'
<1>0. /\ ConnTypes /\ ConnFlags /\ ConnBuffers /\ DataKept /\ Link
      /\ Numbers /\ Fresh /\ Begun /\ Truthful
  BY DEF ConnInv
<1> USE <1>0, ConnAssumption, CommandNames, NullContext, ReplyKinds, NoItems
<1>a. ~context.err /\ up /\ commands # <<>>
  BY DEF Conn!Serve, Link, ConnFlags
<1>b. Busy /\ Sent
  BY <1>a DEF Link, Buffered, Sent, AnsweredOnce, Arrived, Nowhere
<1>c. Current.name \in Names \union {"AUTH", "SELECT"} /\ Current \in Requests
  BY <1>b, CommandNames DEF Busy, Current, ConnTypes, Requests
<1>d. Head(commands) = Current /\ Tail(commands) = <<>>
  BY ONLY <1>b, <1>c, SingleItem DEF Sent
<1>e. \A r \in Replies : Append(answers, r) = <<r>>
  BY <1>b, SingleItem DEF Sent
<1> DEFINE reply == IF step = "command" THEN Conn!Reply(name) ELSE Conn!Status
<1>f. /\ commands' = <<>> /\ UNCHANGED <<context, hasContext, m_last_connect_time, m_password, clock>>
      /\ UNCHANGED <<late, up, lets, step, name, got, call>> /\ authed' \in BOOLEAN
  BY <1>d DEF Conn!Serve, Conn!conn, Conn!program, ConnFlags
<1>g. \/ /\ step # "command" /\ UNCHANGED <<data, runs, truth>>
         /\ answers' \in {<<Conn!Error>>, <<Conn!Status>>}
      \/ /\ step = "command" /\ UNCHANGED <<data, runs>>
         /\ truth' = Conn!Error /\ answers' = <<Conn!Error>>
      \/ /\ step = "command" /\ data' = (IF Conn!Wrong(name) THEN data ELSE Conn!After(name))
         /\ data'.n \in -1..MaxValue /\ runs' = Append(runs, call)
         /\ truth' = Conn!Reply(name) /\ answers' = Append(answers, Conn!Reply(name))
  <2>1. CASE step = "command"
    <3>1. Current.name = name /\ Current.call = call /\ name \in Names
      BY <2>1 DEF Current, ConnTypes
    <3>2. name \notin {"AUTH", "SELECT"}
      BY <3>1
    <3> QED BY <1>d, <1>e, <2>1, <3>1, <3>2 DEF Conn!Serve, Conn!Runs
  <2>2. CASE step # "command"
    <3>1. Current.name \in {"AUTH", "SELECT"}
      BY <1>b, <2>2 DEF Current, Busy
    <3> QED BY <1>d, <1>e, <2>2, <3>1 DEF Conn!Serve
  <2> QED BY <2>1, <2>2
<1>h. step = "command" => name \in Names
  BY DEF ConnTypes
<1>i. step = "command" /\ (~Conn!Wrong(name) => Conn!After(name).n \in -1..MaxValue) =>
        /\ Conn!Reply(name) \in Replies /\ Conn!Reply(name).type # "none"
        /\ Shape(name, Conn!Reply(name))
  BY ONLY <1>0, <1>h, ReplyShape, ConnAssumption
<1>j. \/ /\ step # "command" /\ UNCHANGED <<data, runs, truth>>
         /\ answers' \in {<<Conn!Error>>, <<Conn!Status>>}
      \/ /\ step = "command" /\ UNCHANGED <<data, runs>>
         /\ truth' = Conn!Error /\ answers' = <<Conn!Error>>
      \/ /\ step = "command" /\ runs' = Append(runs, call)
         /\ truth' \in Replies /\ truth'.type # "none" /\ answers' = <<truth'>>
              /\ Shape(name, truth')
  BY ONLY <1>e, <1>g, <1>i
<1>k. answers' \in Seq(Replies) /\ Len(answers') = 1 /\ truth' \in Replies
  <2>1. \A r \in Replies : <<r>> \in Seq(Replies) /\ Len(<<r>>) = 1
    BY ONLY SingleItem
  <2> QED BY ONLY <1>j, <2>1, ReplyKinds, <1>0 DEF ConnTypes
<1>l. runs' = runs \/ (runs' = Append(runs, call) /\ step = "command")
  BY ONLY <1>j
<1>m. Len(runs) \in Nat /\ DOMAIN runs = 1..Len(runs) /\ call \in Nat
  BY LenProperties DEF ConnTypes, ConnBuffers
<1>n. runs' = Append(runs, call) =>
        /\ runs' \in Seq(Nat) /\ DOMAIN runs' = 1..Len(runs) + 1
        /\ runs'[Len(runs) + 1] = call /\ \A i \in DOMAIN runs : runs'[i] = runs[i]
  <2>1. runs \in Seq(Nat)
    BY DEF ConnBuffers
  <2> QED BY ONLY <1>m, <2>1, AppendProperties, LenProperties
<1>1. ConnTypes'
  BY <1>f, <1>k DEF ConnTypes
<1>2. ConnFlags'
  BY DEF Conn!Serve, Conn!conn, Conn!server, Conn!program, ConnFlags
<1>3. ConnBuffers'
  <2>1. runs' \in Seq(Nat)
    BY <1>l, <1>n DEF ConnBuffers
  <2> QED BY <1>f, <1>k, <2>1 DEF ConnBuffers
<1>4. DataKept'
  <2>1. CASE UNCHANGED data
    BY <2>1 DEF DataKept
  <2>2. CASE /\ step = "command" /\ data' = (IF Conn!Wrong(name) THEN data ELSE Conn!After(name))
             /\ data'.n \in -1..MaxValue
    <3>1. /\ data' \in [type : {"nothing", "string", "hash", "list"}, n : -1..MaxValue]
          /\ (data'.type # "string" => data'.n >= 0)
      BY ONLY <1>0, <1>h, <2>2, DataStep, ConnAssumption
    <3> QED BY ONLY <3>1 DEF DataKept
  <2> QED BY ONLY <1>g, <2>1, <2>2
<1>5. Link'
  <2>1. hasContext /\ context.obuf = <<>> /\ context.reader = <<>>
    BY <1>a, <1>b DEF Link, Sent
  <2>2. AnsweredOnce'
    BY ONLY <1>f, <1>k, <2>1 DEF AnsweredOnce
  <2>3. Busy'
    BY ONLY <1>b, <1>f DEF Busy
  <2>4. hasContext' /\ ~context'.err /\ up'
    BY ONLY <1>a, <1>f, <2>1
  <2>5. Len(context'.obuf) <= IF step' = "command" THEN 4 ELSE 2
    BY ONLY <1>0, <1>f DEF Link
  <2> QED BY ONLY <2>2, <2>3, <2>4, <2>5 DEF Link
<1>6. Numbers'
  <2>1. CASE runs' = runs
    BY <1>f, <2>1 DEF Numbers
  <2>2. CASE runs' = Append(runs, call) /\ step = "command"
    <3>1. Unserved
      BY <1>a, <2>2 DEF Unserved
    <3>2. /\ \A i \in DOMAIN runs : runs[i] < call
          /\ \A i \in DOMAIN late : late[i].call < call /\ late[i].call \in 1..call
      BY <3>1 DEF Fresh, Numbers
    <3>3. call \in 1..call
      BY <2>2, <1>m DEF Begun
    <3>4. \A i \in DOMAIN runs' : i \in DOMAIN runs \/ i = Len(runs) + 1
      BY ONLY <1>m, <1>n, <2>2
    <3>5. \A i \in DOMAIN runs' : runs'[i] \in 1..call
      BY ONLY <1>0, <1>n, <2>2, <3>3, <3>4 DEF Numbers
    <3>6. \A i \in DOMAIN runs : runs[i] \in Nat /\ runs'[i] = runs[i] /\ runs'[i] < call
      BY ONLY <1>0, <1>m, <1>n, <2>2, <3>2 DEF Numbers
    <3>7. \A i, j \in DOMAIN runs' : i # j => runs'[i] # runs'[j]
      BY ONLY <1>0, <1>m, <1>n, <2>2, <3>4, <3>6 DEF Numbers
    <3>8. \A i \in DOMAIN runs', j \in DOMAIN late : runs'[i] # late[j].call
      BY ONLY <1>0, <1>m, <1>n, <2>2, <3>2, <3>4, <3>6 DEF Numbers
    <3> QED BY <1>0, <1>f, <3>5, <3>7, <3>8 DEF Numbers
  <2> QED BY ONLY <1>l, <2>1, <2>2
<1>7. Fresh'
  <2>1. CASE runs' = runs
    <3>1. Unserved' => Unserved
      BY <1>a, <1>f DEF Unserved
    <3> QED BY <1>f, <2>1, <3>1 DEF Fresh
  <2>2. CASE step = "command"
    <3>1. ~Unserved'
      BY <1>b, <1>f, <2>2 DEF Unserved, Sent
    <3> QED BY <3>1 DEF Fresh
  <2> QED BY ONLY <1>l, <2>1, <2>2
<1>8. Begun'
  BY DEF Conn!Serve, Conn!conn, Conn!server, Conn!program, Begun, ConnTypes
<1>9. Truthful'
  <2>1. got = Conn!NoReply /\ context.reader = <<>>
    BY <1>b DEF Truthful, Busy, Sent
  <2>2. CASE step # "command"
    BY <1>f, <2>1, <2>2 DEF Truthful
  <2>3. CASE step = "command" /\ truth' = Conn!Error /\ answers' = <<Conn!Error>>
    <3>1. Head(answers') = Conn!Error
      BY ONLY <2>3, ReplyKinds, SingleItem
    <3>2. OwnAnswer(Head(answers))'
      BY ONLY <2>3, <3>1, ReplyKinds DEF OwnAnswer, Shape
    <3> QED BY <1>f, <2>1, <3>2 DEF Truthful
  <2>4. CASE /\ step = "command" /\ runs' = Append(runs, call)
             /\ truth' \in Replies /\ truth'.type # "none" /\ answers' = <<truth'>>
             /\ Shape(name, truth')
    <3>1. Head(answers') = truth'
      BY ONLY <2>4, SingleItem
    <3>2. \E i \in DOMAIN runs' : runs'[i] = call'
      <4>1. Len(runs) + 1 \in DOMAIN runs' /\ runs'[Len(runs) + 1] = call
        BY ONLY <1>m, <1>n, <2>4
      <4> QED BY ONLY <1>f, <4>1
    <3>3. OwnAnswer(Head(answers))'
      BY ONLY <1>f, <2>4, <3>1, <3>2 DEF OwnAnswer, Shape
    <3> QED BY <1>f, <2>1, <3>3 DEF Truthful
  <2> QED BY ONLY <1>j, <2>2, <2>3, <2>4
<1> QED BY <1>1, <1>2, <1>3, <1>4, <1>5, <1>6, <1>7, <1>8, <1>9 DEF ConnInv

LEMMA ConnServeLate ==
  ASSUME ConnInv, Conn!ServeLate
  PROVE  ConnInv'
<1>0. /\ ConnTypes /\ ConnFlags /\ ConnBuffers /\ DataKept /\ Link
      /\ Numbers /\ Fresh /\ Begun /\ Truthful
  BY DEF ConnInv
<1> USE <1>0, ConnAssumption, CommandNames, NullContext, ReplyKinds, NoItems
<1> DEFINE asked == Head(late)
<1>a. /\ late # <<>> /\ asked \in LateRequests /\ late' = Tail(late) /\ late' \in Seq(LateRequests)
      /\ Len(late) \in Nat \ {0} /\ DOMAIN late = 1..Len(late) /\ DOMAIN late' = 1..Len(late) - 1
      /\ late[1] = asked /\ \A i \in DOMAIN late' : i + 1 \in DOMAIN late /\ late'[i] = late[i + 1]
  <2>1. late # <<>> /\ late \in Seq(LateRequests) /\ late' = Tail(late)
    BY DEF Conn!ServeLate, ConnBuffers
  <2> HIDE DEF asked
  <2>2. /\ Tail(late) \in Seq(LateRequests) /\ DOMAIN Tail(late) = 1..Len(late) - 1
        /\ \A i \in 1..Len(late) - 1 : Tail(late)[i] = late[i + 1]
        /\ Len(late) \in Nat \ {0} /\ DOMAIN late = 1..Len(late)
    BY ONLY <2>1, HeadTailProperties, LenProperties, EmptySeq
  <2>3. asked = late[1] /\ asked \in LateRequests
    BY ONLY <2>1, <2>2, HeadTailProperties DEF asked
  <2> QED BY ONLY <2>1, <2>2, <2>3
<1>b. asked.name \in Names /\ asked.call \in Nat
  BY <1>a DEF LateRequests
<1>c. /\ data' = (IF Conn!Wrong(asked.name) THEN data ELSE Conn!After(asked.name))
      /\ data'.n \in -1..MaxValue /\ runs' = Append(runs, asked.call)
      /\ UNCHANGED <<context, hasContext, m_last_connect_time, m_password, clock>>
      /\ UNCHANGED <<commands, answers, up, authed, lets, truth, step, name, got, call>>
  BY DEF Conn!ServeLate, Conn!Runs, Conn!conn, Conn!program
<1>m. Len(runs) \in Nat /\ DOMAIN runs = 1..Len(runs) /\ call \in Nat
  BY LenProperties DEF ConnTypes, ConnBuffers
<1>n. /\ runs' \in Seq(Nat) /\ DOMAIN runs' = 1..Len(runs) + 1
      /\ runs'[Len(runs) + 1] = asked.call /\ \A i \in DOMAIN runs : runs'[i] = runs[i]
  <2>1. runs \in Seq(Nat)
    BY DEF ConnBuffers
  <2>2. runs' = Append(runs, asked.call) /\ asked.call \in Nat
    BY ONLY <1>b, <1>c
  <2> HIDE DEF asked
  <2> QED BY ONLY <1>m, <2>1, <2>2, AppendProperties, LenProperties
<1>o. \A i \in DOMAIN runs' : i \in DOMAIN runs \/ i = Len(runs) + 1
  BY ONLY <1>m, <1>n
<1> HIDE DEF asked
<1>1. ConnTypes'
  BY DEF Conn!ServeLate, Conn!conn, Conn!server, Conn!program, ConnTypes
<1>2. ConnFlags'
  BY DEF Conn!ServeLate, Conn!conn, Conn!server, Conn!program, ConnFlags
<1>3. ConnBuffers'
  BY <1>a, <1>c, <1>n DEF ConnBuffers
<1>4. DataKept'
  <2>1. /\ data' \in [type : {"nothing", "string", "hash", "list"}, n : -1..MaxValue]
        /\ (data'.type # "string" => data'.n >= 0)
    BY ONLY <1>0, <1>b, <1>c, DataStep, ConnAssumption
  <2> QED BY ONLY <2>1 DEF DataKept
<1>5. Link'
  BY DEF Conn!ServeLate, Conn!conn, Conn!server, Conn!program, Link, ConnBuffers, Busy,
         Buffered, Sent, AnsweredOnce, Arrived, Nowhere, Current, ConnTypes
<1>6. Numbers'
  <2>1. asked.call \in 1..call /\ 1 \in DOMAIN late
    BY <1>a DEF Numbers
  <2>2. \A i \in DOMAIN runs : runs[i] \in 1..call /\ runs[i] # asked.call
    BY <1>a, <2>1 DEF Numbers
  <2>3. \A i \in DOMAIN late' : late'[i].call \in 1..call /\ late'[i].call # asked.call
    <3> TAKE i \in DOMAIN late'
    <3>1. i + 1 \in DOMAIN late /\ late'[i] = late[i + 1] /\ i + 1 # 1
      BY ONLY <1>a
    <3> QED BY ONLY <1>0, <1>a, <2>1, <3>1 DEF Numbers
  <2>4. \A i \in DOMAIN runs' : runs'[i] \in 1..call
    BY ONLY <1>n, <1>o, <2>1, <2>2
  <2>5. \A i, j \in DOMAIN runs' : i # j => runs'[i] # runs'[j]
    BY ONLY <1>0, <1>n, <1>o, <2>2 DEF Numbers
  <2>6. \A i, j \in DOMAIN late' : i # j => late'[i].call # late'[j].call
    <3> TAKE i, j \in DOMAIN late'
    <3>1. /\ i + 1 \in DOMAIN late /\ late'[i] = late[i + 1]
          /\ j + 1 \in DOMAIN late /\ late'[j] = late[j + 1]
          /\ i # j => i + 1 # j + 1
      BY ONLY <1>a
    <3> QED BY ONLY <1>0, <3>1 DEF Numbers
  <2>7. \A i \in DOMAIN runs', j \in DOMAIN late' : runs'[i] # late'[j].call
    <3> TAKE i \in DOMAIN runs', j \in DOMAIN late'
    <3>1. j + 1 \in DOMAIN late /\ late'[j] = late[j + 1]
      BY ONLY <1>a
    <3> QED BY ONLY <1>0, <1>n, <1>o, <2>3, <3>1 DEF Numbers
  <2> QED BY ONLY <1>c, <2>3, <2>4, <2>5, <2>6, <2>7 DEF Numbers
<1>7. Fresh'
  <2>1. Unserved' <=> Unserved
    BY <1>c DEF Unserved
  <2>2. ASSUME Unserved
        PROVE  (\A i \in DOMAIN runs' : runs'[i] < call)
              /\ (\A i \in DOMAIN late' : late'[i].call < call)
    <3>1. asked.call < call
      BY <1>a, <2>2 DEF Fresh
    <3>2. \A i \in DOMAIN runs' : runs'[i] < call
      BY ONLY <1>0, <1>n, <1>o, <2>2, <3>1 DEF Fresh
    <3>3. \A i \in DOMAIN late' : late'[i].call < call
      BY ONLY <1>0, <1>a, <2>2 DEF Fresh
    <3> QED BY ONLY <3>2, <3>3
  <2> QED BY ONLY <1>c, <2>1, <2>2 DEF Fresh
<1>8. Begun'
  BY DEF Conn!ServeLate, Conn!conn, Conn!server, Conn!program, Begun, ConnTypes
<1>9. Truthful'
  <2>1. \A r : OwnAnswer(r) => OwnAnswer(r)'
    <3> TAKE r
    <3>1. (\E i \in DOMAIN runs : runs[i] = call) => \E i \in DOMAIN runs' : runs'[i] = call
      <4>1. SUFFICES ASSUME NEW i \in DOMAIN runs, runs[i] = call
                     PROVE i \in DOMAIN runs' /\ runs'[i] = call
        OBVIOUS
      <4> QED BY ONLY <4>1, <1>m, <1>n
    <3> QED BY ONLY <1>c, <3>1 DEF OwnAnswer, Shape
  <2> QED BY ONLY <1>0, <1>c, <2>1 DEF Truthful
<1> QED BY <1>1, <1>2, <1>3, <1>4, <1>5, <1>6, <1>7, <1>8, <1>9 DEF ConnInv

LEMMA ConnBreak ==
  ASSUME ConnInv, Conn!Break
  PROVE  ConnInv'
<1>0. /\ ConnTypes /\ ConnFlags /\ ConnBuffers /\ DataKept /\ Link
      /\ Numbers /\ Fresh /\ Begun /\ Truthful
  BY DEF ConnInv
<1> USE <1>0, ConnAssumption, CommandNames, NullContext, ReplyKinds, NoItems
<1>a. ~context.err /\ up /\ UNCHANGED <<context, step, name, call, runs>> /\ commands' = <<>>
  BY DEF Conn!Break, Link, ConnFlags, Conn!conn, Conn!program
<1>b. commands # <<>> => Busy /\ Sent
  BY <1>a DEF Link, Buffered, Sent, AnsweredOnce, Arrived, Nowhere
<1>c. late' = late \/ (late' = Append(late, Head(commands)) /\ commands # <<>>
        /\ Head(commands).call > 0)
  BY DEF Conn!Break
<1>d. late' = late \/ (late' = Append(late, Current) /\ commands # <<>> /\ Current.call > 0)
  <2>1. commands # <<>> => Head(commands) = Current
    BY ONLY <1>b, SingleItem DEF Sent
  <2> QED BY ONLY <1>c, <2>1
<1>e. \/ late' = late
      \/ /\ late' = Append(late, Current) /\ step = "command" /\ Current \in LateRequests
         /\ Current.call = call /\ Unserved /\ context.obuf = <<>>
  <2>1. commands # <<>> /\ Current.call > 0 => step = "command"
    BY ONLY <1>b DEF Busy, Current
  <2>2. commands # <<>> /\ step = "command" =>
          Current \in LateRequests /\ Current.call = call /\ Unserved /\ context.obuf = <<>>
    BY <1>a, <1>b DEF Current, LateRequests, ConnTypes, Unserved, Sent
  <2> QED BY ONLY <1>d, <2>1, <2>2
<1>f. Len(late) \in Nat /\ DOMAIN late = 1..Len(late) /\ call \in Nat /\ late \in Seq(LateRequests)
  BY LenProperties DEF ConnTypes, ConnBuffers
<1>g. late' = Append(late, Current) /\ Current \in LateRequests =>
        /\ late' \in Seq(LateRequests) /\ DOMAIN late' = 1..Len(late) + 1
        /\ late'[Len(late) + 1] = Current /\ \A i \in DOMAIN late : late'[i] = late[i]
  BY ONLY <1>f, AppendProperties, LenProperties
<1>1. ConnTypes'
  BY DEF Conn!Break, Conn!conn, Conn!server, Conn!program, ConnTypes
<1>2. ConnFlags'
  BY DEF Conn!Break, Conn!conn, Conn!server, Conn!program, ConnFlags
<1>3. ConnBuffers'
  <2>1. late' \in Seq(LateRequests)
    BY ONLY <1>e, <1>f, <1>g
  <2> QED BY <2>1 DEF Conn!Break, Conn!conn, Conn!program, ConnBuffers
<1>4. DataKept'
  BY DEF Conn!Break, Conn!conn, Conn!server, Conn!program, DataKept
<1>5. Link'
  BY DEF Conn!Break, Conn!conn, Conn!server, Conn!program, Link, ConnBuffers, Busy,
         Buffered, Sent, AnsweredOnce, Arrived, Nowhere, Current, ConnTypes
<1>6. Numbers'
  <2>1. CASE late' = late
    BY ONLY <1>0, <1>a, <2>1 DEF Numbers
  <2>2. CASE /\ late' = Append(late, Current) /\ step = "command" /\ Current \in LateRequests
             /\ Current.call = call /\ Unserved
    <3>1. call \in 1..call
      BY <1>f, <2>2 DEF Begun
    <3>2. \A i \in DOMAIN late : late[i].call < call /\ late[i].call \in 1..call
      BY ONLY <1>0, <2>2 DEF Fresh, Numbers
    <3>3. \A i \in DOMAIN runs : runs[i] < call /\ runs[i] \in 1..call
      BY ONLY <1>0, <2>2 DEF Fresh, Numbers
    <3>4. \A i \in DOMAIN late' : \/ i \in DOMAIN late /\ late'[i] = late[i]
                                  \/ i = Len(late) + 1 /\ late'[i].call = call
      <4>1. \A i \in DOMAIN late' : i \in DOMAIN late \/ i = Len(late) + 1
        BY ONLY <1>f, <1>g, <2>2
      <4>2. late'[Len(late) + 1].call = call
        BY ONLY <1>g, <2>2
      <4>3. \A i \in DOMAIN late : late'[i] = late[i]
        BY ONLY <1>g, <2>2
      <4> TAKE i \in DOMAIN late'
      <4>4. CASE i \in DOMAIN late
        BY ONLY <4>3, <4>4, Zenon
      <4>5. CASE i = Len(late) + 1
        BY ONLY <4>2, <4>5
      <4> QED BY ONLY <4>1, <4>4, <4>5
    <3>5. \A i \in DOMAIN late' : late'[i].call \in 1..call
      BY ONLY <3>1, <3>2, <3>4
    <3>6. \A i, j \in DOMAIN late' : i # j => late'[i].call # late'[j].call
      <4> TAKE i, j \in DOMAIN late'
      <4>1. i \in DOMAIN late /\ j \in DOMAIN late => (i # j => late[i].call # late[j].call)
        BY ONLY <1>0 DEF Numbers
      <4> QED BY ONLY <4>1, <1>f, <3>2, <3>4
    <3>7. \A i \in DOMAIN runs, j \in DOMAIN late' : runs[i] # late'[j].call
      <4> TAKE i \in DOMAIN runs, j \in DOMAIN late'
      <4>1. j \in DOMAIN late => runs[i] # late[j].call
        BY ONLY <1>0 DEF Numbers
      <4> QED BY ONLY <4>1, <1>f, <3>3, <3>4
    <3> QED BY ONLY <1>0, <1>a, <3>5, <3>6, <3>7 DEF Numbers
  <2> QED BY ONLY <1>e, <2>1, <2>2
<1>7. Fresh'
  <2>1. CASE late' = late
    BY ONLY <1>0, <1>a, <2>1 DEF Fresh, Unserved
  <2>2. CASE step = "command" /\ context.obuf = <<>>
    BY ONLY <1>a, <2>2 DEF Fresh, Unserved
  <2> QED BY ONLY <1>e, <2>1, <2>2
<1>8. Begun'
  BY DEF Conn!Break, Conn!conn, Conn!server, Conn!program, Begun, ConnTypes
<1>9. Truthful'
  BY DEF Conn!Break, Conn!conn, Conn!server, Conn!program, Truthful, OwnAnswer, ConnTypes
<1> QED BY <1>1, <1>2, <1>3, <1>4, <1>5, <1>6, <1>7, <1>8, <1>9 DEF ConnInv

LEMMA ConnChangePassword ==
  ASSUME ConnInv, Conn!ChangePassword
  PROVE  ConnInv'
<1>0. /\ ConnTypes /\ ConnFlags /\ ConnBuffers /\ DataKept /\ Link
      /\ Numbers /\ Fresh /\ Begun /\ Truthful
  BY DEF ConnInv
<1> USE <1>0, ConnAssumption, CommandNames, NullContext, ReplyKinds, NoItems
<1>1. ConnTypes'
  BY DEF Conn!ChangePassword, Conn!conn, Conn!server, Conn!program, ConnTypes
<1>2. ConnFlags'
  BY DEF Conn!ChangePassword, Conn!conn, Conn!server, Conn!program, ConnFlags
<1>3. ConnBuffers'
  BY DEF Conn!ChangePassword, Conn!conn, Conn!server, Conn!program, ConnBuffers
<1>4. DataKept'
  BY DEF Conn!ChangePassword, Conn!conn, Conn!server, Conn!program, DataKept
<1>5. Link'
  BY DEF Conn!ChangePassword, Conn!conn, Conn!server, Conn!program, Link, ConnBuffers, Busy,
         Buffered, Sent, AnsweredOnce, Arrived, Nowhere, Current, ConnTypes
<1>6. Numbers'
  BY DEF Conn!ChangePassword, Conn!conn, Conn!server, Conn!program, Numbers, ConnTypes,
         ConnBuffers
<1>7. Fresh'
  BY DEF Conn!ChangePassword, Conn!conn, Conn!server, Conn!program, Fresh, Unserved,
         ConnTypes
<1>8. Begun'
  BY DEF Conn!ChangePassword, Conn!conn, Conn!server, Conn!program, Begun, ConnTypes
<1>9. Truthful'
  BY DEF Conn!ChangePassword, Conn!conn, Conn!server, Conn!program, Truthful, OwnAnswer,
         ConnTypes
<1> QED BY <1>1, <1>2, <1>3, <1>4, <1>5, <1>6, <1>7, <1>8, <1>9 DEF ConnInv

LEMMA ConnTick ==
  ASSUME ConnInv, Conn!Tick
  PROVE  ConnInv'
<1>0. /\ ConnTypes /\ ConnFlags /\ ConnBuffers /\ DataKept /\ Link
      /\ Numbers /\ Fresh /\ Begun /\ Truthful
  BY DEF ConnInv
<1> USE <1>0, ConnAssumption, CommandNames, NullContext, ReplyKinds, NoItems
<1>1. ConnTypes'
  BY DEF Conn!Tick, Conn!conn, Conn!server, Conn!program, ConnTypes
<1>2. ConnFlags'
  BY DEF Conn!Tick, Conn!conn, Conn!server, Conn!program, ConnFlags
<1>3. ConnBuffers'
  BY DEF Conn!Tick, Conn!conn, Conn!server, Conn!program, ConnBuffers
<1>4. DataKept'
  BY DEF Conn!Tick, Conn!conn, Conn!server, Conn!program, DataKept
<1>5. Link'
  BY DEF Conn!Tick, Conn!conn, Conn!server, Conn!program, Link, ConnBuffers, Busy, Buffered,
         Sent, AnsweredOnce, Arrived, Nowhere, Current, ConnTypes
<1>6. Numbers'
  BY DEF Conn!Tick, Conn!conn, Conn!server, Conn!program, Numbers, ConnTypes, ConnBuffers
<1>7. Fresh'
  BY DEF Conn!Tick, Conn!conn, Conn!server, Conn!program, Fresh, Unserved, ConnTypes
<1>8. Begun'
  BY DEF Conn!Tick, Conn!conn, Conn!server, Conn!program, Begun, ConnTypes
<1>9. Truthful'
  BY DEF Conn!Tick, Conn!conn, Conn!server, Conn!program, Truthful, OwnAnswer, ConnTypes
<1> QED BY <1>1, <1>2, <1>3, <1>4, <1>5, <1>6, <1>7, <1>8, <1>9 DEF ConnInv

LEMMA ConnCall ==
  ASSUME ConnInv, NEW cmd \in Names, Conn!Call(cmd)
  PROVE  ConnInv'
<1>0. /\ ConnTypes /\ ConnFlags /\ ConnBuffers /\ DataKept /\ Link
      /\ Numbers /\ Fresh /\ Begun /\ Truthful
  BY DEF ConnInv
<1> USE <1>0, ConnAssumption, CommandNames, NullContext, ReplyKinds, NoItems
<1>1. ConnTypes'
  BY DEF Conn!Call, Conn!conn, Conn!server, Conn!program, ConnTypes
<1>2. ConnFlags'
  BY DEF Conn!Call, Conn!conn, Conn!server, Conn!program, ConnFlags
<1>3. ConnBuffers'
  BY DEF Conn!Call, Conn!conn, Conn!server, Conn!program, ConnBuffers
<1>4. DataKept'
  BY DEF Conn!Call, Conn!conn, Conn!server, Conn!program, DataKept
<1>5. Link'
  BY DEF Conn!Call, Conn!conn, Conn!server, Conn!program, Link, ConnBuffers, Busy, Buffered,
         Sent, AnsweredOnce, Arrived, Nowhere, Current, ConnTypes
<1>6. Numbers'
  BY DEF Conn!Call, Conn!conn, Conn!server, Conn!program, Numbers, ConnTypes, ConnBuffers
<1>7. Fresh'
  <2>1. /\ call' = call + 1 /\ call \in Nat /\ runs' = runs /\ late' = late
    BY DEF Conn!Call, Conn!server, ConnTypes
  <2>2. /\ \A i \in DOMAIN runs : runs[i] \in 1..call
        /\ \A i \in DOMAIN late : late[i].call \in 1..call
    BY DEF Numbers
  <2>3. /\ \A i \in DOMAIN runs : runs[i] < call + 1
        /\ \A i \in DOMAIN late : late[i].call < call + 1
    BY ONLY <2>1, <2>2
  <2> QED BY ONLY <2>1, <2>3 DEF Fresh
<1>8. Begun'
  BY DEF Conn!Call, Conn!conn, Conn!server, Conn!program, Begun, ConnTypes
<1>9. Truthful'
  BY DEF Conn!Call, Conn!conn, Conn!server, Conn!program, Truthful, OwnAnswer, ConnTypes
<1> QED BY <1>1, <1>2, <1>3, <1>4, <1>5, <1>6, <1>7, <1>8, <1>9 DEF ConnInv

LEMMA ConnInitHasContext ==
  ASSUME ConnInv, Conn!InitHasContext
  PROVE  ConnInv'
<1>0. /\ ConnTypes /\ ConnFlags /\ ConnBuffers /\ DataKept /\ Link
      /\ Numbers /\ Fresh /\ Begun /\ Truthful
  BY DEF ConnInv
<1> USE <1>0, ConnAssumption, CommandNames, NullContext, ReplyKinds, NoItems
<1>a. /\ step = "init" /\ step' = "command" /\ context' = Conn!Appended(context, name)
      /\ name \in Names /\ call \in Nat /\ context \in Contexts /\ hasContext
      /\ UNCHANGED <<hasContext, commands, answers, late, up, runs, truth, name, got, call>>
  BY DEF Conn!InitHasContext, Conn!server, ConnTypes, ConnBuffers
<1>b. /\ context' \in Contexts /\ (context'.err <=> context.err)
      /\ context'.reader = context.reader /\ Len(context'.obuf) = Len(context.obuf) + 2
      /\ Len(context.obuf) \in Nat
      /\ context.obuf = <<>> => context'.obuf = <<Part, [name |-> name, call |-> call]>>
  BY ONLY <1>a, AppendedContext
<1>c. ~context.err => Nowhere
  BY <1>a DEF Link, Busy
<1>1. ConnTypes'
  BY DEF Conn!InitHasContext, Conn!conn, Conn!server, Conn!program, ConnTypes
<1>2. ConnFlags'
  BY DEF Conn!InitHasContext, Conn!conn, Conn!server, Conn!program, ConnFlags
<1>3. ConnBuffers'
  BY <1>a, <1>b DEF Conn!InitHasContext, Conn!server, ConnBuffers
<1>4. DataKept'
  BY DEF Conn!InitHasContext, Conn!conn, Conn!server, Conn!program, DataKept
<1>5. Link'
  <2>1. Len(context.obuf) <= 2
    BY <1>a DEF Link
  <2>2. ~context.err => Buffered'
    BY ONLY <1>a, <1>b, <1>c DEF Nowhere, Buffered, Current
  <2> QED BY ONLY <1>0, <1>a, <1>b, <2>1, <2>2 DEF Link, Busy
<1>6. Numbers'
  BY DEF Conn!InitHasContext, Conn!conn, Conn!server, Conn!program, Numbers, ConnTypes,
         ConnBuffers
<1>7. Fresh'
  BY DEF Conn!InitHasContext, Conn!conn, Conn!server, Conn!program, Fresh, Unserved,
         ConnTypes
<1>8. Begun'
  BY DEF Conn!InitHasContext, Conn!conn, Conn!server, Conn!program, Begun, ConnTypes
<1>9. Truthful'
  <2>1. ~context.err => answers = <<>> /\ context.reader = <<>>
    BY ONLY <1>c DEF Nowhere
  <2>2. got = Conn!NoReply
    BY <1>a DEF Truthful
  <2> QED BY ONLY <1>a, <1>b, <2>1, <2>2 DEF Truthful
<1> QED BY <1>1, <1>2, <1>3, <1>4, <1>5, <1>6, <1>7, <1>8, <1>9 DEF ConnInv

LEMMA ConnInitTooSoon ==
  ASSUME ConnInv, Conn!InitTooSoon
  PROVE  ConnInv'
<1>0. /\ ConnTypes /\ ConnFlags /\ ConnBuffers /\ DataKept /\ Link
      /\ Numbers /\ Fresh /\ Begun /\ Truthful
  BY DEF ConnInv
<1> USE <1>0, ConnAssumption, CommandNames, NullContext, ReplyKinds, NoItems
<1>1. ConnTypes'
  BY DEF Conn!InitTooSoon, Conn!conn, Conn!server, Conn!program, ConnTypes
<1>2. ConnFlags'
  BY DEF Conn!InitTooSoon, Conn!conn, Conn!server, Conn!program, ConnFlags
<1>3. ConnBuffers'
  BY DEF Conn!InitTooSoon, Conn!conn, Conn!server, Conn!program, ConnBuffers
<1>4. DataKept'
  BY DEF Conn!InitTooSoon, Conn!conn, Conn!server, Conn!program, DataKept
<1>5. Link'
  BY DEF Conn!InitTooSoon, Conn!conn, Conn!server, Conn!program, Link, ConnBuffers, Busy,
         Buffered, Sent, AnsweredOnce, Arrived, Nowhere, Current, ConnTypes
<1>6. Numbers'
  BY DEF Conn!InitTooSoon, Conn!conn, Conn!server, Conn!program, Numbers, ConnTypes,
         ConnBuffers
<1>7. Fresh'
  BY DEF Conn!InitTooSoon, Conn!conn, Conn!server, Conn!program, Fresh, Unserved, ConnTypes
<1>8. Begun'
  BY DEF Conn!InitTooSoon, Conn!conn, Conn!server, Conn!program, Begun, ConnTypes
<1>9. Truthful'
  BY DEF Conn!InitTooSoon, Conn!conn, Conn!server, Conn!program, Truthful, OwnAnswer,
         ConnTypes
<1> QED BY <1>1, <1>2, <1>3, <1>4, <1>5, <1>6, <1>7, <1>8, <1>9 DEF ConnInv

LEMMA ConnInitConnect ==
  ASSUME ConnInv, Conn!InitConnect
  PROVE  ConnInv'
<1>0. /\ ConnTypes /\ ConnFlags /\ ConnBuffers /\ DataKept /\ Link
      /\ Numbers /\ Fresh /\ Begun /\ Truthful
  BY DEF ConnInv
<1> USE <1>0, ConnAssumption, CommandNames, NullContext, ReplyKinds, NoItems
<1>a. /\ step = "init" /\ name \in Names /\ call \in Nat /\ ~hasContext /\ context = Conn!NULL
      /\ UNCHANGED <<name, got, call>>
  BY DEF Conn!InitConnect, ConnTypes, ConnFlags, Link
<1>b. \/ /\ step' \in {"AUTH", "SELECT"} /\ hasContext' = TRUE
         /\ context' = Conn!Appended(Conn!NULL, step')
         /\ up' = TRUE /\ commands' = <<>> /\ answers' = <<>>
      \/ /\ step' = "done" /\ UNCHANGED <<context, hasContext, up, commands, answers>>
  BY DEF Conn!InitConnect
<1>c. step' \in {"AUTH", "SELECT"} =>
        LET made == Conn!Appended(Conn!NULL, step')
        IN /\ made \in Contexts /\ ~made.err /\ made.reader = <<>> /\ Len(made.obuf) = 2
           /\ made.obuf = <<Part, [name |-> step', call |-> 0]>>
  <2> SUFFICES ASSUME NEW then \in {"AUTH", "SELECT"}
               PROVE  LET made == Conn!Appended(Conn!NULL, then)
                      IN /\ made \in Contexts /\ ~made.err /\ made.reader = <<>>
                         /\ Len(made.obuf) = 2
                         /\ made.obuf = <<Part, [name |-> then, call |-> 0]>>
    OBVIOUS
  <2>1. then # name
    BY ONLY <1>a, CommandNames, ConnAssumption
  <2>2. Len(Conn!NULL.obuf) = 0
    BY ONLY NullContext, NoItems
  <2>3. /\ Conn!Appended(Conn!NULL, then) \in Contexts
        /\ (Conn!Appended(Conn!NULL, then).err <=> Conn!NULL.err)
        /\ Conn!Appended(Conn!NULL, then).reader = Conn!NULL.reader
        /\ Len(Conn!Appended(Conn!NULL, then).obuf) = Len(Conn!NULL.obuf) + 2
        /\ Conn!NULL.obuf = <<>> => Conn!Appended(Conn!NULL, then).obuf =
             <<Part, [name |-> then, call |-> IF then = name THEN call ELSE 0]>>
    BY ONLY <1>a, NullContext, AppendedContext
  <2> QED BY ONLY <2>1, <2>2, <2>3, NullContext
<1>1. ConnTypes'
  BY DEF Conn!InitConnect, Conn!conn, Conn!server, Conn!program, ConnTypes
<1>2. ConnFlags'
  BY DEF Conn!InitConnect, Conn!conn, Conn!server, Conn!program, ConnFlags
<1>3. ConnBuffers'
  <2>1. context' \in Contexts /\ commands' \in Seq(Requests) /\ answers' \in Seq(Replies)
    BY ONLY <1>0, <1>b, <1>c, NoItems DEF ConnBuffers
  <2>2. UNCHANGED <<late, runs>>
    BY DEF Conn!InitConnect
  <2> QED BY ONLY <1>0, <2>1, <2>2 DEF ConnBuffers
<1>4. DataKept'
  BY DEF Conn!InitConnect, Conn!conn, Conn!server, Conn!program, DataKept
<1>5. Link'
  <2>1. CASE step' = "done" /\ UNCHANGED <<context, hasContext, up, commands, answers>>
    BY ONLY <1>0, <1>a, <2>1, NullContext, NoItems DEF Link, Busy, Nowhere
  <2>2. CASE /\ step' \in {"AUTH", "SELECT"} /\ hasContext' = TRUE
             /\ context' = Conn!Appended(Conn!NULL, step')
             /\ up' = TRUE /\ commands' = <<>> /\ answers' = <<>>
    <3>1. /\ ~context'.err /\ context'.reader = <<>> /\ Len(context'.obuf) = 2
          /\ context'.obuf = <<Part, [name |-> step', call |-> 0]>>
      BY ONLY <1>c, <2>2
    <3>2. Buffered' /\ Busy'
      BY ONLY <2>2, <3>1 DEF Buffered, Busy, Current
    <3> QED BY ONLY <2>2, <3>1, <3>2 DEF Link
  <2> QED BY ONLY <1>b, <2>1, <2>2
<1>6. Numbers'
  BY DEF Conn!InitConnect, Conn!conn, Conn!server, Conn!program, Numbers, ConnTypes,
         ConnBuffers
<1>7. Fresh'
  BY DEF Conn!InitConnect, Conn!conn, Conn!server, Conn!program, Fresh, Unserved, ConnTypes
<1>8. Begun'
  BY DEF Conn!InitConnect, Conn!conn, Conn!server, Conn!program, Begun, ConnTypes
<1>9. Truthful'
  BY DEF Conn!InitConnect, Conn!conn, Conn!server, Conn!program, Truthful, OwnAnswer,
         ConnTypes
<1> QED BY <1>1, <1>2, <1>3, <1>4, <1>5, <1>6, <1>7, <1>8, <1>9 DEF ConnInv

LEMMA ConnBufferWrite ==
  ASSUME ConnInv, NEW k \in 1..2, Conn!BufferWrite(k)
  PROVE  ConnInv'
<1>0. /\ ConnTypes /\ ConnFlags /\ ConnBuffers /\ DataKept /\ Link
      /\ Numbers /\ Fresh /\ Begun /\ Truthful
  BY DEF ConnInv
<1> USE <1>0, ConnAssumption, CommandNames, NullContext, ReplyKinds, NoItems
<1>a. /\ Busy /\ ~context.err /\ context.reader = <<>> /\ k \in 1..Len(context.obuf)
      /\ context' = [context EXCEPT !.obuf = SubSeq(context.obuf, k + 1, Len(context.obuf))]
      /\ commands' = (IF ~up THEN <<>>
                      ELSE IF context.obuf[k].name # "part" THEN Append(commands, context.obuf[k])
                      ELSE commands)
      /\ UNCHANGED <<hasContext, answers, late, up, runs, step, name, call>>
  BY DEF Conn!BufferWrite, Conn!program, Busy
<1>b. context.obuf # <<>>
  BY ONLY <1>a, NoItems
<1>c. Buffered
  BY <1>a, <1>b DEF Link, Sent, AnsweredOnce, Arrived, Nowhere
<1>d. Current \in Requests /\ Current.name # "part" /\ Part \in Requests /\ Part.name = "part"
  <2>1. step = "command" => name \in Names /\ name # "part"
    BY CommandNames DEF ConnTypes
  <2> QED BY <1>a, <2>1 DEF Busy, Current, ConnTypes, Requests, Part
<1>e. \/ /\ SubSeq(context.obuf, k + 1, Len(context.obuf)) = <<Current>> /\ commands' = <<>>
      \/ /\ SubSeq(context.obuf, k + 1, Len(context.obuf)) = <<>>
         /\ commands' = IF up THEN <<Current>> ELSE <<>>
  <2>1. commands = <<>> /\ Append(<<>>, Current) = <<Current>>
    BY ONLY <1>c, <1>d, SingleItem DEF Buffered
  <2>2. CASE context.obuf = <<Part, Current>>
    <3>1. /\ Len(context.obuf) = 2 /\ context.obuf[1] = Part /\ context.obuf[2] = Current
          /\ SubSeq(context.obuf, 2, 2) = <<Current>> /\ SubSeq(context.obuf, 3, 2) = <<>>
      BY ONLY <1>d, <2>2, WrittenParts
    <3>2. k = 1 \/ k = 2
      BY ONLY <1>a, <3>1
    <3>3. CASE k = 1
      <4>1. k + 1 = 2
        BY ONLY <3>3
      <4> QED BY ONLY <1>a, <1>d, <2>1, <3>1, <3>3, <4>1
    <3>4. CASE k = 2
      <4>1. k + 1 = 3
        BY ONLY <3>4
      <4> QED BY ONLY <1>a, <1>d, <2>1, <3>1, <3>4, <4>1
    <3> QED BY ONLY <3>2, <3>3, <3>4
  <2>3. CASE context.obuf = <<Current>>
    <3>1. Len(context.obuf) = 1 /\ context.obuf[1] = Current /\ SubSeq(context.obuf, 2, 1) = <<>>
      BY ONLY <1>d, <2>3, WrittenParts, SingleItem
    <3>2. k = 1 /\ k + 1 = 2
      BY ONLY <1>a, <3>1
    <3> QED BY ONLY <1>a, <1>d, <2>1, <3>1, <3>2
  <2> QED BY ONLY <1>c, <2>2, <2>3 DEF Buffered
<1>f. SubSeq(context.obuf, k + 1, Len(context.obuf)) \in Seq(Requests)
        /\ commands' \in Seq(Requests)
  <2>1. <<>> \in Seq(Requests) /\ <<Current>> \in Seq(Requests)
    BY ONLY <1>d, SingleItem, NoItems
  <2> QED BY ONLY <1>e, <2>1
<1>g. context \in Contexts
  BY DEF ConnBuffers
<1>h. /\ context' \in Contexts /\ (context'.err <=> context.err) /\ context'.reader = context.reader
      /\ context'.obuf = SubSeq(context.obuf, k + 1, Len(context.obuf))
  <2>1. \A buffer \in Seq(Requests) : /\ [context EXCEPT !.obuf = buffer] \in Contexts
                                       /\ [context EXCEPT !.obuf = buffer].obuf = buffer
                                       /\ [context EXCEPT !.obuf = buffer].reader = context.reader
                                       /\ ([context EXCEPT !.obuf = buffer].err <=> context.err)
    BY ONLY <1>g, ContextFields
  <2> DEFINE left == SubSeq(context.obuf, k + 1, Len(context.obuf))
  <2> HIDE DEF left
  <2>2. left \in Seq(Requests) /\ context' = [context EXCEPT !.obuf = left]
    BY ONLY <1>a, <1>f DEF left
  <2>3. /\ context' \in Contexts /\ (context'.err <=> context.err)
             /\ context'.reader = context.reader
        /\ context'.obuf = left
    BY ONLY <2>1, <2>2
  <2> QED BY ONLY <2>3 DEF left
<1>1. ConnTypes'
  BY DEF Conn!BufferWrite, Conn!conn, Conn!server, Conn!program, ConnTypes
<1>2. ConnFlags'
  BY DEF Conn!BufferWrite, Conn!conn, Conn!server, Conn!program, ConnFlags
<1>3. ConnBuffers'
  BY ONLY <1>0, <1>a, <1>f, <1>h DEF ConnBuffers
<1>4. DataKept'
  BY DEF Conn!BufferWrite, Conn!conn, Conn!server, Conn!program, DataKept
<1>5. Link'
  <2>1. Current' = Current
    BY ONLY <1>a DEF Current
  <2>2. Buffered' \/ Sent' \/ (Nowhere' /\ ~up')
    BY ONLY <1>a, <1>c, <1>e, <1>h, <2>1 DEF Buffered, Sent, Nowhere
  <2>3. Len(context'.obuf) <= 2
    <3>1. \A n \in {0, 1} : n <= 2
      OBVIOUS
    <3>2. Len(<<Current>>) = 1 /\ Len(<<>>) = 0
      BY ONLY <1>d, SingleItem, NoItems
    <3> DEFINE one == <<Current>>
               none == <<>>
    <3>3. Len(one) = 1 /\ Len(none) = 0 /\ (context'.obuf = one \/ context'.obuf = none)
      BY ONLY <3>2, <1>e, <1>h
    <3> HIDE DEF one, none
    <3>4. Len(context'.obuf) \in {0, 1}
      BY ONLY <3>3, Zenon
    <3> QED BY ONLY <3>1, <3>4, Zenon
  <2>4. hasContext /\ (~up' => commands' = <<>>)
    BY ONLY <1>0, <1>a, <1>e DEF Link
  <2> QED BY ONLY <1>0, <1>a, <1>h, <2>2, <2>3, <2>4 DEF Link, Busy
<1>6. Numbers'
  BY DEF Conn!BufferWrite, Conn!conn, Conn!server, Conn!program, Numbers, ConnTypes,
         ConnBuffers
<1>7. Fresh'
  BY DEF Conn!BufferWrite, Conn!conn, Conn!server, Conn!program, Fresh, Unserved, ConnTypes
<1>8. Begun'
  BY DEF Conn!BufferWrite, Conn!conn, Conn!server, Conn!program, Begun, ConnTypes
<1>9. Truthful'
  BY DEF Conn!BufferWrite, Conn!conn, Conn!server, Conn!program, Truthful, OwnAnswer,
         ConnTypes
<1> QED BY <1>1, <1>2, <1>3, <1>4, <1>5, <1>6, <1>7, <1>8, <1>9 DEF ConnInv

LEMMA ConnBufferRead ==
  ASSUME ConnInv, Conn!BufferRead
  PROVE  ConnInv'
<1>0. /\ ConnTypes /\ ConnFlags /\ ConnBuffers /\ DataKept /\ Link
      /\ Numbers /\ Fresh /\ Begun /\ Truthful
  BY DEF ConnInv
<1> USE <1>0, ConnAssumption, CommandNames, NullContext, ReplyKinds, NoItems
<1>1. ConnTypes'
  BY DEF Conn!BufferRead, Conn!conn, Conn!server, Conn!program, ConnTypes
<1>2. ConnFlags'
  BY DEF Conn!BufferRead, Conn!conn, Conn!server, Conn!program, ConnFlags
<1>3. ConnBuffers'
  <2>1. context \in Contexts /\ answers \in Seq(Replies)
    BY DEF ConnBuffers
  <2>2. context' \in Contexts
    BY <2>1, ContextFields DEF Conn!BufferRead
  <2> QED BY <2>2 DEF Conn!BufferRead, ConnBuffers
<1>4. DataKept'
  BY DEF Conn!BufferRead, Conn!conn, Conn!server, Conn!program, DataKept
<1>5. Link'
  BY DEF Conn!BufferRead, Conn!conn, Conn!server, Conn!program, Link, ConnBuffers, Busy,
         Buffered, Sent, AnsweredOnce, Arrived, Nowhere, Current, ConnTypes
<1>6. Numbers'
  BY DEF Conn!BufferRead, Conn!conn, Conn!server, Conn!program, Numbers, ConnTypes,
         ConnBuffers
<1>7. Fresh'
  BY DEF Conn!BufferRead, Conn!conn, Conn!server, Conn!program, Fresh, Unserved, ConnTypes
<1>8. Begun'
  BY DEF Conn!BufferRead, Conn!conn, Conn!server, Conn!program, Begun, ConnTypes
<1>9. Truthful'
  BY DEF Conn!BufferRead, Conn!conn, Conn!server, Conn!program, Truthful, OwnAnswer,
         ConnTypes
<1> QED BY <1>1, <1>2, <1>3, <1>4, <1>5, <1>6, <1>7, <1>8, <1>9 DEF ConnInv

LEMMA ConnIOError ==
  ASSUME ConnInv, Conn!IOError
  PROVE  ConnInv'
<1>0. /\ ConnTypes /\ ConnFlags /\ ConnBuffers /\ DataKept /\ Link
      /\ Numbers /\ Fresh /\ Begun /\ Truthful
  BY DEF ConnInv
<1> USE <1>0, ConnAssumption, CommandNames, NullContext, ReplyKinds, NoItems
<1>1. ConnTypes'
  BY DEF Conn!IOError, Conn!conn, Conn!server, Conn!program, ConnTypes
<1>2. ConnFlags'
  BY DEF Conn!IOError, Conn!conn, Conn!server, Conn!program, ConnFlags
<1>3. ConnBuffers'
  <2>1. context \in Contexts
    BY DEF ConnBuffers
  <2>2. context' \in Contexts
    BY <2>1, ContextFields DEF Conn!IOError
  <2> QED BY <2>2 DEF Conn!IOError, Conn!server, ConnBuffers
<1>4. DataKept'
  BY DEF Conn!IOError, Conn!conn, Conn!server, Conn!program, DataKept
<1>5. Link'
  BY DEF Conn!IOError, Conn!conn, Conn!server, Conn!program, Link, ConnBuffers, Busy,
         Buffered, Sent, AnsweredOnce, Arrived, Nowhere, Current, ConnTypes
<1>6. Numbers'
  BY DEF Conn!IOError, Conn!conn, Conn!server, Conn!program, Numbers, ConnTypes, ConnBuffers
<1>7. Fresh'
  BY DEF Conn!IOError, Conn!conn, Conn!server, Conn!program, Fresh, Unserved, ConnTypes
<1>8. Begun'
  BY DEF Conn!IOError, Conn!conn, Conn!server, Conn!program, Begun, ConnTypes
<1>9. Truthful'
  BY DEF Conn!IOError, Conn!conn, Conn!server, Conn!program, Truthful, OwnAnswer, ConnTypes
<1> QED BY <1>1, <1>2, <1>3, <1>4, <1>5, <1>6, <1>7, <1>8, <1>9 DEF ConnInv

LEMMA ConnNoReplyComes ==
  ASSUME ConnInv, Conn!NoReplyComes
  PROVE  ConnInv'
<1>0. /\ ConnTypes /\ ConnFlags /\ ConnBuffers /\ DataKept /\ Link
      /\ Numbers /\ Fresh /\ Begun /\ Truthful
  BY DEF ConnInv
<1> USE <1>0, ConnAssumption, CommandNames, NullContext, ReplyKinds, NoItems
<1>1. ConnTypes'
  BY DEF Conn!NoReplyComes, Conn!conn, Conn!server, Conn!program, ConnTypes
<1>2. ConnFlags'
  BY DEF Conn!NoReplyComes, Conn!conn, Conn!server, Conn!program, ConnFlags
<1>3. ConnBuffers'
  BY DEF Conn!NoReplyComes, Conn!conn, Conn!server, Conn!program, ConnBuffers
<1>4. DataKept'
  BY DEF Conn!NoReplyComes, Conn!conn, Conn!server, Conn!program, DataKept
<1>5. Link'
  BY DEF Conn!NoReplyComes, Conn!conn, Conn!server, Conn!program, Link, ConnBuffers, Busy,
         Buffered, Sent, AnsweredOnce, Arrived, Nowhere, Current, ConnTypes
<1>6. Numbers'
  BY DEF Conn!NoReplyComes, Conn!conn, Conn!server, Conn!program, Numbers, ConnTypes,
         ConnBuffers
<1>7. Fresh'
  BY DEF Conn!NoReplyComes, Conn!conn, Conn!server, Conn!program, Fresh, Unserved, ConnTypes
<1>8. Begun'
  BY DEF Conn!NoReplyComes, Conn!conn, Conn!server, Conn!program, Begun, ConnTypes
<1>9. Truthful'
  BY DEF Conn!NoReplyComes, Conn!conn, Conn!server, Conn!program, Truthful, OwnAnswer,
         ConnTypes
<1> QED BY <1>1, <1>2, <1>3, <1>4, <1>5, <1>6, <1>7, <1>8, <1>9 DEF ConnInv

LEMMA ConnReplyComes ==
  ASSUME ConnInv, Conn!ReplyComes
  PROVE  ConnInv'
<1>0. /\ ConnTypes /\ ConnFlags /\ ConnBuffers /\ DataKept /\ Link
      /\ Numbers /\ Fresh /\ Begun /\ Truthful
  BY DEF ConnInv
<1> USE <1>0, ConnAssumption, CommandNames, NullContext, ReplyKinds, NoItems
<1> DEFINE reply == Head(context.reader)
           rest == [context EXCEPT !.reader = Tail(context.reader)]
<1>a. /\ Busy /\ context.reader # <<>>
      /\ step' = (IF step = "command" \/ reply.type = "ERROR" THEN "done"
                  ELSE IF step = "AUTH" THEN "SELECT" ELSE "command")
      /\ context' = IF step' = "done" THEN rest
                    ELSE Conn!Appended(rest, IF step' = "SELECT" THEN "SELECT" ELSE name)
      /\ got' = (IF step = "command" THEN reply ELSE got)
      /\ UNCHANGED <<hasContext, commands, answers, late, up, runs, truth, name, call>>
      /\ UNCHANGED <<clock, m_last_connect_time>>
  BY DEF Conn!ReplyComes, Conn!server, Busy
<1>b. ~context.err /\ Arrived
  BY <1>a DEF Link, Buffered, Sent, AnsweredOnce, Arrived, Nowhere
<1>c. context \in Contexts /\ context.reader \in Seq(Replies)
  BY ContextFields DEF ConnBuffers
<1>d. reply \in Replies /\ Tail(context.reader) = <<>>
  <2>1. Len(context.reader) = 1
    BY ONLY <1>b DEF Arrived
  <2>2. /\ Head(context.reader) \in Replies /\ Tail(context.reader) \in Seq(Replies)
        /\ Len(Tail(context.reader)) = 0
    BY ONLY <1>a, <1>c, <2>1, HeadTailProperties
  <2> QED BY ONLY <2>2, EmptySeq
<1>e. rest \in Contexts /\ ~rest.err /\ rest.obuf = <<>> /\ rest.reader = <<>> /\ Len(rest.obuf) = 0
  <2>1. \A read \in Seq(Replies) : /\ [context EXCEPT !.reader = read] \in Contexts
                                    /\ [context EXCEPT !.reader = read].reader = read
                                    /\ [context EXCEPT !.reader = read].obuf = context.obuf
                                    /\ ([context EXCEPT !.reader = read].err <=> context.err)
    BY ONLY <1>c, ContextFields
  <2>2. rest = [context EXCEPT !.reader = <<>>] /\ <<>> \in Seq(Replies) /\ Len(<<>>) = 0
    BY ONLY <1>d, NoItems
  <2> HIDE DEF rest
  <2>3. rest \in Contexts /\ (rest.err <=> context.err) /\ rest.obuf = context.obuf
          /\ rest.reader = <<>>
    BY ONLY <2>1, <2>2
  <2> QED BY ONLY <1>b, <2>2, <2>3 DEF Arrived
<1> HIDE DEF reply, rest
<1>f. name \in Names /\ call \in Nat /\ name \notin {"AUTH", "SELECT"}
  <2>1. name \in Names /\ call \in Nat
    BY <1>a DEF ConnTypes, Busy
  <2> QED BY ONLY <2>1, CommandNames, ConnAssumption
<1>g. /\ step' = "done" /\ (step = "command" \/ got' = got)
      /\ context' = rest
   \/ /\ step # "command" /\ step' \in {"SELECT", "command"} /\ got' = got
      /\ context' = Conn!Appended(rest, IF step' = "SELECT" THEN "SELECT" ELSE name)
  BY ONLY <1>a
<1>h. step' \in {"SELECT", "command"}
        /\ context' = Conn!Appended(rest, IF step' = "SELECT" THEN "SELECT" ELSE name) =>
        /\ context' \in Contexts /\ ~context'.err /\ context'.reader = <<>>
             /\ Len(context'.obuf) = 2
        /\ context'.obuf = <<Part, Current'>>
  <2>1. ASSUME NEW then \in {"SELECT", name}
        PROVE  /\ Conn!Appended(rest, then) \in Contexts /\ ~Conn!Appended(rest, then).err
               /\ Conn!Appended(rest, then).reader = <<>> /\ Len(Conn!Appended(rest, then).obuf) = 2
               /\ Conn!Appended(rest, then).obuf =
                    <<Part, [name |-> then, call |-> IF then = name THEN call ELSE 0]>>
    <3>1. then \in Names \union {"AUTH", "SELECT"}
      BY ONLY <1>f
    <3>2. /\ Conn!Appended(rest, then) \in Contexts /\ (Conn!Appended(rest, then).err <=> rest.err)
          /\ Conn!Appended(rest, then).reader = rest.reader
          /\ Len(Conn!Appended(rest, then).obuf) = Len(rest.obuf) + 2
          /\ rest.obuf = <<>> => Conn!Appended(rest, then).obuf =
               <<Part, [name |-> then, call |-> IF then = name THEN call ELSE 0]>>
      BY ONLY <1>e, <1>f, <3>1, AppendedContext
    <3> QED BY ONLY <1>e, <3>2
  <2>2. CASE step' = "SELECT"
    <3>1. Current' = [name |-> "SELECT", call |-> 0] /\ "SELECT" # name
      BY ONLY <1>f, <2>2 DEF Current
    <3> QED BY ONLY <2>1, <2>2, <3>1
  <2>3. CASE step' = "command"
    <3>1. Current' = [name |-> name, call |-> call]
      BY ONLY <1>a, <2>3 DEF Current
    <3> QED BY ONLY <2>1, <2>3, <3>1
  <2> QED BY ONLY <2>2, <2>3
<1>1. ConnTypes'
  <2>1. got' \in Replies
    BY <1>a, <1>d DEF ConnTypes
  <2>2. step' \in {"done", "SELECT", "command"}
    BY ONLY <1>g
  <2> QED BY ONLY <1>0, <1>a, <1>f, <2>1, <2>2 DEF ConnTypes
<1>2. ConnFlags'
  BY DEF Conn!ReplyComes, Conn!conn, Conn!server, Conn!program, ConnFlags
<1>3. ConnBuffers'
  <2>1. context' \in Contexts
    BY ONLY <1>e, <1>g, <1>h
  <2> QED BY ONLY <1>0, <1>a, <2>1 DEF ConnBuffers
<1>4. DataKept'
  BY DEF Conn!ReplyComes, Conn!conn, Conn!server, Conn!program, DataKept
<1>5. Link'
  <2>1. commands = <<>> /\ answers = <<>> /\ hasContext
    BY <1>a, <1>b DEF Arrived, Link
  <2>2. CASE step' = "done" /\ context' = rest
    BY ONLY <1>0, <1>a, <1>e, <2>1, <2>2 DEF Link, Busy, Nowhere
  <2>3. CASE step' \in {"SELECT", "command"}
          /\ context' = Conn!Appended(rest, IF step' = "SELECT" THEN "SELECT" ELSE name)
    <3>1. /\ ~context'.err /\ context'.reader = <<>> /\ Len(context'.obuf) = 2
          /\ context'.obuf = <<Part, Current'>>
      BY ONLY <1>h, <2>3
    <3>2. Buffered' /\ Busy'
      BY ONLY <1>a, <2>1, <2>3, <3>1 DEF Buffered, Busy
    <3>3. up' = up /\ commands' = <<>> /\ hasContext' = hasContext
      BY ONLY <1>a, <2>1
    <3>4. Len(context'.obuf) <= 2 /\ Len(context'.obuf) <= 4
      BY ONLY <3>1
    <3> QED BY ONLY <2>1, <3>1, <3>2, <3>3, <3>4 DEF Link
  <2> QED BY ONLY <1>g, <2>2, <2>3
<1>6. Numbers'
  BY DEF Conn!ReplyComes, Conn!conn, Conn!server, Conn!program, Numbers, ConnTypes,
         ConnBuffers
<1>7. Fresh'
  BY DEF Conn!ReplyComes, Conn!conn, Conn!server, Conn!program, Fresh, Unserved, ConnTypes
<1>8. Begun'
  BY DEF Conn!ReplyComes, Conn!conn, Conn!server, Conn!program, Begun, ConnTypes
<1>9. Truthful'
  <2>1. \A r : OwnAnswer(r)' <=> OwnAnswer(r)
    BY ONLY <1>a DEF OwnAnswer, Shape
  <2>2. answers = <<>> /\ answers' = <<>> /\ context'.reader = <<>>
    BY ONLY <1>a, <1>b, <1>e, <1>g, <1>h DEF Arrived
  <2>3. CASE step = "command"
    <3>1. OwnAnswer(reply)
      BY <1>a, <1>b, <2>3 DEF Truthful, reply
    <3>2. step' = "done" /\ got' = reply
      BY ONLY <1>a, <2>3
    <3> QED BY ONLY <2>1, <2>2, <3>1, <3>2 DEF Truthful
  <2>4. CASE step # "command"
    <3>1. got = Conn!NoReply
      BY <1>a, <2>4 DEF Truthful, Busy
    <3>2. got' = got
      BY ONLY <1>a, <2>4
    <3> QED BY ONLY <2>2, <3>1, <3>2 DEF Truthful, Conn!NoReply
  <2> QED BY ONLY <2>3, <2>4
<1> QED BY <1>1, <1>2, <1>3, <1>4, <1>5, <1>6, <1>7, <1>8, <1>9 DEF ConnInv

LEMMA ConnReturn ==
  ASSUME ConnInv, Conn!Return
  PROVE  ConnInv'
<1>0. /\ ConnTypes /\ ConnFlags /\ ConnBuffers /\ DataKept /\ Link
      /\ Numbers /\ Fresh /\ Begun /\ Truthful
  BY DEF ConnInv
<1> USE <1>0, ConnAssumption, CommandNames, NullContext, ReplyKinds, NoItems
<1>1. ConnTypes'
  BY DEF Conn!Return, Conn!conn, Conn!server, Conn!program, ConnTypes
<1>2. ConnFlags'
  BY DEF Conn!Return, Conn!conn, Conn!server, Conn!program, ConnFlags
<1>3. ConnBuffers'
  BY DEF Conn!Return, Conn!conn, Conn!server, Conn!program, ConnBuffers
<1>4. DataKept'
  BY DEF Conn!Return, Conn!conn, Conn!server, Conn!program, DataKept
<1>5. Link'
  BY DEF Conn!Return, Conn!conn, Conn!server, Conn!program, Link, ConnBuffers, Busy,
         Buffered, Sent, AnsweredOnce, Arrived, Nowhere, Current, ConnTypes
<1>6. Numbers'
  BY DEF Conn!Return, Conn!conn, Conn!server, Conn!program, Numbers, ConnTypes, ConnBuffers
<1>7. Fresh'
  BY DEF Conn!Return, Conn!conn, Conn!server, Conn!program, Fresh, Unserved, ConnTypes
<1>8. Begun'
  BY DEF Conn!Return, Conn!conn, Conn!server, Conn!program, Begun, ConnTypes
<1>9. Truthful'
  BY DEF Conn!Return, Conn!conn, Conn!server, Conn!program, Truthful, OwnAnswer, ConnTypes
<1> QED BY <1>1, <1>2, <1>3, <1>4, <1>5, <1>6, <1>7, <1>8, <1>9 DEF ConnInv

LEMMA ConnDeInit ==
  ASSUME ConnInv, Conn!DeInit
  PROVE  ConnInv'
<1>0. /\ ConnTypes /\ ConnFlags /\ ConnBuffers /\ DataKept /\ Link
      /\ Numbers /\ Fresh /\ Begun /\ Truthful
  BY DEF ConnInv
<1> USE <1>0, ConnAssumption, CommandNames, NullContext, ReplyKinds, NoItems
<1>1. ConnTypes'
  BY DEF Conn!DeInit, Conn!conn, Conn!server, Conn!program, ConnTypes
<1>2. ConnFlags'
  BY DEF Conn!DeInit, Conn!conn, Conn!server, Conn!program, ConnFlags
<1>3. ConnBuffers'
  BY DEF Conn!DeInit, Conn!conn, Conn!server, Conn!program, ConnBuffers
<1>4. DataKept'
  BY DEF Conn!DeInit, Conn!conn, Conn!server, Conn!program, DataKept
<1>5. Link'
  BY DEF Conn!DeInit, Conn!conn, Conn!server, Conn!program, Link, ConnBuffers, Busy,
         Buffered, Sent, AnsweredOnce, Arrived, Nowhere, Current, ConnTypes
<1>6. Numbers'
  BY DEF Conn!DeInit, Conn!conn, Conn!server, Conn!program, Numbers, ConnTypes, ConnBuffers
<1>7. Fresh'
  BY DEF Conn!DeInit, Conn!conn, Conn!server, Conn!program, Fresh, Unserved, ConnTypes
<1>8. Begun'
  BY DEF Conn!DeInit, Conn!conn, Conn!server, Conn!program, Begun, ConnTypes
<1>9. Truthful'
  BY DEF Conn!DeInit, Conn!conn, Conn!server, Conn!program, Truthful, OwnAnswer, ConnTypes
<1> QED BY <1>1, <1>2, <1>3, <1>4, <1>5, <1>6, <1>7, <1>8, <1>9 DEF ConnInv

LEMMA ConnStep == ConnInv /\ Conn!Next => ConnInv'
<1> SUFFICES ASSUME ConnInv, Conn!Next PROVE ConnInv'
  OBVIOUS
<1>1. ASSUME NEW cmd \in Names, Conn!Call(cmd) PROVE ConnInv'
  BY <1>1, ConnCall
<1>2. ASSUME NEW k \in 1..2, Conn!BufferWrite(k) PROVE ConnInv'
  BY <1>2, ConnBufferWrite
<1> QED BY <1>1, <1>2, ConnServe, ConnServeLate, ConnBreak, ConnChangePassword, ConnTick,
          ConnInitHasContext, ConnInitTooSoon, ConnInitConnect, ConnBufferRead, ConnIOError,
          ConnNoReplyComes, ConnReplyComes, ConnReturn, ConnDeInit DEF Conn!Next

LEMMA ConnFrame == ConnInv /\ UNCHANGED connVars => ConnInv'
<1> SUFFICES ASSUME ConnInv, UNCHANGED connVars PROVE ConnInv'
  OBVIOUS
<1>1. ConnTypes' /\ ConnFlags' /\ ConnBuffers' /\ DataKept'
  BY DEF ConnInv, connVars, ConnTypes, ConnFlags, ConnBuffers, DataKept
<1>2. Link'
  BY DEF ConnInv, connVars, Link, Busy, Buffered, Sent, AnsweredOnce, Arrived, Nowhere,
         Current
<1>3. Numbers' /\ Fresh' /\ Begun' /\ Truthful'
  BY DEF ConnInv, connVars, Numbers, Fresh, Unserved, Begun, Truthful, OwnAnswer, Shape
<1> QED BY <1>1, <1>2, <1>3 DEF ConnInv

\* What a call returns when there was no reply is what it returns for no other reply but these.
LEMMA FailureValues ==
  ASSUME NEW cmd, NEW r \in Replies, Shape(cmd, r),
         Conn!Result(cmd, r) = Conn!Result(cmd, Conn!NoReply)
  PROVE  \/ r.type \in {"ERROR", "NIL"} \/ cmd = "flushdb"
         \/ cmd \in {"isExists", "del", "hdel"} /\ r.n = 0
         \/ cmd \in {"decr", "incrBy", "hincrBy"} /\ r.n = -1
<1> DEFINE none == Conn!NoReply
<1>0. none.type = "none" /\ none.n = -1
  BY DEF Conn!NoReply
<1>1. none.type # "STRING" /\ none.type # "ARRAY" /\ none.type # "INTEGER"
  BY ONLY <1>0
<1> PICK n \in Int : n = r.n
  BY DEF Replies
<1>2. r.type \notin {"none"} => r # none
  BY ONLY <1>0
<1> HIDE DEF none
<1>3. CASE r.type = "ERROR" \/ cmd = "flushdb"
  BY ONLY <1>3
<1>4. CASE cmd \in {"set", "setex", "hmset"} /\ r.type = "STATUS"
  <2>1. Conn!Result(cmd, r) = Conn!TextOfAny(r) /\ Conn!Result(cmd, none) = Conn!TextOfAny(none)
    BY ONLY <1>4 DEF Conn!Result, Conn!StringResult, Conn!FieldResult
  <2>2. Conn!TextOfAny(r) = <<r.type>> /\ Conn!TextOfAny(none) = <<>>
    BY ONLY <1>2, <1>4 DEF Conn!TextOfAny, none
  <2>3. <<r.type>> # <<>>
    OBVIOUS
  <2> QED BY <2>1, <2>2, <2>3 DEF none
<1>5. CASE cmd \in {"get", "hget"} /\ r.type \in {"STRING", "NIL"}
  <2>1. Conn!Result(cmd, r) = Conn!Text(r) /\ Conn!Result(cmd, none) = Conn!Text(none)
    BY ONLY <1>5 DEF Conn!Result, Conn!StringResult, Conn!HashResult
  <2>2. r.type = "STRING" => Conn!Text(r) = <<r.n>> /\ Conn!Text(none) = <<>>
    BY ONLY <1>1 DEF Conn!Text
  <2>3. <<r.n>> # <<>>
    OBVIOUS
  <2> QED BY <1>5, <2>1, <2>2, <2>3 DEF none
<1>6. CASE cmd \in {"mget", "hgetAll", "hmget", "lrange"} /\ r.type = "ARRAY"
  <2>1. Conn!Result(cmd, r) = Conn!Table(r) /\ Conn!Result(cmd, none) = Conn!Table(none)
    BY ONLY <1>6 DEF Conn!Result, Conn!StringResult, Conn!HashResult, Conn!FieldResult,
       Conn!CountResult
  <2>2. (Conn!Table(r)[1] <=> r # none) /\ ~Conn!Table(none)[1]
    BY ONLY <1>1 DEF Conn!Table, none
  <2>3. r # none
    BY ONLY <1>2, <1>6
  <2> QED BY <2>1, <2>2, <2>3 DEF none
<1>7. CASE cmd = "isExists" /\ r.type = "INTEGER" /\ r.n \in 0..1
  <2>1. Conn!Result(cmd, r) = <<Conn!Integer(r, 0) # 0>>
          /\ Conn!Result(cmd, none) = <<Conn!Integer(none, 0) # 0>>
    BY ONLY <1>7 DEF Conn!Result, Conn!KeyResult
  <2>2. Conn!Integer(r, 0) = r.n /\ Conn!Integer(none, 0) = 0
    BY ONLY <1>2, <1>7 DEF Conn!Integer, none
  <2>3. ASSUME r.n # 0 PROVE FALSE
    <3>1. (Conn!Integer(r, 0) # 0) = TRUE /\ (Conn!Integer(none, 0) # 0) = FALSE
      BY ONLY <2>2, <2>3
    <3>2. <<(Conn!Integer(r, 0) # 0)>> = <<(Conn!Integer(none, 0) # 0)>>
      BY <2>1 DEF none
    <3>3. \A p, q : <<p>> = <<q>> => p = q
      OBVIOUS
    <3>4. (Conn!Integer(r, 0) # 0) = (Conn!Integer(none, 0) # 0)
      BY ONLY <3>2, <3>3, Zenon
    <3> QED BY ONLY <3>1, <3>4
  <2> QED BY <1>7, <2>3
<1>8. CASE cmd \in {"del", "hdel"} /\ r.type = "INTEGER"
  <2>1. Conn!Result(cmd, r) = <<Conn!Integer(r, 0)>>
          /\ Conn!Result(cmd, none) = <<Conn!Integer(none, 0)>>
    BY ONLY <1>8 DEF Conn!Result, Conn!KeyResult, Conn!HashResult
  <2>2. Conn!Integer(r, 0) = r.n /\ Conn!Integer(none, 0) = 0
    BY ONLY <1>2, <1>8 DEF Conn!Integer, none
  <2>3. Conn!Result(cmd, r)[1] = r.n /\ Conn!Result(cmd, none)[1] = 0
    BY ONLY <2>1, <2>2
  <2> QED BY <1>8, <2>3 DEF none
<1>9. CASE /\ cmd \in {"hset", "incr", "lpush", "rpush", "llen", "decr", "incrBy", "hincrBy"}
           /\ r.type = "INTEGER"
  <2>1. Conn!Result(cmd, r) = <<Conn!Integer(r, -1)>>
          /\ Conn!Result(cmd, none) = <<Conn!Integer(none, -1)>>
    BY ONLY <1>9 DEF Conn!Result, Conn!HashResult, Conn!FieldResult, Conn!CountResult
  <2>2. Conn!Integer(r, -1) = r.n /\ Conn!Integer(none, -1) = -1
    BY ONLY <1>2, <1>9 DEF Conn!Integer, none
  <2>3. Conn!Result(cmd, r)[1] = r.n /\ Conn!Result(cmd, none)[1] = -1
    BY ONLY <2>1, <2>2
  <2>4. r.n = -1
    BY <2>3 DEF none
  <2>5. cmd \in {"decr", "incrBy", "hincrBy"}
    BY <1>9, <2>4 DEF Shape
  <2> QED BY ONLY <2>4, <2>5
<1> QED BY <1>3, <1>4, <1>5, <1>6, <1>7, <1>8, <1>9 DEF Shape

LEMMA ConnSafe == ConnInv => Conn!TypeOK /\ Conn!AnswersOwnCall
<1> SUFFICES ASSUME ConnInv PROVE Conn!TypeOK /\ Conn!AnswersOwnCall
  OBVIOUS
<1>0. ConnTypes /\ ConnFlags /\ ConnBuffers /\ Link /\ Numbers /\ Truthful
  BY DEF ConnInv
<1>1. context.err \in BOOLEAN
  BY <1>0, ContextFields DEF ConnBuffers
<1>2. {hasContext, up, authed, lets, m_password} \subseteq BOOLEAN
  BY <1>0 DEF ConnFlags
<1>3. Len(context.obuf) <= 4 /\ Len(context.reader) <= 1
  <2>1. context.obuf \in Seq(Requests)
    BY <1>0, ContextFields DEF ConnBuffers
  <2> PICK n \in Nat : n = Len(context.obuf)
    BY ONLY <2>1, LenProperties
  <2>2. n <= (IF step = "command" THEN 4 ELSE 2)
    BY <1>0 DEF Link
  <2>3. context.reader = <<>> \/ Len(context.reader) = 1
    BY ONLY <1>0 DEF Link, Buffered, Sent, AnsweredOnce, Arrived, Nowhere
  <2> DEFINE nothing == <<>>
  <2>4. Len(nothing) = 0 /\ (context.reader = nothing \/ Len(context.reader) = 1)
    BY ONLY <2>3, NoItems
  <2> HIDE DEF nothing
  <2>5. Len(context.reader) \in {0, 1}
    BY ONLY <2>4, Zenon
  <2>6. \A m \in {0, 1} : m <= 1
    OBVIOUS
  <2>7. Len(context.reader) <= 1
    BY ONLY <2>5, <2>6, Zenon
  <2> QED BY <2>2, <2>7
<1>4. Conn!TypeOK
  BY <1>0, <1>1, <1>2, <1>3 DEF Conn!TypeOK, ConnTypes, Link
<1>5. got # Conn!NoReply => got = truth /\ OwnAnswer(got)
  BY <1>0 DEF Truthful, OwnAnswer
<1>6. got \in Replies
  BY <1>0 DEF ConnTypes
<1>7. step = "done" /\ got # Conn!NoReply
        /\ Conn!Result(name, got) = Conn!Result(name, Conn!NoReply) =>
        \/ got.type \in {"ERROR", "NIL"} \/ name = "flushdb"
        \/ name \in {"isExists", "del", "hdel"} /\ got.n = 0
        \/ name \in {"decr", "incrBy", "hincrBy"} /\ got.n = -1
  BY ONLY <1>5, <1>6, FailureValues DEF OwnAnswer
<1>8. Conn!AnswersOwnCall
  BY ONLY <1>0, <1>5, <1>7 DEF Conn!AnswersOwnCall, Numbers, OwnAnswer
<1> QED BY <1>4, <1>8

-----------------------------------------------------------------------------
CONSTANTS
  \* RedisConnect
  MaxFd, Addresses, REDIS_CONNECT_RETRIES, MaxOpened

\* net.c tries to bind a port at least once (REDIS_CONNECT_RETRIES is 10).
ASSUME ConnectAssumption ==
  /\ MaxFd \in Nat /\ Addresses \in Nat /\ MaxOpened \in Nat
  /\ REDIS_CONNECT_RETRIES \in Nat \ {0}

VARIABLES
  files, kind, connection_type, fd, err, p, reuses, connecting, endpoint, blocking, opened,
  stale, robbed, silent

connectVars == <<files, kind, connection_type, fd, err, p, reuses, connecting, endpoint,
                 blocking, opened, stale, robbed, silent>>

Connect == INSTANCE RedisConnect WITH pc <- connecting, socket <- endpoint

-----------------------------------------------------------------------------
(* How a Redis context gets its socket (net.c, hiredis.c).                      *)

\* Where the connecting has a socket, and where it has none yet, but for the descriptor
\* 0, which redisReconnect does not close.
HasSocket == \/ connecting \in {"nonblock", "bind", "connect", "wait", "block", "nodelay"}
             \/ connecting = "timeout" /\ ~kind.tcp
TriesSocket == \/ connecting \in {"socket", "resolve"}
               \/ connecting = "timeout" /\ kind.tcp

\* c->fd is a descriptor of the context, or none, or 0, or one that redisReconnect has
\* closed.
SocketKept ==
  /\ HasSocket => endpoint # "none" /\ p <= Addresses
  /\ TriesSocket => endpoint = "none" \/ fd = 0
  /\ connecting = "none" => endpoint = "none"
  /\ endpoint = "none" => fd \in {-1, 0} \/ stale
  /\ endpoint # "none" => fd \in Connect!Fds
  /\ connection_type = "tcp" => kind.tcp
  /\ connection_type = "unix" => ~kind.tcp
  /\ connecting # "idle" => reuses < REDIS_CONNECT_RETRIES

\* What the last steps of the connecting have made of the socket.
Finishing ==
  /\ connecting \in {"block", "nodelay"} =>
       endpoint = "connected" \/ (endpoint = "pending" /\ ~kind.block)
  /\ connecting = "nodelay" => blocking = kind.block

ConnectTypes ==
  /\ files \in [Connect!Fds -> {"free", "ours", "theirs"}] /\ kind \in Connect!Kinds
  /\ fd \in -1..MaxFd /\ connection_type \in {"none", "tcp", "unix"}
  /\ p \in 1..Addresses + 1 /\ reuses \in 0..REDIS_CONNECT_RETRIES /\ opened \in 0..MaxOpened
  /\ connecting \in {"none", "idle", "timeout", "resolve", "socket", "nonblock", "bind",
                    "connect", "wait", "block", "nodelay"}
  /\ endpoint \in {"none", "made", "pending", "connected"}

ConnectFlags ==
  /\ err \in BOOLEAN /\ blocking \in BOOLEAN /\ stale \in BOOLEAN
  /\ robbed \in BOOLEAN /\ silent \in BOOLEAN

ConnectInv == /\ ConnectTypes /\ ConnectFlags /\ SocketKept /\ Finishing
              /\ Connect!DescriptorsOwned /\ Connect!ErrorReported

\* A constructor's choices; only TCP sets SO_REUSEADDR.
LEMMA KindFields ==
  /\ Connect!NoKind \in Connect!Kinds
  /\ \A k \in Connect!Kinds : /\ k.tcp \in BOOLEAN /\ k.block \in BOOLEAN
                              /\ k.source \in BOOLEAN /\ k.reuse \in BOOLEAN
                              /\ (k.reuse => k.tcp)
  BY DEF Connect!Kinds, Connect!NoKind

LEMMA Lowest == Connect!FreeFds # {} => Connect!Lowest \in Connect!FreeFds
<1>1. Connect!FreeFds \in SUBSET Nat
  BY ConnectAssumption DEF Connect!FreeFds, Connect!Fds
<1> PICK S : S = Connect!FreeFds
  OBVIOUS
<1>2. S # {} => (CHOOSE n \in S : \A m \in S : n <= m) \in S
  BY <1>1, LowestFree
<1> QED BY <1>2 DEF Connect!Lowest

LEMMA ConnectInitInv == Connect!Init => ConnectInv
<1> SUFFICES ASSUME Connect!Init PROVE ConnectInv
  OBVIOUS
<1>1. ConnectTypes
  BY ConnectAssumption, KindFields DEF Connect!Init, ConnectTypes, Connect!Fds
<1>4. ConnectFlags
  BY DEF Connect!Init, ConnectFlags
<1>2. SocketKept /\ Finishing
  BY ConnectAssumption DEF Connect!Init, SocketKept, Finishing, HasSocket, TriesSocket
<1>3. Connect!DescriptorsOwned /\ Connect!ErrorReported
  BY DEF Connect!Init, Connect!DescriptorsOwned, Connect!ErrorReported, Connect!Fds
<1> QED BY <1>1, <1>2, <1>3, <1>4 DEF ConnectInv

LEMMA ConnectStep == ConnectInv /\ Connect!Next => ConnectInv'
<1> SUFFICES ASSUME ConnectInv, Connect!Next PROVE ConnectInv'
  OBVIOUS
<1>0. /\ ConnectTypes /\ ConnectFlags /\ SocketKept /\ Finishing
      /\ Connect!DescriptorsOwned /\ Connect!ErrorReported
  BY DEF ConnectInv
<1> USE <1>0, ConnectAssumption, KindFields
<1>1. CASE Connect!OpenFile
  <2>1. ConnectTypes'
    BY <1>1, Lowest DEF ConnectTypes, Connect!Fds, SocketKept, HasSocket, Connect!OpenFile,
       Connect!context, Connect!FreeFds
  <2>2. ConnectFlags'
    BY <1>1, Lowest DEF ConnectFlags, Connect!OpenFile, Connect!context, Connect!FreeFds
  <2>3. SocketKept'
    BY <1>1, Lowest DEF ConnectTypes, Connect!Fds, SocketKept, HasSocket, TriesSocket,
       Connect!OpenFile, Connect!context, Connect!FreeFds
  <2>4. Finishing' /\ Connect!ErrorReported'
    BY <1>1, Lowest DEF ConnectTypes, Finishing, Connect!ErrorReported, Connect!OpenFile,
       Connect!context, Connect!FreeFds
  <2>5. Connect!DescriptorsOwned'
    BY <1>1, Lowest DEF ConnectTypes, ConnectFlags, Connect!Fds, SocketKept, HasSocket,
       TriesSocket, Connect!DescriptorsOwned, Connect!OpenFile, Connect!context, Connect!FreeFds
  <2> QED BY <2>1, <2>2, <2>3, <2>4, <2>5 DEF ConnectInv
<1>2. CASE \E d \in Connect!Fds : Connect!CloseFile(d)
  <2>1. ConnectTypes'
    BY <1>2 DEF ConnectTypes, Connect!Fds, SocketKept, HasSocket, Connect!CloseFile,
       Connect!context
  <2>2. ConnectFlags'
    BY <1>2 DEF ConnectFlags, Connect!CloseFile, Connect!context
  <2>3. SocketKept'
    BY <1>2 DEF ConnectTypes, Connect!Fds, SocketKept, HasSocket, TriesSocket,
       Connect!CloseFile, Connect!context
  <2>4. Finishing' /\ Connect!ErrorReported'
    BY <1>2 DEF ConnectTypes, Finishing, Connect!ErrorReported, Connect!CloseFile,
       Connect!context
  <2>5. Connect!DescriptorsOwned'
    BY <1>2 DEF ConnectTypes, ConnectFlags, Connect!Fds, SocketKept, HasSocket, TriesSocket,
       Connect!DescriptorsOwned, Connect!CloseFile, Connect!context
  <2> QED BY <2>1, <2>2, <2>3, <2>4, <2>5 DEF ConnectInv
<1>3. CASE \E k \in Connect!Kinds : Connect!Create(k)
  <2>1. ConnectTypes'
    BY <1>3 DEF ConnectTypes, Connect!Fds, SocketKept, HasSocket, Connect!Create
  <2>2. ConnectFlags'
    BY <1>3 DEF ConnectFlags, Connect!Create
  <2>3. SocketKept'
    BY <1>3 DEF ConnectTypes, Connect!Fds, SocketKept, HasSocket, TriesSocket,
           Connect!Create
  <2>4. Finishing' /\ Connect!ErrorReported'
    BY <1>3 DEF ConnectTypes, Finishing, Connect!ErrorReported, Connect!Create
  <2>5. Connect!DescriptorsOwned'
    BY <1>3 DEF ConnectTypes, ConnectFlags, Connect!Fds, SocketKept, HasSocket, TriesSocket,
       Connect!DescriptorsOwned, Connect!Create
  <2> QED BY <2>1, <2>2, <2>3, <2>4, <2>5 DEF ConnectInv
<1>4. CASE Connect!Reconnect
  <2>1. ConnectTypes'
    BY <1>4 DEF ConnectTypes, Connect!Fds, SocketKept, HasSocket, Connect!Reconnect,
       Connect!CloseNumber, Connect!Failed, Connect!context
  <2>2. ConnectFlags'
    BY <1>4 DEF ConnectFlags, Connect!Reconnect, Connect!CloseNumber, Connect!Failed,
       Connect!context
  <2>3. SocketKept'
    BY <1>4 DEF ConnectTypes, Connect!Fds, SocketKept, HasSocket, TriesSocket,
       Connect!Reconnect, Connect!CloseNumber, Connect!Failed, Connect!context
  <2>4. Finishing' /\ Connect!ErrorReported'
    BY <1>4 DEF ConnectTypes, Finishing, Connect!ErrorReported, Connect!Reconnect,
       Connect!CloseNumber, Connect!Failed, Connect!context
  <2>5. Connect!DescriptorsOwned'
    BY <1>4 DEF ConnectTypes, ConnectFlags, Connect!Fds, SocketKept, HasSocket, TriesSocket,
       Connect!DescriptorsOwned, Connect!Reconnect, Connect!CloseNumber, Connect!Failed,
       Connect!context
  <2> QED BY <2>1, <2>2, <2>3, <2>4, <2>5 DEF ConnectInv
<1>5. CASE Connect!Free
  <2>1. ConnectTypes'
    BY <1>5 DEF ConnectTypes, Connect!Fds, SocketKept, HasSocket, Connect!Free,
       Connect!CloseNumber
  <2>2. ConnectFlags'
    BY <1>5 DEF ConnectFlags, Connect!Free, Connect!CloseNumber
  <2>3. SocketKept'
    BY <1>5 DEF ConnectTypes, Connect!Fds, SocketKept, HasSocket, TriesSocket, Connect!Free,
       Connect!CloseNumber
  <2>4. Finishing' /\ Connect!ErrorReported'
    BY <1>5 DEF ConnectTypes, Finishing, Connect!ErrorReported, Connect!Free,
       Connect!CloseNumber
  <2>5. Connect!DescriptorsOwned'
    BY <1>5 DEF ConnectTypes, ConnectFlags, Connect!Fds, SocketKept, HasSocket, TriesSocket,
       Connect!DescriptorsOwned, Connect!Free, Connect!CloseNumber
  <2> QED BY <2>1, <2>2, <2>3, <2>4, <2>5 DEF ConnectInv
<1>6. CASE Connect!CheckTimeout
  <2>1. ConnectTypes'
    BY <1>6 DEF ConnectTypes, Connect!Fds, SocketKept, HasSocket, Connect!CheckTimeout,
       Connect!KeepFd, Connect!Failed, Connect!FailedSilently, Connect!GoOn, Connect!BadTimeout,
       Connect!context
  <2>2. ConnectFlags'
    BY <1>6 DEF ConnectFlags, Connect!CheckTimeout, Connect!KeepFd, Connect!Failed,
       Connect!FailedSilently, Connect!GoOn, Connect!BadTimeout, Connect!context
  <2>3. SocketKept'
    BY <1>6 DEF ConnectTypes, Connect!Fds, SocketKept, HasSocket, TriesSocket,
       Connect!CheckTimeout, Connect!KeepFd, Connect!Failed, Connect!FailedSilently,
       Connect!GoOn, Connect!BadTimeout, Connect!context
  <2>4. Finishing' /\ Connect!ErrorReported'
    BY <1>6 DEF ConnectTypes, Finishing, Connect!ErrorReported, Connect!CheckTimeout,
       Connect!KeepFd, Connect!Failed, Connect!FailedSilently, Connect!GoOn, Connect!BadTimeout,
       Connect!context
  <2>5. Connect!DescriptorsOwned'
    BY <1>6 DEF ConnectTypes, ConnectFlags, Connect!Fds, SocketKept, HasSocket, TriesSocket,
       Connect!DescriptorsOwned, Connect!CheckTimeout, Connect!KeepFd, Connect!Failed,
       Connect!FailedSilently, Connect!GoOn, Connect!BadTimeout, Connect!context
  <2> QED BY <2>1, <2>2, <2>3, <2>4, <2>5 DEF ConnectInv
<1>7. CASE Connect!Resolve
  <2>1. ConnectTypes'
    BY <1>7 DEF ConnectTypes, Connect!Fds, SocketKept, HasSocket, Connect!Resolve,
       Connect!KeepFd, Connect!Failed, Connect!GoOn, Connect!context
  <2>2. ConnectFlags'
    BY <1>7 DEF ConnectFlags, Connect!Resolve, Connect!KeepFd, Connect!Failed, Connect!GoOn,
       Connect!context
  <2>3. SocketKept'
    BY <1>7 DEF ConnectTypes, Connect!Fds, SocketKept, HasSocket, TriesSocket,
           Connect!Resolve,
       Connect!KeepFd, Connect!Failed, Connect!GoOn, Connect!context
  <2>4. Finishing' /\ Connect!ErrorReported'
    BY <1>7 DEF ConnectTypes, Finishing, Connect!ErrorReported, Connect!Resolve,
           Connect!KeepFd,
       Connect!Failed, Connect!GoOn, Connect!context
  <2>5. Connect!DescriptorsOwned'
    BY <1>7 DEF ConnectTypes, ConnectFlags, Connect!Fds, SocketKept, HasSocket, TriesSocket,
       Connect!DescriptorsOwned, Connect!Resolve, Connect!KeepFd, Connect!Failed, Connect!GoOn,
       Connect!context
  <2> QED BY <2>1, <2>2, <2>3, <2>4, <2>5 DEF ConnectInv
<1>8. CASE Connect!MakeSocket
  <2>1. ConnectTypes'
    BY <1>8, Lowest DEF ConnectTypes, Connect!Fds, SocketKept, HasSocket,
           Connect!MakeSocket,
       Connect!GoOn, Connect!context, Connect!FreeFds
  <2>2. ConnectFlags'
    BY <1>8, Lowest DEF ConnectFlags, Connect!MakeSocket, Connect!GoOn, Connect!context,
       Connect!FreeFds
  <2>3. SocketKept'
    BY <1>8, Lowest DEF ConnectTypes, Connect!Fds, SocketKept, HasSocket, TriesSocket,
       Connect!MakeSocket, Connect!GoOn, Connect!context, Connect!FreeFds
  <2>4. Finishing' /\ Connect!ErrorReported'
    BY <1>8, Lowest DEF ConnectTypes, Finishing, Connect!ErrorReported, Connect!MakeSocket,
       Connect!GoOn, Connect!context, Connect!FreeFds
  <2>5. Connect!DescriptorsOwned'
    BY <1>8, Lowest DEF ConnectTypes, ConnectFlags, Connect!Fds, SocketKept, HasSocket,
       TriesSocket, Connect!DescriptorsOwned, Connect!MakeSocket, Connect!GoOn, Connect!context,
       Connect!FreeFds
  <2> QED BY <2>1, <2>2, <2>3, <2>4, <2>5 DEF ConnectInv
<1>9. CASE Connect!NoSocket
  <2>1. ConnectTypes'
    BY <1>9 DEF ConnectTypes, Connect!Fds, SocketKept, HasSocket, Connect!NoSocket,
       Connect!KeepFd, Connect!Failed, Connect!NextAddress, Connect!context, Connect!GoOn
  <2>2. ConnectFlags'
    BY <1>9 DEF ConnectFlags, Connect!NoSocket, Connect!KeepFd, Connect!Failed,
       Connect!NextAddress, Connect!context, Connect!GoOn
  <2>3. SocketKept'
    BY <1>9 DEF ConnectTypes, Connect!Fds, SocketKept, HasSocket, TriesSocket,
           Connect!NoSocket,
       Connect!KeepFd, Connect!Failed, Connect!NextAddress, Connect!context, Connect!GoOn
  <2>4. Finishing' /\ Connect!ErrorReported'
    BY <1>9 DEF ConnectTypes, Finishing, Connect!ErrorReported, Connect!NoSocket,
       Connect!KeepFd, Connect!Failed, Connect!NextAddress, Connect!context, Connect!GoOn
  <2>5. Connect!DescriptorsOwned'
    BY <1>9 DEF ConnectTypes, ConnectFlags, Connect!Fds, SocketKept, HasSocket, TriesSocket,
       Connect!DescriptorsOwned, Connect!NoSocket, Connect!KeepFd, Connect!Failed,
       Connect!NextAddress, Connect!context, Connect!GoOn
  <2> QED BY <2>1, <2>2, <2>3, <2>4, <2>5 DEF ConnectInv
<1>10. CASE Connect!SetNonBlocking
  <2>1. ConnectTypes'
    BY <1>10 DEF ConnectTypes, Connect!Fds, SocketKept, HasSocket, Connect!SetNonBlocking,
       Connect!KeepFd, Connect!GoOn
  <2>2. ConnectFlags'
    BY <1>10 DEF ConnectFlags, Connect!SetNonBlocking, Connect!KeepFd, Connect!GoOn
  <2>3. SocketKept'
    BY <1>10 DEF ConnectTypes, Connect!Fds, SocketKept, HasSocket, TriesSocket,
       Connect!SetNonBlocking, Connect!KeepFd, Connect!GoOn
  <2>4. Finishing' /\ Connect!ErrorReported'
    BY <1>10 DEF ConnectTypes, Finishing, Connect!ErrorReported, Connect!SetNonBlocking,
       Connect!KeepFd, Connect!GoOn
  <2>5. Connect!DescriptorsOwned'
    BY <1>10 DEF ConnectTypes, ConnectFlags, Connect!Fds, SocketKept, HasSocket,
           TriesSocket,
       Connect!DescriptorsOwned, Connect!SetNonBlocking, Connect!KeepFd, Connect!GoOn
  <2> QED BY <2>1, <2>2, <2>3, <2>4, <2>5 DEF ConnectInv
<1>11. CASE Connect!SetBlocking
  <2>1. ConnectTypes'
    BY <1>11 DEF ConnectTypes, Connect!Fds, SocketKept, HasSocket, Connect!SetBlocking,
       Connect!KeepFd, Connect!GoOn, Connect!context
  <2>2. ConnectFlags'
    BY <1>11 DEF ConnectFlags, ConnectTypes, Connect!SetBlocking, Connect!KeepFd,
           Connect!GoOn,
       Connect!context
  <2>3. SocketKept'
    BY <1>11 DEF ConnectTypes, Connect!Fds, SocketKept, HasSocket, TriesSocket,
       Connect!SetBlocking, Connect!KeepFd, Connect!GoOn, Connect!context
  <2>4. Finishing' /\ Connect!ErrorReported'
    BY <1>11 DEF ConnectTypes, Finishing, Connect!ErrorReported, Connect!SetBlocking,
       Connect!KeepFd, Connect!GoOn, Connect!context
  <2>5. Connect!DescriptorsOwned'
    BY <1>11 DEF ConnectTypes, ConnectFlags, Connect!Fds, SocketKept, HasSocket,
           TriesSocket,
       Connect!DescriptorsOwned, Connect!SetBlocking, Connect!KeepFd, Connect!GoOn,
       Connect!context
  <2> QED BY <2>1, <2>2, <2>3, <2>4, <2>5 DEF ConnectInv
<1>12. CASE Connect!SetTcpNoDelay
  <2>1. ConnectTypes'
    BY <1>12 DEF ConnectTypes, Connect!Fds, SocketKept, HasSocket, Connect!SetTcpNoDelay,
       Connect!KeepFd, Connect!GoOn, Connect!context
  <2>2. ConnectFlags'
    BY <1>12 DEF ConnectFlags, Connect!SetTcpNoDelay, Connect!KeepFd, Connect!GoOn,
       Connect!context
  <2>3. SocketKept'
    BY <1>12 DEF ConnectTypes, Connect!Fds, SocketKept, HasSocket, TriesSocket,
       Connect!SetTcpNoDelay, Connect!KeepFd, Connect!GoOn, Connect!context
  <2>4. Finishing' /\ Connect!ErrorReported'
    BY <1>12 DEF ConnectTypes, Finishing, Connect!ErrorReported, Connect!SetTcpNoDelay,
       Connect!KeepFd, Connect!GoOn, Connect!context
  <2>5. Connect!DescriptorsOwned'
    BY <1>12 DEF ConnectTypes, ConnectFlags, Connect!Fds, SocketKept, HasSocket,
           TriesSocket,
       Connect!DescriptorsOwned, Connect!SetTcpNoDelay, Connect!KeepFd, Connect!GoOn,
       Connect!context
  <2> QED BY <2>1, <2>2, <2>3, <2>4, <2>5 DEF ConnectInv
<1>13. CASE Connect!OptionFails
  <2>1. ConnectTypes'
    BY <1>13 DEF ConnectTypes, Connect!Fds, SocketKept, HasSocket, Connect!OptionFails,
       Connect!CloseFd, Connect!Failed, Connect!context, Connect!CloseNumber
  <2>2. ConnectFlags'
    BY <1>13 DEF ConnectFlags, Connect!OptionFails, Connect!CloseFd, Connect!Failed,
       Connect!context, Connect!CloseNumber
  <2>3. SocketKept'
    BY <1>13 DEF ConnectTypes, Connect!Fds, SocketKept, HasSocket, TriesSocket,
       Connect!OptionFails, Connect!CloseFd, Connect!Failed, Connect!context,
       Connect!CloseNumber
  <2>4. Finishing' /\ Connect!ErrorReported'
    BY <1>13 DEF ConnectTypes, Finishing, Connect!ErrorReported, Connect!OptionFails,
       Connect!CloseFd, Connect!Failed, Connect!context, Connect!CloseNumber
  <2>5. Connect!DescriptorsOwned'
    BY <1>13 DEF ConnectTypes, ConnectFlags, Connect!Fds, SocketKept, HasSocket,
           TriesSocket,
       Connect!DescriptorsOwned, Connect!OptionFails, Connect!CloseFd, Connect!Failed,
       Connect!context, Connect!CloseNumber
  <2> QED BY <2>1, <2>2, <2>3, <2>4, <2>5 DEF ConnectInv
<1>14. CASE Connect!Bind
  <2>1. ConnectTypes'
    BY <1>14 DEF ConnectTypes, Connect!Fds, SocketKept, HasSocket, Connect!Bind,
           Connect!KeepFd,
       Connect!Failed, Connect!FailedSilently, Connect!GoOn, Connect!context
  <2>2. ConnectFlags'
    BY <1>14 DEF ConnectFlags, Connect!Bind, Connect!KeepFd, Connect!Failed,
       Connect!FailedSilently, Connect!GoOn, Connect!context
  <2>3. SocketKept'
    BY <1>14 DEF ConnectTypes, Connect!Fds, SocketKept, HasSocket, TriesSocket,
           Connect!Bind,
       Connect!KeepFd, Connect!Failed, Connect!FailedSilently, Connect!GoOn, Connect!context
  <2>4. Finishing' /\ Connect!ErrorReported'
    BY <1>14 DEF ConnectTypes, Finishing, Connect!ErrorReported, Connect!Bind,
           Connect!KeepFd,
       Connect!Failed, Connect!FailedSilently, Connect!GoOn, Connect!context
  <2>5. Connect!DescriptorsOwned'
    BY <1>14 DEF ConnectTypes, ConnectFlags, Connect!Fds, SocketKept, HasSocket,
           TriesSocket,
       Connect!DescriptorsOwned, Connect!Bind, Connect!KeepFd, Connect!Failed,
       Connect!FailedSilently, Connect!GoOn, Connect!context
  <2> QED BY <2>1, <2>2, <2>3, <2>4, <2>5 DEF ConnectInv
<1>15. CASE Connect!Connects
  <2>1. ConnectTypes'
    BY <1>15 DEF ConnectTypes, Connect!Fds, SocketKept, HasSocket, Connect!Connects,
       Connect!GoOn, Connect!context
  <2>2. ConnectFlags'
    BY <1>15 DEF ConnectFlags, Connect!Connects, Connect!GoOn, Connect!context
  <2>3. SocketKept'
    BY <1>15 DEF ConnectTypes, Connect!Fds, SocketKept, HasSocket, TriesSocket,
       Connect!Connects, Connect!GoOn, Connect!context
  <2>4. Finishing' /\ Connect!ErrorReported'
    BY <1>15 DEF ConnectTypes, Finishing, Connect!ErrorReported, Connect!Connects,
           Connect!GoOn,
       Connect!context
  <2>5. Connect!DescriptorsOwned'
    BY <1>15 DEF ConnectTypes, ConnectFlags, Connect!Fds, SocketKept, HasSocket,
           TriesSocket,
       Connect!DescriptorsOwned, Connect!Connects, Connect!GoOn, Connect!context
  <2> QED BY <2>1, <2>2, <2>3, <2>4, <2>5 DEF ConnectInv
<1>16. CASE Connect!Unreachable
  <2>1. ConnectTypes'
    BY <1>16 DEF ConnectTypes, Connect!Fds, SocketKept, HasSocket, Connect!Unreachable,
       Connect!CloseFd, Connect!NextAddress, Connect!context, Connect!CloseNumber, Connect!GoOn
  <2>2. ConnectFlags'
    BY <1>16 DEF ConnectFlags, Connect!Unreachable, Connect!CloseFd, Connect!NextAddress,
       Connect!context, Connect!CloseNumber, Connect!GoOn
  <2>3. SocketKept'
    BY <1>16 DEF ConnectTypes, Connect!Fds, SocketKept, HasSocket, TriesSocket,
       Connect!Unreachable, Connect!CloseFd, Connect!NextAddress, Connect!context,
       Connect!CloseNumber, Connect!GoOn
  <2>4. Finishing' /\ Connect!ErrorReported'
    BY <1>16 DEF ConnectTypes, Finishing, Connect!ErrorReported, Connect!Unreachable,
       Connect!CloseFd, Connect!NextAddress, Connect!context, Connect!CloseNumber, Connect!GoOn
  <2>5. Connect!DescriptorsOwned'
    BY <1>16 DEF ConnectTypes, ConnectFlags, Connect!Fds, SocketKept, HasSocket,
           TriesSocket,
       Connect!DescriptorsOwned, Connect!Unreachable, Connect!CloseFd, Connect!NextAddress,
       Connect!context, Connect!CloseNumber, Connect!GoOn
  <2> QED BY <2>1, <2>2, <2>3, <2>4, <2>5 DEF ConnectInv
<1>17. CASE Connect!AddrNotAvail
  <2>1. ConnectTypes'
    BY <1>17 DEF ConnectTypes, Connect!Fds, SocketKept, HasSocket, Connect!AddrNotAvail,
       Connect!CloseFd, Connect!KeepFd, Connect!FailedSilently, Connect!GoOn, Connect!context,
       Connect!CloseNumber
  <2>2. ConnectFlags'
    BY <1>17 DEF ConnectFlags, Connect!AddrNotAvail, Connect!CloseFd, Connect!KeepFd,
       Connect!FailedSilently, Connect!GoOn, Connect!context, Connect!CloseNumber
  <2>3. SocketKept'
    BY <1>17 DEF ConnectTypes, Connect!Fds, SocketKept, HasSocket, TriesSocket,
       Connect!AddrNotAvail, Connect!CloseFd, Connect!KeepFd, Connect!FailedSilently,
       Connect!GoOn, Connect!context, Connect!CloseNumber
  <2>4. Finishing' /\ Connect!ErrorReported'
    BY <1>17 DEF ConnectTypes, Finishing, Connect!ErrorReported, Connect!AddrNotAvail,
       Connect!CloseFd, Connect!KeepFd, Connect!FailedSilently, Connect!GoOn, Connect!context,
       Connect!CloseNumber
  <2>5. Connect!DescriptorsOwned'
    BY <1>17 DEF ConnectTypes, ConnectFlags, Connect!Fds, SocketKept, HasSocket,
           TriesSocket,
       Connect!DescriptorsOwned, Connect!AddrNotAvail, Connect!CloseFd, Connect!KeepFd,
       Connect!FailedSilently, Connect!GoOn, Connect!context, Connect!CloseNumber
  <2> QED BY <2>1, <2>2, <2>3, <2>4, <2>5 DEF ConnectInv
<1>18. CASE Connect!NotReady
  <2>1. ConnectTypes'
    BY <1>18 DEF ConnectTypes, Connect!Fds, SocketKept, HasSocket, Connect!NotReady,
       Connect!CloseFd, Connect!Failed, Connect!context, Connect!CloseNumber
  <2>2. ConnectFlags'
    BY <1>18 DEF ConnectFlags, Connect!NotReady, Connect!CloseFd, Connect!Failed,
       Connect!context, Connect!CloseNumber
  <2>3. SocketKept'
    BY <1>18 DEF ConnectTypes, Connect!Fds, SocketKept, HasSocket, TriesSocket,
       Connect!NotReady, Connect!CloseFd, Connect!Failed, Connect!context, Connect!CloseNumber
  <2>4. Finishing' /\ Connect!ErrorReported'
    BY <1>18 DEF ConnectTypes, Finishing, Connect!ErrorReported, Connect!NotReady,
       Connect!CloseFd, Connect!Failed, Connect!context, Connect!CloseNumber
  <2>5. Connect!DescriptorsOwned'
    BY <1>18 DEF ConnectTypes, ConnectFlags, Connect!Fds, SocketKept, HasSocket,
           TriesSocket,
       Connect!DescriptorsOwned, Connect!NotReady, Connect!CloseFd, Connect!Failed,
       Connect!context, Connect!CloseNumber
  <2> QED BY <2>1, <2>2, <2>3, <2>4, <2>5 DEF ConnectInv
<1>19. CASE Connect!Ready
  <2>1. ConnectTypes'
    BY <1>19 DEF ConnectTypes, Connect!Fds, SocketKept, HasSocket, Connect!Ready,
       Connect!Failed, Connect!GoOn, Connect!context
  <2>2. ConnectFlags'
    BY <1>19 DEF ConnectFlags, Connect!Ready, Connect!Failed, Connect!GoOn, Connect!context
  <2>3. SocketKept'
    BY <1>19 DEF ConnectTypes, Connect!Fds, SocketKept, HasSocket, TriesSocket,
           Connect!Ready,
       Connect!Failed, Connect!GoOn, Connect!context
  <2>4. Finishing' /\ Connect!ErrorReported'
    BY <1>19 DEF ConnectTypes, Finishing, Connect!ErrorReported, Connect!Ready,
           Connect!Failed,
       Connect!GoOn, Connect!context
  <2>5. Connect!DescriptorsOwned'
    BY <1>19 DEF ConnectTypes, ConnectFlags, Connect!Fds, SocketKept, HasSocket,
           TriesSocket,
       Connect!DescriptorsOwned, Connect!Ready, Connect!Failed, Connect!GoOn, Connect!context
  <2> QED BY <2>1, <2>2, <2>3, <2>4, <2>5 DEF ConnectInv
<1> QED BY <1>1, <1>2, <1>3, <1>4, <1>5, <1>6, <1>7, <1>8, <1>9, <1>10, <1>11,
          <1>12, <1>13, <1>14, <1>15, <1>16, <1>17, <1>18, <1>19 DEF Connect!Next

LEMMA ConnectFrame == ConnectInv /\ UNCHANGED connectVars => ConnectInv'
  BY DEF connectVars, ConnectInv, ConnectTypes, ConnectFlags, SocketKept, Finishing,
         HasSocket, TriesSocket,
         Connect!DescriptorsOwned, Connect!ErrorReported

LEMMA ConnectSafe ==
  ConnectInv => Connect!TypeOK /\ Connect!DescriptorsOwned /\ Connect!ErrorReported
  BY DEF ConnectInv, ConnectTypes, ConnectFlags, Connect!TypeOK

-----------------------------------------------------------------------------
CONSTANTS
  \* RedisContext
  Settings, MaxAsked, MaxPushes, MaxConnects

VARIABLES
  c, push_cb, descriptor, error, output, input, outgoing, incoming, alive, where, lastResult,
  number, pushes, connects, asked, given, inband, interrupted, wanted

contextVars == <<c, push_cb, descriptor, error, output, input, outgoing, incoming, alive,
                 where, lastResult, number, pushes, connects, asked, given, inband,
                 interrupted, wanted>>

Context == INSTANCE RedisContext WITH
  Options <- Settings, MaxCommands <- MaxAsked,
  fd <- descriptor, err <- error, obuf <- output, reader <- input, wire <- outgoing,
  inbox <- incoming, up <- alive, pc <- where, result <- lastResult

-----------------------------------------------------------------------------
(* The synchronous interface of hiredis (hiredis/hiredis.c, hiredis/net.c).       *)

\* A context has the options of redisOptions, and connects once at least.
ASSUME ContextAssumption ==
  /\ Settings \subseteq [type : {"tcp", "unix", "userfd"}, block : BOOLEAN, valid : BOOLEAN,
                        limit : BOOLEAN]
  /\ MaxAsked \in Nat /\ MaxPushes \in Nat /\ MaxConnects \in Nat \ {0}

Messages == 0..MaxAsked

ContextTypes ==
  /\ c \in Settings \union {Context!Plain}
  /\ where \in {"none", "freed", "out", "connect", "wait", "write", "read"}
  /\ error \in {"none", "io", "eof", "other"}
  /\ lastResult \in {"ok", "null", "failed"} /\ inband \in {"no", "buffered", "read"}
  /\ number \in 0..MaxAsked /\ pushes \in 0..MaxPushes /\ connects \in 0..MaxConnects
ContextFlags == /\ push_cb \in BOOLEAN /\ alive \in BOOLEAN /\ interrupted \in BOOLEAN
                /\ wanted \in BOOLEAN
DescriptorKept ==
  descriptor \in [open : BOOLEAN, link : {"none", "pending", "connected"}, limit : BOOLEAN]
MessagesKept ==
  /\ output \in Seq(Messages \ {0}) /\ outgoing \in Seq(Messages \ {0})
       /\ asked \in Seq(Messages \ {0})
  /\ input \in Seq(Messages) /\ incoming \in Seq(Messages) /\ given \in Seq(Messages)

\* The commands that were answered, that the server has, and that are still to be written.
Back == Context!Commands(given) \union Context!Commands(input) \union Context!Commands(incoming)
Below(A, B) == \A m \in A, n \in B : m < n

Ordered ==
  /\ Context!InOrder(given) /\ Context!InOrder(input) /\ Context!InOrder(incoming)
  /\ Context!InOrder(outgoing) /\ Context!InOrder(output)
  /\ Below(Context!Commands(given), Context!Commands(input))
  /\ Below(Context!Commands(given) \union Context!Commands(input), Context!Commands(incoming))
  /\ Below(Back, Context!Commands(outgoing))
  /\ Below(Back \union Context!Commands(outgoing), Context!Commands(output))
  /\ \A n \in Context!Commands(asked) : n <= number

\* All the commands of the connection are somewhere, unless it broke.
Whole == alive \/ descriptor.link = "pending" \/ where \in {"none", "connect", "wait"}
All == Back \union Context!Commands(outgoing) \union Context!Commands(output)
Gapless ==
  /\ All \subseteq Context!Commands(asked)
  /\ \A m \in Back, n \in Context!Commands(asked) : n < m => n \in Back
  /\ ~alive => outgoing = <<>>
  /\ descriptor.link = "pending" => ~alive
  /\ Whole => All = Context!Commands(asked)
  /\ where \in {"none", "connect", "wait"} => All = {}

Outcome == /\ Context!FailureHasError /\ Context!PushOutOfBand
           /\ where \in {"none", "connect", "wait"} => lastResult = "ok" /\ ~alive

ContextInv == ContextTypes /\ ContextFlags /\ DescriptorKept /\ MessagesKept /\ Ordered
              /\ Gapless /\ Outcome

\* The operators of the module, on sequences of messages.
LEMMA NoMessages == Context!Commands(<<>>) = {} /\ Context!InOrder(<<>>)
<1>1. DOMAIN <<>> = {}
  OBVIOUS
<1> QED BY ONLY <1>1 DEF Context!Commands, Context!InOrder

LEMMA CommandNumbers ==
  ASSUME NEW T \in SUBSET Nat, NEW s \in Seq(T)
  PROVE  Context!Commands(s) \subseteq T /\ 0 \notin Context!Commands(s)
<1>1. \A i \in DOMAIN s : s[i] \in T
  OBVIOUS
<1> QED BY ONLY <1>1 DEF Context!Commands, Context!PUSH

LEMMA MoreMessages ==
  ASSUME NEW T \in SUBSET Nat, NEW s \in Seq(T), NEW m \in T
  PROVE  /\ Append(s, m) \in Seq(T)
         /\ Context!Commands(Append(s, m)) = Context!Commands(s) \union ({m} \ {0})
         /\ Context!InOrder(s) /\ (m # 0 => \A n \in Context!Commands(s) : n < m) =>
              Context!InOrder(Append(s, m))
<1> DEFINE t == Append(s, m)
           last == Len(s) + 1
<1>1. /\ t \in Seq(T) /\ Len(s) \in Nat /\ DOMAIN s = 1..Len(s) /\ DOMAIN t = 1..last
      /\ t[last] = m /\ \A i \in DOMAIN s : t[i] = s[i] /\ s[i] \in T
  BY AppendProperties, LenProperties
<1> HIDE DEF t
<1>2. \A i \in DOMAIN t : i \in DOMAIN s \/ i = last
  BY ONLY <1>1
<1>3. DOMAIN s \subseteq DOMAIN t /\ last \in DOMAIN t
  BY ONLY <1>1
<1>4. Context!Commands(t) = Context!Commands(s) \union ({m} \ {0})
  <2>1. {t[i] : i \in DOMAIN t} = {s[i] : i \in DOMAIN s} \union {m}
    BY ONLY <1>1, <1>2, <1>3
  <2> QED BY ONLY <2>1 DEF Context!Commands, Context!PUSH
<1>5. ASSUME Context!InOrder(s), m # 0 => \A n \in Context!Commands(s) : n < m
      PROVE  Context!InOrder(t)
  <2> SUFFICES ASSUME NEW i \in DOMAIN t, NEW j \in DOMAIN t, i < j, t[i] # 0, t[j] # 0
               PROVE  t[i] < t[j]
    BY DEF Context!InOrder, Context!PUSH
  <2>1. i \in DOMAIN s
    BY <1>1
  <2>2. CASE j \in DOMAIN s
    BY <1>1, <1>5, <2>1, <2>2 DEF Context!InOrder, Context!PUSH
  <2>3. CASE j = last
    <3>1. t[i] \in Context!Commands(s)
      BY <1>1, <2>1 DEF Context!Commands, Context!PUSH
    <3> QED BY <1>1, <1>5, <2>3, <3>1
  <2> QED BY <1>2, <2>2, <2>3
<1> QED BY ONLY <1>1, <1>4, <1>5 DEF t

LEMMA JoinedMessages ==
  ASSUME NEW T \in SUBSET Nat, NEW s \in Seq(T), NEW t \in Seq(T)
  PROVE  /\ s \o t \in Seq(T)
         /\ Context!Commands(s \o t) = Context!Commands(s) \union Context!Commands(t)
         /\ Context!InOrder(s \o t) <=> /\ Context!InOrder(s) /\ Context!InOrder(t)
                                       /\ Below(Context!Commands(s), Context!Commands(t))
<1> DEFINE u == s \o t
<1>a. PICK a \in Nat : a = Len(s)
  BY LenProperties
<1>b. PICK b \in Nat : b = Len(t)
  BY LenProperties
<1>1. /\ u \in Seq(T) /\ DOMAIN s = 1..a /\ DOMAIN t = 1..b /\ DOMAIN u = 1..a + b
      /\ \A i \in 1..a : u[i] = s[i] /\ s[i] \in T
      /\ \A i \in 1..b : u[a + i] = t[i] /\ t[i] \in T
  <2>1. /\ u \in Seq(T) /\ Len(u) = a + b
        /\ \A i \in 1..Len(s) + Len(t) : u[i] = IF i <= Len(s) THEN s[i] ELSE t[i - Len(s)]
    BY ONLY <1>a, <1>b, ConcatProperties
  <2>2. DOMAIN s = 1..a /\ DOMAIN t = 1..b /\ DOMAIN u = 1..a + b
    BY ONLY <1>a, <1>b, <2>1, LenProperties
  <2> HIDE DEF u
  <2>3. \A i \in 1..a : i \in 1..a + b /\ i <= a
    OBVIOUS
  <2>4. \A i \in 1..b : a + i \in 1..a + b /\ ~(a + i <= a) /\ a + i - a = i
    OBVIOUS
  <2>5. \A i \in 1..a + b : u[i] = IF i <= a THEN s[i] ELSE t[i - a]
    BY ONLY <1>a, <1>b, <2>1
  <2>6. (\A i \in DOMAIN s : s[i] \in T) /\ (\A i \in DOMAIN t : t[i] \in T)
    OBVIOUS
  <2> QED BY ONLY <2>1, <2>2, <2>3, <2>4, <2>5, <2>6
<1> HIDE DEF u
<1>2. \A i \in DOMAIN u : i \in 1..a \/ \E j \in 1..b : i = a + j
  <2> TAKE i \in DOMAIN u
  <2>1. i \in 1..a + b
    BY <1>1
  <2>2. i \in 1..a \/ (i - a \in 1..b /\ i = a + (i - a))
    BY ONLY <2>1
  <2> QED BY ONLY <2>2
<1>3. /\ \A i \in 1..a : i \in DOMAIN u
      /\ \A j \in 1..b : a + j \in DOMAIN u
  BY ONLY <1>1
<1>4. {u[i] : i \in DOMAIN u} = {s[i] : i \in DOMAIN s} \union {t[i] : i \in DOMAIN t}
  <2>1. \A i \in DOMAIN u : u[i] \in {s[j] : j \in DOMAIN s} \union {t[j] : j \in DOMAIN t}
    BY ONLY <1>1, <1>2
  <2>2. \A j \in DOMAIN s : s[j] \in {u[i] : i \in DOMAIN u}
    BY ONLY <1>1, <1>3
  <2>3. \A j \in DOMAIN t : t[j] \in {u[i] : i \in DOMAIN u}
    <3> TAKE j \in DOMAIN t
    <3>1. a + j \in DOMAIN u /\ u[a + j] = t[j]
      BY ONLY <1>1, <1>3
    <3> QED BY ONLY <3>1
  <2> QED BY ONLY <2>1, <2>2, <2>3
<1>5. Context!Commands(u) = Context!Commands(s) \union Context!Commands(t)
  BY ONLY <1>4 DEF Context!Commands
<1>6. ASSUME Context!InOrder(s), Context!InOrder(t), Below(Context!Commands(s), Context!Commands(t))
      PROVE  Context!InOrder(u)
  <2> SUFFICES ASSUME NEW i \in DOMAIN u, NEW j \in DOMAIN u, i < j, u[i] # 0, u[j] # 0
               PROVE  u[i] < u[j]
    BY DEF Context!InOrder, Context!PUSH
  <2>1. CASE i \in 1..a /\ j \in 1..a
    BY <1>1, <1>6, <2>1 DEF Context!InOrder, Context!PUSH
  <2>2. CASE i \in 1..a /\ \E l \in 1..b : j = a + l
    <3> PICK l \in 1..b : j = a + l
      BY <2>2
    <3>1. u[i] \in Context!Commands(s) /\ u[j] \in Context!Commands(t)
      BY <1>1, <2>2 DEF Context!Commands, Context!PUSH
    <3> QED BY <1>6, <3>1 DEF Below
  <2>3. CASE (\E k \in 1..b : i = a + k) /\ (\E l \in 1..b : j = a + l)
    <3> PICK k \in 1..b : i = a + k
      BY <2>3
    <3> PICK l \in 1..b : j = a + l
      BY <2>3
    <3>1. u[i] = t[k] /\ u[j] = t[l] /\ k < l
      BY <1>1
    <3> QED BY <1>1, <1>6, <3>1 DEF Context!InOrder, Context!PUSH
  <2>4. ~((\E k \in 1..b : i = a + k) /\ j \in 1..a)
    BY ONLY i < j
  <2> QED BY <1>2, <2>1, <2>2, <2>3, <2>4
<1>7. ASSUME Context!InOrder(u)
      PROVE  /\ Context!InOrder(s) /\ Context!InOrder(t)
             /\ Below(Context!Commands(s), Context!Commands(t))
  <2>1. \A i, j \in DOMAIN u : i < j /\ u[i] # 0 /\ u[j] # 0 => u[i] < u[j]
    BY <1>7 DEF Context!InOrder, Context!PUSH
  <2>2. Context!InOrder(s)
    BY ONLY <1>1, <1>3, <2>1 DEF Context!InOrder, Context!PUSH
  <2>3. Context!InOrder(t)
    <3> SUFFICES ASSUME NEW i \in 1..b, NEW j \in 1..b, i < j, t[i] # 0, t[j] # 0 PROVE t[i] < t[j]
      BY <1>1 DEF Context!InOrder, Context!PUSH
    <3>1. a + i < a + j /\ u[a + i] = t[i] /\ u[a + j] = t[j]
      BY <1>1
    <3> QED BY <1>3, <2>1, <3>1
  <2>4. Below(Context!Commands(s), Context!Commands(t))
    <3> SUFFICES ASSUME NEW i \in 1..a, NEW j \in 1..b, s[i] # 0, t[j] # 0 PROVE s[i] < t[j]
      BY <1>1 DEF Below, Context!Commands, Context!PUSH
    <3>1. i < a + j /\ u[i] = s[i] /\ u[a + j] = t[j]
      BY <1>1
    <3> QED BY <1>3, <2>1, <3>1
  <2> QED BY <2>2, <2>3, <2>4
<1> QED BY ONLY <1>1, <1>5, <1>6, <1>7 DEF u

\* A sequence cut in two.
LEMMA CutMessages ==
  ASSUME NEW T \in SUBSET Nat, NEW s \in Seq(T), NEW k \in 0..Len(s)
  PROVE  LET first == SubSeq(s, 1, k)
             left == SubSeq(s, k + 1, Len(s))
         IN /\ first \in Seq(T) /\ left \in Seq(T)
            /\ Context!Commands(s) = Context!Commands(first) \union Context!Commands(left)
            /\ Context!InOrder(s) => /\ Context!InOrder(first) /\ Context!InOrder(left)
                                     /\ Below(Context!Commands(first), Context!Commands(left))
<1> DEFINE first == SubSeq(s, 1, k)
           left == SubSeq(s, k + 1, Len(s))
<1> PICK a \in Nat : a = Len(s)
  BY LenProperties
<1>0. k \in 0..a /\ \A i \in 1..a : s[i] \in T
  BY LenProperties
<1>1. first \in Seq(T) /\ Len(first) = k /\ \A i \in 1..k : first[i] = s[i]
  <2>1. \A i \in 1..k : s[i] \in T
    BY ONLY <1>0
  <2>2. /\ first \in Seq(T) /\ Len(first) = (IF 1 <= k THEN k - 1 + 1 ELSE 0)
        /\ \A i \in 1..k - 1 + 1 : first[i] = s[1 + i - 1]
    BY ONLY <1>0, <2>1, SubSeqProperties
  <2> HIDE DEF first
  <2> QED BY ONLY <1>0, <2>2
<1>2. left \in Seq(T) /\ Len(left) = a - k /\ \A i \in 1..a - k : left[i] = s[k + i]
  <2>1. \A i \in k + 1..a : s[i] \in T
    BY ONLY <1>0
  <2>2. /\ SubSeq(s, k + 1, a) \in Seq(T)
        /\ Len(SubSeq(s, k + 1, a)) = (IF k + 1 <= a THEN a - (k + 1) + 1 ELSE 0)
        /\ \A i \in 1..a - (k + 1) + 1 : SubSeq(s, k + 1, a)[i] = s[k + 1 + i - 1]
    BY ONLY <1>0, <2>1, SubSeqProperties
  <2>3. left = SubSeq(s, k + 1, a)
    OBVIOUS
  <2> HIDE DEF left
  <2>4. a - (k + 1) + 1 = a - k /\ \A i \in 1..a - k : k + 1 + i - 1 = k + i
    BY ONLY <1>0
  <2> QED BY ONLY <1>0, <2>2, <2>3, <2>4
<1> HIDE DEF first, left
<1>3. s = first \o left
  <2>1. /\ first \o left \in Seq(T) /\ Len(first \o left) = k + (a - k)
        /\ \A i \in 1..k + (a - k) : (first \o left)[i] = IF i <= k THEN first[i] ELSE left[i - k]
    <3>1. /\ first \o left \in Seq(T) /\ Len(first \o left) = Len(first) + Len(left)
          /\ \A i \in 1..Len(first) + Len(left) :
               (first \o left)[i] = IF i <= Len(first) THEN first[i] ELSE left[i - Len(first)]
      BY ONLY <1>1, <1>2, ConcatProperties
    <3> QED BY ONLY <1>1, <1>2, <3>1
  <2>2. k + (a - k) = a
    BY ONLY <1>0
  <2>3. \A i \in 1..a : s[i] = (first \o left)[i]
    <3> TAKE i \in 1..a
    <3>1. CASE i <= k
      BY ONLY <1>0, <1>1, <2>1, <2>2, <3>1
    <3>2. CASE ~(i <= k)
      <4>1. i - k \in 1..a - k /\ k + (i - k) = i
        BY ONLY <1>0, <3>2
      <4> QED BY ONLY <1>2, <2>1, <2>2, <3>2, <4>1
    <3> QED BY <3>1, <3>2
  <2>4. Len(s) = Len(first \o left) /\ \A i \in 1..Len(s) : s[i] = (first \o left)[i]
    BY <2>1, <2>2, <2>3
  <2> QED BY ONLY <2>1, <2>4, s \in Seq(T), SeqEqual
<1>4. /\ Context!Commands(first \o left) = Context!Commands(first) \union Context!Commands(left)
      /\ Context!InOrder(first \o left) <=>
           /\ Context!InOrder(first) /\ Context!InOrder(left)
           /\ Below(Context!Commands(first), Context!Commands(left))
  BY ONLY <1>1, <1>2, T \in SUBSET Nat, JoinedMessages
<1> QED BY <1>1, <1>2, <1>3, <1>4 DEF first, left

\* The first message, and the others.
LEMMA FirstMessage ==
  ASSUME NEW T \in SUBSET Nat, NEW s \in Seq(T), s # <<>>
  PROVE  /\ Head(s) \in T /\ Tail(s) \in Seq(T)
         /\ Context!Commands(s) = ({Head(s)} \ {0}) \union Context!Commands(Tail(s))
         /\ Context!InOrder(s) => /\ Context!InOrder(Tail(s))
                                  /\ Head(s) # 0 => Below({Head(s)}, Context!Commands(Tail(s)))
<1> DEFINE t == Tail(s)
<1> PICK b \in Nat : Len(s) = b + 1
  <2>1. Len(s) \in Nat /\ Len(s) # 0
    BY LenProperties, EmptySeq
  <2> WITNESS Len(s) - 1 \in Nat
  <2> QED BY <2>1
<1>1. /\ Head(s) = s[1] /\ s[1] \in T /\ t \in Seq(T) /\ DOMAIN t = 1..b /\ DOMAIN s = 1..b + 1
      /\ \A i \in 1..b : t[i] = s[i + 1] /\ i + 1 \in DOMAIN s /\ 1 < i + 1
  <2>1. /\ Head(s) \in T /\ Head(s) = s[1] /\ Tail(s) \in Seq(T) /\ Len(Tail(s)) = Len(s) - 1
        /\ \A i \in 1..Len(Tail(s)) : Tail(s)[i] = s[i + 1]
    BY HeadTailProperties
  <2>2. Len(t) = b
    BY <2>1
  <2>3. DOMAIN t = 1..b /\ DOMAIN s = 1..b + 1
    BY <2>1, <2>2, LenProperties
  <2> HIDE DEF t
  <2> QED BY <2>1, <2>2, <2>3 DEF t
<1> HIDE DEF t
<1>2. \A i \in DOMAIN s : i = 1 \/ (i - 1 \in DOMAIN t /\ s[i] = t[i - 1])
  <2> TAKE i \in DOMAIN s
  <2>1. i \in 1..b + 1
    BY <1>1
  <2>2. i = 1 \/ (i - 1 \in 1..b /\ (i - 1) + 1 = i)
    BY ONLY <2>1
  <2> QED BY ONLY <1>1, <2>2
<1>3. {s[i] : i \in DOMAIN s} = {s[1]} \union {t[i] : i \in DOMAIN t}
  <2>1. 1 \in DOMAIN s
    BY ONLY <1>1
  <2> QED BY ONLY <1>1, <1>2, <2>1
<1>4. Context!Commands(s) = ({s[1]} \ {0}) \union Context!Commands(t)
  BY ONLY <1>3 DEF Context!Commands, Context!PUSH
<1>5. ASSUME Context!InOrder(s)
      PROVE  Context!InOrder(t) /\ (s[1] # 0 => Below({s[1]}, Context!Commands(t)))
  <2>1. \A i, j \in DOMAIN s : i < j /\ s[i] # 0 /\ s[j] # 0 => s[i] < s[j]
    BY <1>5 DEF Context!InOrder, Context!PUSH
  <2>2. Context!InOrder(t)
    <3> SUFFICES ASSUME NEW i \in 1..b, NEW j \in 1..b, i < j, t[i] # 0, t[j] # 0 PROVE t[i] < t[j]
      BY <1>1 DEF Context!InOrder, Context!PUSH
    <3>1. i + 1 < j + 1
      OBVIOUS
    <3> QED BY <1>1, <2>1, <3>1
  <2>3. ASSUME s[1] # 0 PROVE Below({s[1]}, Context!Commands(t))
    <3> SUFFICES ASSUME NEW i \in 1..b, t[i] # 0 PROVE s[1] < t[i]
      BY <1>1 DEF Below, Context!Commands, Context!PUSH
    <3>1. 1 \in DOMAIN s
      BY <1>1
    <3> QED BY <1>1, <2>1, <2>3, <3>1
  <2> QED BY <2>2, <2>3
<1> QED BY ONLY <1>1, <1>4, <1>5 DEF t

LEMMA LeastOf ==
  ASSUME NEW S \in SUBSET Nat, S # {}
  PROVE  LET least == CHOOSE n \in S : \A m \in S : n <= m
         IN least \in S /\ \A m \in S : least <= m
BY NatLeast

\* The handler takes the push messages before the first reply, and no reply.
LEMMA UnhandledMessages ==
  ASSUME NEW T \in SUBSET Nat, NEW s \in Seq(T)
  PROVE  /\ Context!Unhandled(s) \in Seq(T)
         /\ Context!Commands(Context!Unhandled(s)) = Context!Commands(s)
         /\ Context!InOrder(s) => Context!InOrder(Context!Unhandled(s))
         /\ push_cb /\ Context!Unhandled(s) # <<>> => Head(Context!Unhandled(s)) # 0
<1> DEFINE I == {i \in 1..Len(s) : s[i] # 0}
           least == CHOOSE n \in I : \A m \in I : n <= m
<1>a. PICK a \in Nat : a = Len(s)
  BY LenProperties
<1>0. DOMAIN s = 1..a /\ \A i \in 1..a : s[i] \in T
  BY <1>a, LenProperties
<1>1. I # {} => least \in I /\ \A m \in I : least <= m
  <2>1. I \in SUBSET Nat
    BY ONLY <1>a
  <2> HIDE DEF I
  <2> QED BY ONLY <2>1, LeastOf
<1>2. I # {} => least \in 1..a /\ s[least] # 0 /\ \A i \in 1..a : s[i] # 0 => least <= i
  <2> HIDE DEF least
  <2> QED BY <1>1, <1>a
<1>3. I # {} => Context!SelectInSeq(s, LAMBDA m : m # Context!PUSH) = least
  BY DEF Context!SelectInSeq, Context!Min, Context!PUSH
<1>4. I = {} => Context!SelectInSeq(s, LAMBDA m : m # Context!PUSH) = 0
  BY DEF Context!SelectInSeq, Context!PUSH
<1>5. Context!Unhandled(s) = IF ~push_cb THEN s ELSE IF I = {} THEN <<>>
        ELSE SubSeq(s, least, Len(s))
  <2> HIDE DEF I, least
  <2>1. I # {} => least # 0
    BY ONLY <1>2
  <2> QED BY <1>3, <1>4, <2>1 DEF Context!Unhandled
<1>6. CASE ~push_cb
  BY <1>5, <1>6
<1>7. CASE push_cb /\ I = {}
  <2>1. Context!Unhandled(s) = <<>>
    BY <1>5, <1>7
  <2>2. Context!Commands(s) = {}
    <3>1. \A i \in 1..a : s[i] = 0
      BY <1>7, <1>a
    <3> QED BY ONLY <1>0, <3>1 DEF Context!Commands, Context!PUSH
  <2> QED BY ONLY <2>1, <2>2, NoMessages, EmptySeq
<1>8. CASE push_cb /\ I # {}
  <2> HIDE DEF I
  <2> PICK n \in 1..a : n = least
    BY <1>2, <1>8
  <2> HIDE DEF least
  <2> PICK k \in Nat : n = k + 1
    <3> WITNESS n - 1 \in Nat
    <3> QED OBVIOUS
  <2>1. k \in 0..Len(s) /\ Context!Unhandled(s) = SubSeq(s, k + 1, Len(s)) /\ s[k + 1] # 0
    <3>1. k \in 0..a
      OBVIOUS
    <3>2. Context!Unhandled(s) = SubSeq(s, n, Len(s)) /\ s[n] # 0
      BY <1>2, <1>5, <1>8
    <3> QED BY <1>a, <3>1, <3>2
  <2> DEFINE first == SubSeq(s, 1, k)
             left == SubSeq(s, k + 1, Len(s))
  <2>2. /\ first \in Seq(T) /\ left \in Seq(T)
        /\ Context!Commands(s) = Context!Commands(first) \union Context!Commands(left)
        /\ Context!InOrder(s) => Context!InOrder(left)
    BY ONLY <2>1, T \in SUBSET Nat, s \in Seq(T), CutMessages
  <2>3. Context!Commands(first) = {}
    <3>1. \A i \in 1..k : i \in 1..a /\ ~(k + 1 <= i)
      BY <1>a
    <3>2. \A i \in 1..k : s[i] = 0 /\ s[i] \in T
      BY <1>0, <1>2, <1>8, <3>1
    <3>3. /\ Len(first) = (IF 1 <= k THEN k - 1 + 1 ELSE 0)
          /\ \A i \in 1..k - 1 + 1 : first[i] = s[1 + i - 1]
      BY ONLY <3>2, k \in Nat, SubSeqProperties
    <3> HIDE DEF first
    <3>4. DOMAIN first = 1..k /\ \A i \in 1..k : first[i] = s[i]
      BY <2>2, <3>3, LenProperties
    <3> QED BY ONLY <3>2, <3>4 DEF Context!Commands, Context!PUSH
  <2>4. Head(left) # 0
    <3>1. \A i \in k + 1..a : s[i] \in T
      BY <1>0
    <3>2. /\ Len(SubSeq(s, k + 1, a)) = (IF k + 1 <= a THEN a - (k + 1) + 1 ELSE 0)
          /\ \A i \in 1..a - (k + 1) + 1 : SubSeq(s, k + 1, a)[i] = s[k + 1 + i - 1]
      BY ONLY <3>1, a \in Nat, k \in Nat, SubSeqProperties
    <3>3. Len(left) > 0 /\ left[1] = s[k + 1]
      BY <1>a, <3>2
    <3> HIDE DEF left
    <3>4. left # <<>>
      BY ONLY <3>3, EmptySeq
    <3>5. Head(left) = left[1]
      BY ONLY <2>2, <3>4, HeadTailProperties
    <3> QED BY ONLY <2>1, <3>3, <3>5
  <2> HIDE DEF first, left
  <2>5. Context!Unhandled(s) = left
    BY ONLY <2>1 DEF left
  <2>6. Context!Commands(left) = Context!Commands(s)
    BY ONLY <2>2, <2>3
  <2> QED BY ONLY <2>2, <2>4, <2>5, <2>6
<1> QED BY <1>6, <1>7, <1>8

LEMMA SettingTypes ==
  ASSUME ContextAssumption, NEW setting \in Settings \union {Context!Plain}
  PROVE  /\ setting.block \in BOOLEAN /\ setting.limit \in BOOLEAN /\ setting.valid \in BOOLEAN
         /\ setting.type \in {"tcp", "unix", "userfd"}
<1>1. CASE setting \in Settings
  BY <1>1 DEF ContextAssumption
<1>2. CASE setting = Context!Plain
  BY <1>2 DEF Context!Plain
<1> QED BY <1>1, <1>2

LEMMA SocketTypes ==
  ASSUME c.limit \in BOOLEAN, c.block \in BOOLEAN,
         NEW state \in {"none", "pending", "connected"}
  PROVE  Context!Socket(state) \in
           [open : BOOLEAN, link : {"none", "pending", "connected"}, limit : BOOLEAN]
<1>1. PICK both \in BOOLEAN : both = (c.limit /\ c.block)
  OBVIOUS
<1>2. Context!Socket(state) = [open |-> TRUE, link |-> state, limit |-> both]
  BY <1>1 DEF Context!Socket
<1> QED BY <1>2

LEMMA ClosedTypes ==
  Context!Closed \in [open : BOOLEAN, link : {"none", "pending", "connected"}, limit : BOOLEAN]
  BY DEF Context!Closed

LEMMA MessageSets == Messages \in SUBSET Nat /\ Messages \ {0} \in SUBSET Nat
  BY DEF Messages

\* The commands under way are numbers up to the last one's.
LEMMA CommandBounds ==
  ASSUME MessagesKept
  PROVE  /\ Context!Commands(given) \subseteq Nat /\ Context!Commands(input) \subseteq Nat
         /\ Context!Commands(incoming) \subseteq Nat /\ Context!Commands(outgoing) \subseteq Nat
         /\ Context!Commands(output) \subseteq Nat /\ Context!Commands(asked) \subseteq Nat
<1>1. /\ given \in Seq(Messages) /\ input \in Seq(Messages) /\ incoming \in Seq(Messages)
      /\ outgoing \in Seq(Messages \ {0}) /\ output \in Seq(Messages \ {0})
      /\ asked \in Seq(Messages \ {0})
  BY DEF MessagesKept
<1>2. \A T \in SUBSET Nat : \A s \in Seq(T) : Context!Commands(s) \subseteq Nat
  <2> TAKE T \in SUBSET Nat
  <2> TAKE s \in Seq(T)
  <2>1. Context!Commands(s) \subseteq T
    BY CommandNumbers
  <2> QED BY <2>1
<1>3. (\A s \in Seq(Messages) : Context!Commands(s) \subseteq Nat)
      /\ (\A s \in Seq(Messages \ {0}) : Context!Commands(s) \subseteq Nat)
  BY ONLY <1>2, MessageSets
<1> QED BY ONLY <1>1, <1>3

\* __redisAppendCommand numbers the commands upwards.
LEMMA AppendEffect ==
  ASSUME ContextAssumption, ContextTypes, MessagesKept, Ordered, Gapless, Context!Appends
  PROVE  /\ number + 1 \in 0..MaxAsked /\ number' = number + 1
         /\ output' \in Seq(Messages \ {0}) /\ asked' \in Seq(Messages \ {0})
         /\ Context!Commands(output') = Context!Commands(output) \union {number + 1}
         /\ Context!Commands(asked') = Context!Commands(asked) \union {number + 1}
         /\ Context!InOrder(output') /\ \A n \in Context!Commands(asked) : n < number + 1
<1>1. number + 1 \in Messages \ {0} /\ number' = number + 1 /\ number + 1 # 0
      /\ number + 1 \in 0..MaxAsked
  BY DEF ContextAssumption, ContextTypes, Messages, Context!Appends
<1>2. output' = Append(output, number + 1) /\ asked' = Append(asked, number + 1)
  BY DEF Context!Appends
<1>3. output \in Seq(Messages \ {0}) /\ asked \in Seq(Messages \ {0})
  BY DEF MessagesKept
<1>4. \A n \in Context!Commands(asked) : n < number + 1
  <2>1. \A n \in Context!Commands(asked) : n \in Nat /\ n <= number
    BY CommandBounds DEF Ordered
  <2> QED BY <2>1 DEF ContextTypes
<1>5. \A n \in Context!Commands(output) : n < number + 1
  BY <1>4 DEF Gapless, All
<1>6. Context!InOrder(output)
  BY DEF Ordered
<1> DEFINE more == number + 1
<1> HIDE DEF more
<1>7. more \in Messages \ {0} /\ more # 0 /\ \A n \in Context!Commands(output) : n < more
  BY ONLY <1>1, <1>5 DEF more
<1>8. /\ Append(output, more) \in Seq(Messages \ {0})
      /\ Context!Commands(Append(output, more)) = Context!Commands(output) \union ({more} \ {0})
      /\ Context!InOrder(Append(output, more))
  BY ONLY <1>3, <1>6, <1>7, MessageSets, MoreMessages
<1>9. /\ Append(asked, more) \in Seq(Messages \ {0})
      /\ Context!Commands(Append(asked, more)) = Context!Commands(asked) \union ({more} \ {0})
  BY ONLY <1>3, <1>7, MessageSets, MoreMessages
<1>10. {more} \ {0} = {more}
  BY ONLY <1>7
<1> QED BY ONLY <1>1, <1>2, <1>4, <1>8, <1>9, <1>10 DEF more

\* A message that the program takes: the first of a sequence that follows what it has.
LEMMA TakeEffect ==
  ASSUME MessagesKept, Context!InOrder(given), NEW s \in Seq(Messages), s # <<>>,
         Context!InOrder(s), Below(Context!Commands(given), Context!Commands(s))
  PROVE  LET more == Append(given, Head(s))
         IN /\ more \in Seq(Messages) /\ Tail(s) \in Seq(Messages)
            /\ Context!InOrder(more) /\ Context!InOrder(Tail(s))
            /\ Below(Context!Commands(more), Context!Commands(Tail(s)))
            /\ Context!Commands(more) \union Context!Commands(Tail(s)) =
                 Context!Commands(given) \union Context!Commands(s)
<1>a. PICK m \in Messages : m = Head(s)
  BY MessageSets, FirstMessage
<1>1. /\ Tail(s) \in Seq(Messages)
      /\ Context!Commands(s) = ({m} \ {0}) \union Context!Commands(Tail(s))
      /\ Context!InOrder(Tail(s)) /\ (m # 0 => Below({m}, Context!Commands(Tail(s))))
  BY <1>a, MessageSets, FirstMessage
<1>2. m # 0 => \A n \in Context!Commands(given) : n < m
  <2>1. m # 0 => m \in Context!Commands(s)
    BY ONLY <1>1
  <2> QED BY <2>1 DEF Below
<1>3. /\ Append(given, m) \in Seq(Messages)
      /\ Context!Commands(Append(given, m)) = Context!Commands(given) \union ({m} \ {0})
      /\ Context!InOrder(Append(given, m))
  <2>1. given \in Seq(Messages) /\ Context!InOrder(given)
    BY DEF MessagesKept
  <2> QED BY ONLY <1>2, <2>1, m \in Messages, MessageSets, MoreMessages
<1>4. Below(Context!Commands(Append(given, m)), Context!Commands(Tail(s)))
  <2>1. Below(Context!Commands(given), Context!Commands(Tail(s)))
    BY <1>1 DEF Below
  <2>2. Below({m} \ {0}, Context!Commands(Tail(s)))
    BY <1>1 DEF Below
  <2> QED BY ONLY <1>3, <2>1, <2>2 DEF Below
<1>5. Context!Commands(Append(given, m)) \union Context!Commands(Tail(s)) =
        Context!Commands(given) \union Context!Commands(s)
  BY ONLY <1>1, <1>3
<1> QED BY ONLY <1>a, <1>1, <1>3, <1>4, <1>5

\* The beginning of redisGetReply.
LEMMA BeginEffect ==
  ASSUME ContextFlags, MessagesKept, Ordered, Context!Begin
  PROVE  /\ given' \in Seq(Messages) /\ input' \in Seq(Messages)
         /\ Context!InOrder(given') /\ Context!InOrder(input')
         /\ Below(Context!Commands(given'), Context!Commands(input'))
         /\ Context!Commands(given') \union Context!Commands(input') =
              Context!Commands(given) \union Context!Commands(input)
<1>0. /\ given \in Seq(Messages) /\ input \in Seq(Messages)
      /\ Context!InOrder(given) /\ Context!InOrder(input)
      /\ Below(Context!Commands(given), Context!Commands(input))
  BY DEF MessagesKept, Ordered
<1>1. CASE input # <<>>
  <2>1. given' = Append(given, Head(input)) /\ input' = Tail(input)
    BY <1>1 DEF Context!Begin
  <2>2. LET more == Append(given, Head(input))
        IN /\ more \in Seq(Messages) /\ Tail(input) \in Seq(Messages)
           /\ Context!InOrder(more) /\ Context!InOrder(Tail(input))
           /\ Below(Context!Commands(more), Context!Commands(Tail(input)))
           /\ Context!Commands(more) \union Context!Commands(Tail(input)) =
                Context!Commands(given) \union Context!Commands(input)
    BY ONLY <1>0, <1>1, MessagesKept, TakeEffect
  <2> QED BY ONLY <2>1, <2>2
<1>2. CASE input = <<>>
  <2>1. given' = given /\ input' = input
    BY <1>2 DEF Context!Begin
  <2> QED BY ONLY <1>0, <2>1
<1> QED BY ONLY <1>1, <1>2

LEMMA ContextInitInv == Context!Init => ContextInv
<1> SUFFICES ASSUME Context!Init PROVE ContextInv
  OBVIOUS
<1> USE ContextAssumption, NoMessages
<1>1. ContextTypes
  BY DEF Context!Init, ContextTypes
<1>2. ContextFlags
  BY DEF Context!Init, ContextFlags, ContextTypes
<1>3. DescriptorKept
  BY DEF Context!Init, DescriptorKept, ContextFlags, Context!Closed, Context!Socket
<1>4. MessagesKept
  BY DEF Context!Init, MessagesKept
<1>5. Ordered
  <2>1. /\ given = <<>> /\ input = <<>> /\ incoming = <<>> /\ outgoing = <<>>
        /\ output = <<>> /\ asked = <<>>
    BY DEF Context!Init
  <2>2. Back = {} /\ Below({}, {}) /\ {} \union {} = {}
    BY ONLY <2>1, NoMessages DEF Back, Below
  <2> QED BY ONLY <2>1, <2>2, NoMessages DEF Ordered
<1>6. Gapless
  BY DEF Context!Init, Gapless, All, Back, Whole, Context!Closed, Context!Socket, Outcome
<1>7. Outcome
  BY DEF Context!Init, Outcome, Context!FailureHasError, Context!PushOutOfBand,
         Context!Closed, Context!Socket
<1> QED BY <1>1, <1>2, <1>3, <1>4, <1>5, <1>6, <1>7 DEF ContextInv

LEMMA ContextCreate ==
  ASSUME ContextInv, NEW setting \in Settings, Context!Create(setting)
  PROVE  ContextInv'
<1>0. /\ ContextTypes /\ ContextFlags /\ DescriptorKept /\ MessagesKept
      /\ Ordered /\ Gapless /\ Outcome
  BY DEF ContextInv
<1>00. c.block \in BOOLEAN /\ c.limit \in BOOLEAN
  BY ContextAssumption, <1>0, SettingTypes DEF ContextTypes
<1> USE <1>0, <1>00, ContextAssumption, NoMessages
<1>1. ContextTypes'
  BY DEF Context!Create, Context!link, Context!counters, Context!seen, ContextTypes
<1>2. ContextFlags'
  BY DEF Context!Create, Context!link, Context!counters, Context!seen, ContextFlags,
         ContextTypes
<1>3. DescriptorKept'
  <2>1. setting.limit \in BOOLEAN /\ setting.block \in BOOLEAN
    BY DEF ContextAssumption
  <2>2. PICK both \in BOOLEAN : both = (setting.limit /\ setting.block)
    BY ONLY <2>1
  <2>3. descriptor' \in {descriptor, [open |-> TRUE, link |-> "connected", limit |-> both]}
    BY <2>2 DEF Context!Create
  <2>4. [open |-> TRUE, link |-> "connected", limit |-> both] \in
          [open : BOOLEAN, link : {"none", "pending", "connected"}, limit : BOOLEAN]
    BY ONLY both \in BOOLEAN
  <2> QED BY ONLY <1>0, <2>3, <2>4 DEF DescriptorKept
<1>4. MessagesKept'
  BY DEF Context!Create, Context!link, Context!counters, Context!seen, MessagesKept
<1>5. Ordered'
  BY DEF Context!Create, Context!link, Context!counters, Context!seen, Ordered, Back
<1>6. Gapless'
  BY DEF Context!Create, Context!link, Context!counters, Context!seen, Gapless, All, Back,
         Whole, Context!Closed, Context!Socket, Outcome
<1>7. Outcome'
  BY DEF Context!Create, Context!link, Context!counters, Context!seen, Outcome,
         Context!FailureHasError, Context!PushOutOfBand, Context!Closed, Context!Socket
<1> QED BY <1>1, <1>2, <1>3, <1>4, <1>5, <1>6, <1>7 DEF ContextInv

LEMMA ContextReconnect ==
  ASSUME ContextInv, Context!Reconnect
  PROVE  ContextInv'
<1>0. /\ ContextTypes /\ ContextFlags /\ DescriptorKept /\ MessagesKept
      /\ Ordered /\ Gapless /\ Outcome
  BY DEF ContextInv
<1>00. c.block \in BOOLEAN /\ c.limit \in BOOLEAN
  BY ContextAssumption, <1>0, SettingTypes DEF ContextTypes
<1> USE <1>0, <1>00, ContextAssumption, NoMessages
<1>1. ContextTypes'
  BY DEF Context!Reconnect, Context!link, Context!counters, Context!seen, ContextTypes
<1>2. ContextFlags'
  BY DEF Context!Reconnect, Context!link, Context!counters, Context!seen, ContextFlags,
         ContextTypes
<1>3. DescriptorKept'
  BY DEF Context!Reconnect, Context!link, Context!counters, Context!seen, DescriptorKept,
         ContextFlags, Context!Closed, Context!Socket
<1>4. MessagesKept'
  BY DEF Context!Reconnect, Context!link, Context!counters, Context!seen, MessagesKept
<1>5. Ordered'
  <2>1. /\ given' = <<>> /\ input' = <<>> /\ incoming' = <<>> /\ outgoing' = <<>>
        /\ output' = <<>> /\ asked' = <<>>
    BY DEF Context!Reconnect
  <2>2. Back' = {} /\ Below({}, {}) /\ {} \union {} = {}
    BY ONLY <2>1, NoMessages DEF Back, Below
  <2> QED BY ONLY <2>1, <2>2, NoMessages DEF Ordered
<1>6. Gapless'
  BY DEF Context!Reconnect, Context!link, Context!counters, Context!seen, Gapless, All,
         Back, Whole, Context!Closed, Context!Socket, Outcome
<1>7. Outcome'
  BY DEF Context!Reconnect, Context!link, Context!counters, Context!seen, Outcome,
         Context!FailureHasError, Context!PushOutOfBand, Context!Closed, Context!Socket
<1> QED BY <1>1, <1>2, <1>3, <1>4, <1>5, <1>6, <1>7 DEF ContextInv

LEMMA ContextFree ==
  ASSUME ContextInv, Context!Free
  PROVE  ContextInv'
<1>0. /\ ContextTypes /\ ContextFlags /\ DescriptorKept /\ MessagesKept
      /\ Ordered /\ Gapless /\ Outcome
  BY DEF ContextInv
<1>00. c.block \in BOOLEAN /\ c.limit \in BOOLEAN
  BY ContextAssumption, <1>0, SettingTypes DEF ContextTypes
<1> USE <1>0, <1>00, ContextAssumption, NoMessages
<1>1. ContextTypes'
  BY DEF Context!Free, Context!link, Context!counters, Context!seen, ContextTypes
<1>2. ContextFlags'
  BY DEF Context!Free, Context!link, Context!counters, Context!seen, ContextFlags,
         ContextTypes
<1>3. DescriptorKept'
  BY DEF Context!Free, Context!link, Context!counters, Context!seen, DescriptorKept,
         ContextFlags, Context!Closed, Context!Socket
<1>4. MessagesKept'
  BY DEF Context!Free, Context!link, Context!counters, Context!seen, MessagesKept
<1>5. Ordered'
  <2>1. /\ given' = <<>> /\ input' = <<>> /\ incoming' = <<>> /\ outgoing' = <<>>
        /\ output' = <<>> /\ asked' = <<>>
    BY DEF Context!Free
  <2>2. Back' = {} /\ Below({}, {}) /\ {} \union {} = {}
    BY ONLY <2>1, NoMessages DEF Back, Below
  <2> QED BY ONLY <2>1, <2>2, NoMessages DEF Ordered
<1>6. Gapless'
  BY DEF Context!Free, Context!link, Context!counters, Context!seen, Gapless, All, Back,
         Whole, Context!Closed, Context!Socket, Outcome
<1>7. Outcome'
  BY DEF Context!Free, Context!link, Context!counters, Context!seen, Outcome,
         Context!FailureHasError, Context!PushOutOfBand, Context!Closed, Context!Socket
<1> QED BY <1>1, <1>2, <1>3, <1>4, <1>5, <1>6, <1>7 DEF ContextInv

LEMMA ContextSetTimeout ==
  ASSUME ContextInv, Context!SetTimeout
  PROVE  ContextInv'
<1>0. /\ ContextTypes /\ ContextFlags /\ DescriptorKept /\ MessagesKept
      /\ Ordered /\ Gapless /\ Outcome
  BY DEF ContextInv
<1>00. c.block \in BOOLEAN /\ c.limit \in BOOLEAN
  BY ContextAssumption, <1>0, SettingTypes DEF ContextTypes
<1> USE <1>0, <1>00, ContextAssumption, NoMessages
<1>1. ContextTypes'
  BY DEF Context!SetTimeout, Context!link, Context!counters, Context!seen, ContextTypes
<1>2. ContextFlags'
  BY DEF Context!SetTimeout, Context!link, Context!counters, Context!seen, ContextFlags,
         ContextTypes
<1>3. DescriptorKept'
  BY DEF Context!SetTimeout, Context!link, Context!counters, Context!seen, DescriptorKept,
         ContextFlags, Context!Closed, Context!Socket
<1>4. MessagesKept'
  BY DEF Context!SetTimeout, Context!link, Context!counters, Context!seen, MessagesKept
<1>5. Ordered'
  BY DEF Context!SetTimeout, Context!link, Context!counters, Context!seen, Ordered, Back
<1>6. Gapless'
  BY DEF Context!SetTimeout, Context!link, Context!counters, Context!seen, Gapless, All,
         Back, Whole, Context!Closed, Context!Socket, Outcome
<1>7. Outcome'
  BY DEF Context!SetTimeout, Context!link, Context!counters, Context!seen, Outcome,
         Context!FailureHasError, Context!PushOutOfBand, Context!Closed, Context!Socket
<1> QED BY <1>1, <1>2, <1>3, <1>4, <1>5, <1>6, <1>7 DEF ContextInv

LEMMA ContextSetPushCallback ==
  ASSUME ContextInv, Context!SetPushCallback
  PROVE  ContextInv'
<1>0. /\ ContextTypes /\ ContextFlags /\ DescriptorKept /\ MessagesKept
      /\ Ordered /\ Gapless /\ Outcome
  BY DEF ContextInv
<1>00. c.block \in BOOLEAN /\ c.limit \in BOOLEAN
  BY ContextAssumption, <1>0, SettingTypes DEF ContextTypes
<1> USE <1>0, <1>00, ContextAssumption, NoMessages
<1>1. ContextTypes'
  BY DEF Context!SetPushCallback, Context!link, Context!counters, Context!seen, ContextTypes
<1>2. ContextFlags'
  BY DEF Context!SetPushCallback, Context!link, Context!counters, Context!seen,
         ContextFlags, ContextTypes
<1>3. DescriptorKept'
  BY DEF Context!SetPushCallback, Context!link, Context!counters, Context!seen,
         DescriptorKept, ContextFlags, Context!Closed, Context!Socket
<1>4. MessagesKept'
  BY DEF Context!SetPushCallback, Context!link, Context!counters, Context!seen, MessagesKept
<1>5. Ordered'
  BY DEF Context!SetPushCallback, Context!link, Context!counters, Context!seen, Ordered,
         Back
<1>6. Gapless'
  BY DEF Context!SetPushCallback, Context!link, Context!counters, Context!seen, Gapless,
         All, Back, Whole, Context!Closed, Context!Socket, Outcome
<1>7. Outcome'
  BY DEF Context!SetPushCallback, Context!link, Context!counters, Context!seen, Outcome,
         Context!FailureHasError, Context!PushOutOfBand, Context!Closed, Context!Socket
<1> QED BY <1>1, <1>2, <1>3, <1>4, <1>5, <1>6, <1>7 DEF ContextInv

LEMMA ContextAppendCommand ==
  ASSUME ContextInv, Context!AppendCommand
  PROVE  ContextInv'
<1>0. /\ ContextTypes /\ ContextFlags /\ DescriptorKept /\ MessagesKept
      /\ Ordered /\ Gapless /\ Outcome
  BY DEF ContextInv
<1>00. c.block \in BOOLEAN /\ c.limit \in BOOLEAN
  BY ContextAssumption, <1>0, SettingTypes DEF ContextTypes
<1> USE <1>0, <1>00, ContextAssumption, NoMessages
<1>a. /\ number' = number + 1 /\ output' \in Seq(Messages \ {0}) /\ asked' \in Seq(Messages \ {0})
      /\ Context!Commands(output') = Context!Commands(output) \union {number + 1}
      /\ Context!Commands(asked') = Context!Commands(asked) \union {number + 1}
      /\ Context!InOrder(output') /\ \A n \in Context!Commands(asked) : n < number + 1
  BY AppendEffect DEF Context!AppendCommand
<1>b. UNCHANGED <<given, input, incoming, outgoing, alive, descriptor, where>> /\ where = "out"
  BY DEF Context!AppendCommand, Context!link
<1>c. /\ given' \in Seq(Messages) /\ input' \in Seq(Messages)
      /\ Context!InOrder(given') /\ Context!InOrder(input')
      /\ Below(Context!Commands(given'), Context!Commands(input'))
      /\ Context!Commands(given') \union Context!Commands(input') =
           Context!Commands(given) \union Context!Commands(input)
  BY <1>b DEF MessagesKept, Ordered
<1>1. ContextTypes'
  BY DEF Context!AppendCommand, Context!link, Context!counters, Context!seen,
         Context!Appends, ContextTypes
<1>2. ContextFlags'
  BY DEF Context!AppendCommand, Context!link, Context!counters, Context!seen,
         Context!Appends, ContextFlags, ContextTypes
<1>3. DescriptorKept'
  BY DEF Context!AppendCommand, Context!link, Context!counters, Context!seen,
         Context!Appends, DescriptorKept, ContextFlags, Context!Closed, Context!Socket
<1>4. MessagesKept'
  BY ONLY <1>0, <1>a, <1>b, <1>c DEF MessagesKept
<1>5. Ordered'
  <2>1. Back' = Back
    BY ONLY <1>b, <1>c DEF Back
  <2>2. Below(Context!Commands(given') \union Context!Commands(input'), Context!Commands(incoming'))
    BY ONLY <1>0, <1>b, <1>c DEF Ordered
  <2>3. Below(Back', Context!Commands(outgoing'))
    BY ONLY <1>0, <1>b, <2>1 DEF Ordered
  <2>4. Below(Back' \union Context!Commands(outgoing'), Context!Commands(output'))
    <3>1. \A m \in Back \union Context!Commands(outgoing) : m < number + 1
      BY <1>a DEF Gapless, All
    <3>2. Below(Back \union Context!Commands(outgoing), Context!Commands(output))
      BY DEF Ordered
    <3> QED BY ONLY <1>a, <1>b, <2>1, <3>1, <3>2 DEF Below
  <2>5. \A n \in Context!Commands(asked') : n <= number'
    <3>1. \A n \in Context!Commands(asked) : n \in Nat /\ n < number + 1
      BY <1>a, CommandBounds
    <3> QED BY ONLY <1>0, <1>a, <3>1 DEF ContextTypes
  <2> QED BY ONLY <1>0, <1>a, <1>b, <1>c, <2>2, <2>3, <2>4, <2>5 DEF Ordered
<1>6. Gapless'
  <2>1. Back' = Back
    BY ONLY <1>b, <1>c DEF Back
  <2>2. All' = All \union {number + 1} /\ Back \subseteq All
    BY ONLY <1>a, <1>b, <2>1 DEF All
  <2>3. \A m \in Back, n \in Context!Commands(asked') : n < m => n \in Back
    <3>1. \A m \in Back : m < number + 1 /\ m \in Nat
      BY <1>a, CommandBounds DEF Gapless, All, Back
    <3>2. \A m \in Back : ~(number + 1 < m)
      BY ONLY <1>0, <3>1 DEF ContextTypes
    <3> QED BY ONLY <1>0, <1>a, <3>2 DEF Gapless
  <2>4. Whole' => Whole
    BY ONLY <1>b DEF Whole
  <2> QED BY ONLY <1>0, <1>a, <1>b, <2>1, <2>2, <2>3, <2>4 DEF Gapless
<1>7. Outcome'
  BY DEF Context!AppendCommand, Context!link, Context!counters, Context!seen,
         Context!Appends, Outcome, Context!FailureHasError, Context!PushOutOfBand,
         Context!Closed, Context!Socket
<1> QED BY <1>1, <1>2, <1>3, <1>4, <1>5, <1>6, <1>7 DEF ContextInv

LEMMA ContextGetReply ==
  ASSUME ContextInv, Context!GetReply
  PROVE  ContextInv'
<1>0. /\ ContextTypes /\ ContextFlags /\ DescriptorKept /\ MessagesKept
      /\ Ordered /\ Gapless /\ Outcome
  BY DEF ContextInv
<1>00. c.block \in BOOLEAN /\ c.limit \in BOOLEAN
  BY ContextAssumption, <1>0, SettingTypes DEF ContextTypes
<1> USE <1>0, <1>00, ContextAssumption, NoMessages
<1>b. UNCHANGED <<incoming, outgoing, output, asked, number, alive, descriptor>>
        /\ where = "out" /\ where' \in {"out", "write"}
  BY DEF Context!GetReply, Context!Begin, Context!link, Context!counters
<1>c. /\ given' \in Seq(Messages) /\ input' \in Seq(Messages)
      /\ Context!InOrder(given') /\ Context!InOrder(input')
      /\ Below(Context!Commands(given'), Context!Commands(input'))
      /\ Context!Commands(given') \union Context!Commands(input') =
           Context!Commands(given) \union Context!Commands(input)
  BY ONLY <1>0, Context!GetReply, BeginEffect DEF Context!GetReply
<1>1. ContextTypes'
  BY DEF Context!GetReply, Context!link, Context!counters, Context!seen, Context!Begin,
         ContextTypes
<1>2. ContextFlags'
  BY DEF Context!GetReply, Context!link, Context!counters, Context!seen, Context!Begin,
         ContextFlags, ContextTypes
<1>3. DescriptorKept'
  BY DEF Context!GetReply, Context!link, Context!counters, Context!seen, Context!Begin,
         DescriptorKept, ContextFlags, Context!Closed, Context!Socket
<1>4. MessagesKept'
  BY ONLY <1>0, <1>b, <1>c DEF MessagesKept
<1>5. Ordered'
  <2>1. Back' = Back
    BY ONLY <1>b, <1>c DEF Back
  <2>2. Below(Context!Commands(given') \union Context!Commands(input'), Context!Commands(incoming'))
    BY ONLY <1>0, <1>b, <1>c DEF Ordered
  <2>3. Below(Back', Context!Commands(outgoing'))
    BY ONLY <1>0, <1>b, <2>1 DEF Ordered
  <2> QED BY ONLY <1>0, <1>b, <1>c, <2>1, <2>2, <2>3 DEF Ordered
<1>6. Gapless'
  <2>1. Back' = Back
    BY ONLY <1>b, <1>c DEF Back
  <2>2. All' = All
    BY ONLY <1>b, <2>1 DEF All
  <2>3. Whole' => Whole
    BY ONLY <1>b DEF Whole
  <2> QED BY ONLY <1>0, <1>b, <2>1, <2>2, <2>3 DEF Gapless
<1>7. Outcome'
  BY DEF Context!GetReply, Context!link, Context!counters, Context!seen, Context!Begin,
         Outcome, Context!FailureHasError, Context!PushOutOfBand, Context!Closed,
         Context!Socket
<1> QED BY <1>1, <1>2, <1>3, <1>4, <1>5, <1>6, <1>7 DEF ContextInv

LEMMA ContextCommand ==
  ASSUME ContextInv, Context!Command
  PROVE  ContextInv'
<1>0. /\ ContextTypes /\ ContextFlags /\ DescriptorKept /\ MessagesKept
      /\ Ordered /\ Gapless /\ Outcome
  BY DEF ContextInv
<1>00. c.block \in BOOLEAN /\ c.limit \in BOOLEAN
  BY ContextAssumption, <1>0, SettingTypes DEF ContextTypes
<1> USE <1>0, <1>00, ContextAssumption, NoMessages
<1>a. /\ number' = number + 1 /\ output' \in Seq(Messages \ {0}) /\ asked' \in Seq(Messages \ {0})
      /\ Context!Commands(output') = Context!Commands(output) \union {number + 1}
      /\ Context!Commands(asked') = Context!Commands(asked) \union {number + 1}
      /\ Context!InOrder(output') /\ \A n \in Context!Commands(asked) : n < number + 1
  BY AppendEffect DEF Context!Command
<1>b. UNCHANGED <<incoming, outgoing, alive, descriptor>> /\ where = "out"
        /\ where' \in {"out", "write"}
  BY DEF Context!Command, Context!Begin, Context!link
<1>c. /\ given' \in Seq(Messages) /\ input' \in Seq(Messages)
      /\ Context!InOrder(given') /\ Context!InOrder(input')
      /\ Below(Context!Commands(given'), Context!Commands(input'))
      /\ Context!Commands(given') \union Context!Commands(input') =
           Context!Commands(given) \union Context!Commands(input)
  <2>1. Context!Begin \/ UNCHANGED <<given, input>>
    BY DEF Context!Command
  <2>2. CASE UNCHANGED <<given, input>>
    BY <2>2 DEF MessagesKept, Ordered
  <2> QED BY ONLY <1>0, <2>1, <2>2, BeginEffect
<1>1. ContextTypes'
  BY DEF Context!Command, Context!link, Context!counters, Context!seen, Context!Appends,
         Context!Begin, ContextTypes
<1>2. ContextFlags'
  BY DEF Context!Command, Context!link, Context!counters, Context!seen, Context!Appends,
         Context!Begin, ContextFlags, ContextTypes
<1>3. DescriptorKept'
  BY DEF Context!Command, Context!link, Context!counters, Context!seen, Context!Appends,
         Context!Begin, DescriptorKept, ContextFlags, Context!Closed, Context!Socket
<1>4. MessagesKept'
  BY ONLY <1>0, <1>a, <1>b, <1>c DEF MessagesKept
<1>5. Ordered'
  <2>1. Back' = Back
    BY ONLY <1>b, <1>c DEF Back
  <2>2. Below(Context!Commands(given') \union Context!Commands(input'), Context!Commands(incoming'))
    BY ONLY <1>0, <1>b, <1>c DEF Ordered
  <2>3. Below(Back', Context!Commands(outgoing'))
    BY ONLY <1>0, <1>b, <2>1 DEF Ordered
  <2>4. Below(Back' \union Context!Commands(outgoing'), Context!Commands(output'))
    <3>1. \A m \in Back \union Context!Commands(outgoing) : m < number + 1
      BY <1>a DEF Gapless, All
    <3>2. Below(Back \union Context!Commands(outgoing), Context!Commands(output))
      BY DEF Ordered
    <3> QED BY ONLY <1>a, <1>b, <2>1, <3>1, <3>2 DEF Below
  <2>5. \A n \in Context!Commands(asked') : n <= number'
    <3>1. \A n \in Context!Commands(asked) : n \in Nat /\ n < number + 1
      BY <1>a, CommandBounds
    <3> QED BY ONLY <1>0, <1>a, <3>1 DEF ContextTypes
  <2> QED BY ONLY <1>0, <1>a, <1>b, <1>c, <2>2, <2>3, <2>4, <2>5 DEF Ordered
<1>6. Gapless'
  <2>1. Back' = Back
    BY ONLY <1>b, <1>c DEF Back
  <2>2. All' = All \union {number + 1} /\ Back \subseteq All
    BY ONLY <1>a, <1>b, <2>1 DEF All
  <2>3. \A m \in Back, n \in Context!Commands(asked') : n < m => n \in Back
    <3>1. \A m \in Back : m < number + 1 /\ m \in Nat
      BY <1>a, CommandBounds DEF Gapless, All, Back
    <3>2. \A m \in Back : ~(number + 1 < m)
      BY ONLY <1>0, <3>1 DEF ContextTypes
    <3> QED BY ONLY <1>0, <1>a, <3>2 DEF Gapless
  <2>4. Whole' => Whole
    BY ONLY <1>b DEF Whole
  <2> QED BY ONLY <1>0, <1>a, <1>b, <2>1, <2>2, <2>3, <2>4 DEF Gapless
<1>7. Outcome'
  BY DEF Context!Command, Context!link, Context!counters, Context!seen, Context!Appends,
         Context!Begin, Outcome, Context!FailureHasError, Context!PushOutOfBand,
         Context!Closed, Context!Socket
<1> QED BY <1>1, <1>2, <1>3, <1>4, <1>5, <1>6, <1>7 DEF ContextInv

LEMMA ContextConnectTcp ==
  ASSUME ContextInv, Context!ConnectTcp
  PROVE  ContextInv'
<1>0. /\ ContextTypes /\ ContextFlags /\ DescriptorKept /\ MessagesKept
      /\ Ordered /\ Gapless /\ Outcome
  BY DEF ContextInv
<1>00. c.block \in BOOLEAN /\ c.limit \in BOOLEAN
  BY ContextAssumption, <1>0, SettingTypes DEF ContextTypes
<1> USE <1>0, <1>00, ContextAssumption, NoMessages
<1>1. ContextTypes'
  BY DEF Context!ConnectTcp, Context!link, Context!counters, Context!seen, Context!Ends,
         Context!Unmoved, ContextTypes
<1>2. ContextFlags'
  BY DEF Context!ConnectTcp, Context!link, Context!counters, Context!seen, Context!Ends,
         Context!Unmoved, ContextFlags, ContextTypes
<1>3. DescriptorKept'
  <2>1. \/ descriptor' = Context!Closed
        \/ \E state \in {"none", "pending", "connected"} : descriptor' = Context!Socket(state)
    BY DEF Context!ConnectTcp, Context!Ends
  <2> QED BY ONLY <1>00, <2>1, SocketTypes, ClosedTypes DEF DescriptorKept
<1>4. MessagesKept'
  BY DEF Context!ConnectTcp, Context!link, Context!counters, Context!seen, Context!Ends,
         Context!Unmoved, MessagesKept
<1>5. Ordered'
  BY DEF Context!ConnectTcp, Context!link, Context!counters, Context!seen, Context!Ends,
         Context!Unmoved, Ordered, Back
<1>6. Gapless'
  BY DEF Context!ConnectTcp, Context!link, Context!counters, Context!seen, Context!Ends,
         Context!Unmoved, Gapless, All, Back, Whole, Context!Closed, Context!Socket, Outcome
<1>7. Outcome'
  BY DEF Context!ConnectTcp, Context!link, Context!counters, Context!seen, Context!Ends,
         Context!Unmoved, Outcome, Context!FailureHasError, Context!PushOutOfBand,
         Context!Closed, Context!Socket
<1> QED BY <1>1, <1>2, <1>3, <1>4, <1>5, <1>6, <1>7 DEF ContextInv

LEMMA ContextConnectUnix ==
  ASSUME ContextInv, Context!ConnectUnix
  PROVE  ContextInv'
<1>0. /\ ContextTypes /\ ContextFlags /\ DescriptorKept /\ MessagesKept
      /\ Ordered /\ Gapless /\ Outcome
  BY DEF ContextInv
<1>00. c.block \in BOOLEAN /\ c.limit \in BOOLEAN
  BY ContextAssumption, <1>0, SettingTypes DEF ContextTypes
<1> USE <1>0, <1>00, ContextAssumption, NoMessages
<1>1. ContextTypes'
  BY DEF Context!ConnectUnix, Context!link, Context!counters, Context!seen, Context!Ends,
         Context!Unmoved, ContextTypes
<1>2. ContextFlags'
  BY DEF Context!ConnectUnix, Context!link, Context!counters, Context!seen, Context!Ends,
         Context!Unmoved, ContextFlags, ContextTypes
<1>3. DescriptorKept'
  <2>1. \/ descriptor' = Context!Closed
        \/ \E state \in {"none", "pending", "connected"} : descriptor' = Context!Socket(state)
    BY DEF Context!ConnectUnix, Context!Ends
  <2> QED BY ONLY <1>00, <2>1, SocketTypes, ClosedTypes DEF DescriptorKept
<1>4. MessagesKept'
  BY DEF Context!ConnectUnix, Context!link, Context!counters, Context!seen, Context!Ends,
         Context!Unmoved, MessagesKept
<1>5. Ordered'
  BY DEF Context!ConnectUnix, Context!link, Context!counters, Context!seen, Context!Ends,
         Context!Unmoved, Ordered, Back
<1>6. Gapless'
  BY DEF Context!ConnectUnix, Context!link, Context!counters, Context!seen, Context!Ends,
         Context!Unmoved, Gapless, All, Back, Whole, Context!Closed, Context!Socket, Outcome
<1>7. Outcome'
  BY DEF Context!ConnectUnix, Context!link, Context!counters, Context!seen, Context!Ends,
         Context!Unmoved, Outcome, Context!FailureHasError, Context!PushOutOfBand,
         Context!Closed, Context!Socket
<1> QED BY <1>1, <1>2, <1>3, <1>4, <1>5, <1>6, <1>7 DEF ContextInv

LEMMA ContextWaitReady ==
  ASSUME ContextInv, Context!WaitReady
  PROVE  ContextInv'
<1>0. /\ ContextTypes /\ ContextFlags /\ DescriptorKept /\ MessagesKept
      /\ Ordered /\ Gapless /\ Outcome
  BY DEF ContextInv
<1>00. c.block \in BOOLEAN /\ c.limit \in BOOLEAN
  BY ContextAssumption, <1>0, SettingTypes DEF ContextTypes
<1> USE <1>0, <1>00, ContextAssumption, NoMessages
<1>1. ContextTypes'
  BY DEF Context!WaitReady, Context!link, Context!counters, Context!seen, Context!Ends,
         Context!Unmoved, ContextTypes
<1>2. ContextFlags'
  BY DEF Context!WaitReady, Context!link, Context!counters, Context!seen, Context!Ends,
         Context!Unmoved, ContextFlags, ContextTypes
<1>3. DescriptorKept'
  <2>1. \/ descriptor' = Context!Closed
        \/ \E state \in {"none", "pending", "connected"} : descriptor' = Context!Socket(state)
    BY DEF Context!WaitReady, Context!Ends
  <2> QED BY ONLY <1>00, <2>1, SocketTypes, ClosedTypes DEF DescriptorKept
<1>4. MessagesKept'
  BY DEF Context!WaitReady, Context!link, Context!counters, Context!seen, Context!Ends,
         Context!Unmoved, MessagesKept
<1>5. Ordered'
  BY DEF Context!WaitReady, Context!link, Context!counters, Context!seen, Context!Ends,
         Context!Unmoved, Ordered, Back
<1>6. Gapless'
  BY DEF Context!WaitReady, Context!link, Context!counters, Context!seen, Context!Ends,
         Context!Unmoved, Gapless, All, Back, Whole, Context!Closed, Context!Socket, Outcome
<1>7. Outcome'
  BY DEF Context!WaitReady, Context!link, Context!counters, Context!seen, Context!Ends,
         Context!Unmoved, Outcome, Context!FailureHasError, Context!PushOutOfBand,
         Context!Closed, Context!Socket
<1> QED BY <1>1, <1>2, <1>3, <1>4, <1>5, <1>6, <1>7 DEF ContextInv

LEMMA ContextEarlyReturn ==
  ASSUME ContextInv, Context!EarlyReturn
  PROVE  ContextInv'
<1>0. /\ ContextTypes /\ ContextFlags /\ DescriptorKept /\ MessagesKept
      /\ Ordered /\ Gapless /\ Outcome
  BY DEF ContextInv
<1>00. c.block \in BOOLEAN /\ c.limit \in BOOLEAN
  BY ContextAssumption, <1>0, SettingTypes DEF ContextTypes
<1> USE <1>0, <1>00, ContextAssumption, NoMessages
<1>1. ContextTypes'
  BY DEF Context!EarlyReturn, Context!link, Context!counters, Context!seen, Context!Fails,
         Context!Writing, Context!Reading, ContextTypes
<1>2. ContextFlags'
  BY DEF Context!EarlyReturn, Context!link, Context!counters, Context!seen, Context!Fails,
         Context!Writing, Context!Reading, ContextFlags, ContextTypes
<1>3. DescriptorKept'
  BY DEF Context!EarlyReturn, Context!link, Context!counters, Context!seen, Context!Fails,
         Context!Writing, Context!Reading, DescriptorKept, ContextFlags, Context!Closed,
         Context!Socket
<1>4. MessagesKept'
  BY DEF Context!EarlyReturn, Context!link, Context!counters, Context!seen, Context!Fails,
         Context!Writing, Context!Reading, MessagesKept
<1>5. Ordered'
  BY DEF Context!EarlyReturn, Context!link, Context!counters, Context!seen, Context!Fails,
         Context!Writing, Context!Reading, Ordered, Back
<1>6. Gapless'
  BY DEF Context!EarlyReturn, Context!link, Context!counters, Context!seen, Context!Fails,
         Context!Writing, Context!Reading, Gapless, All, Back, Whole, Context!Closed,
         Context!Socket, Outcome
<1>7. Outcome'
  BY DEF Context!EarlyReturn, Context!link, Context!counters, Context!seen, Context!Fails,
         Context!Writing, Context!Reading, Outcome, Context!FailureHasError,
         Context!PushOutOfBand, Context!Closed, Context!Socket
<1> QED BY <1>1, <1>2, <1>3, <1>4, <1>5, <1>6, <1>7 DEF ContextInv

LEMMA ContextWriteFails ==
  ASSUME ContextInv, Context!WriteFails
  PROVE  ContextInv'
<1>0. /\ ContextTypes /\ ContextFlags /\ DescriptorKept /\ MessagesKept
      /\ Ordered /\ Gapless /\ Outcome
  BY DEF ContextInv
<1>00. c.block \in BOOLEAN /\ c.limit \in BOOLEAN
  BY ContextAssumption, <1>0, SettingTypes DEF ContextTypes
<1> USE <1>0, <1>00, ContextAssumption, NoMessages
<1>1. ContextTypes'
  BY DEF Context!WriteFails, Context!link, Context!counters, Context!seen, Context!Fails,
         Context!Writing, Context!Reading, ContextTypes
<1>2. ContextFlags'
  BY DEF Context!WriteFails, Context!link, Context!counters, Context!seen, Context!Fails,
         Context!Writing, Context!Reading, ContextFlags, ContextTypes
<1>3. DescriptorKept'
  BY DEF Context!WriteFails, Context!link, Context!counters, Context!seen, Context!Fails,
         Context!Writing, Context!Reading, DescriptorKept, ContextFlags, Context!Closed,
         Context!Socket
<1>4. MessagesKept'
  BY DEF Context!WriteFails, Context!link, Context!counters, Context!seen, Context!Fails,
         Context!Writing, Context!Reading, MessagesKept
<1>5. Ordered'
  BY DEF Context!WriteFails, Context!link, Context!counters, Context!seen, Context!Fails,
         Context!Writing, Context!Reading, Ordered, Back
<1>6. Gapless'
  BY DEF Context!WriteFails, Context!link, Context!counters, Context!seen, Context!Fails,
         Context!Writing, Context!Reading, Gapless, All, Back, Whole, Context!Closed,
         Context!Socket, Outcome
<1>7. Outcome'
  BY DEF Context!WriteFails, Context!link, Context!counters, Context!seen, Context!Fails,
         Context!Writing, Context!Reading, Outcome, Context!FailureHasError,
         Context!PushOutOfBand, Context!Closed, Context!Socket
<1> QED BY <1>1, <1>2, <1>3, <1>4, <1>5, <1>6, <1>7 DEF ContextInv

LEMMA ContextWriteInterrupted ==
  ASSUME ContextInv, Context!WriteInterrupted
  PROVE  ContextInv'
<1>0. /\ ContextTypes /\ ContextFlags /\ DescriptorKept /\ MessagesKept
      /\ Ordered /\ Gapless /\ Outcome
  BY DEF ContextInv
<1>00. c.block \in BOOLEAN /\ c.limit \in BOOLEAN
  BY ContextAssumption, <1>0, SettingTypes DEF ContextTypes
<1> USE <1>0, <1>00, ContextAssumption, NoMessages
<1>1. ContextTypes'
  BY DEF Context!WriteInterrupted, Context!link, Context!counters, Context!seen,
         Context!Fails, Context!Writing, Context!Reading, ContextTypes
<1>2. ContextFlags'
  BY DEF Context!WriteInterrupted, Context!link, Context!counters, Context!seen,
         Context!Fails, Context!Writing, Context!Reading, ContextFlags, ContextTypes
<1>3. DescriptorKept'
  BY DEF Context!WriteInterrupted, Context!link, Context!counters, Context!seen,
         Context!Fails, Context!Writing, Context!Reading, DescriptorKept, ContextFlags,
         Context!Closed, Context!Socket
<1>4. MessagesKept'
  BY DEF Context!WriteInterrupted, Context!link, Context!counters, Context!seen,
         Context!Fails, Context!Writing, Context!Reading, MessagesKept
<1>5. Ordered'
  BY DEF Context!WriteInterrupted, Context!link, Context!counters, Context!seen,
         Context!Fails, Context!Writing, Context!Reading, Ordered, Back
<1>6. Gapless'
  BY DEF Context!WriteInterrupted, Context!link, Context!counters, Context!seen,
         Context!Fails, Context!Writing, Context!Reading, Gapless, All, Back, Whole,
         Context!Closed, Context!Socket, Outcome
<1>7. Outcome'
  BY DEF Context!WriteInterrupted, Context!link, Context!counters, Context!seen,
         Context!Fails, Context!Writing, Context!Reading, Outcome, Context!FailureHasError,
         Context!PushOutOfBand, Context!Closed, Context!Socket
<1> QED BY <1>1, <1>2, <1>3, <1>4, <1>5, <1>6, <1>7 DEF ContextInv

LEMMA ContextReadFails ==
  ASSUME ContextInv, Context!ReadFails
  PROVE  ContextInv'
<1>0. /\ ContextTypes /\ ContextFlags /\ DescriptorKept /\ MessagesKept
      /\ Ordered /\ Gapless /\ Outcome
  BY DEF ContextInv
<1>00. c.block \in BOOLEAN /\ c.limit \in BOOLEAN
  BY ContextAssumption, <1>0, SettingTypes DEF ContextTypes
<1> USE <1>0, <1>00, ContextAssumption, NoMessages
<1>1. ContextTypes'
  BY DEF Context!ReadFails, Context!link, Context!counters, Context!seen, Context!Fails,
         Context!Writing, Context!Reading, ContextTypes
<1>2. ContextFlags'
  BY DEF Context!ReadFails, Context!link, Context!counters, Context!seen, Context!Fails,
         Context!Writing, Context!Reading, ContextFlags, ContextTypes
<1>3. DescriptorKept'
  BY DEF Context!ReadFails, Context!link, Context!counters, Context!seen, Context!Fails,
         Context!Writing, Context!Reading, DescriptorKept, ContextFlags, Context!Closed,
         Context!Socket
<1>4. MessagesKept'
  BY DEF Context!ReadFails, Context!link, Context!counters, Context!seen, Context!Fails,
         Context!Writing, Context!Reading, MessagesKept
<1>5. Ordered'
  BY DEF Context!ReadFails, Context!link, Context!counters, Context!seen, Context!Fails,
         Context!Writing, Context!Reading, Ordered, Back
<1>6. Gapless'
  BY DEF Context!ReadFails, Context!link, Context!counters, Context!seen, Context!Fails,
         Context!Writing, Context!Reading, Gapless, All, Back, Whole, Context!Closed,
         Context!Socket, Outcome
<1>7. Outcome'
  BY DEF Context!ReadFails, Context!link, Context!counters, Context!seen, Context!Fails,
         Context!Writing, Context!Reading, Outcome, Context!FailureHasError,
         Context!PushOutOfBand, Context!Closed, Context!Socket
<1> QED BY <1>1, <1>2, <1>3, <1>4, <1>5, <1>6, <1>7 DEF ContextInv

LEMMA ContextBufferWrite ==
  ASSUME ContextInv, NEW k \in 0..MaxAsked + MaxPushes, Context!BufferWrite(k)
  PROVE  ContextInv'
<1>0. /\ ContextTypes /\ ContextFlags /\ DescriptorKept /\ MessagesKept
      /\ Ordered /\ Gapless /\ Outcome
  BY DEF ContextInv
<1>00. c.block \in BOOLEAN /\ c.limit \in BOOLEAN
  BY ContextAssumption, <1>0, SettingTypes DEF ContextTypes
<1> USE <1>0, <1>00, ContextAssumption, NoMessages
<1> DEFINE first == SubSeq(output, 1, k)
           left == SubSeq(output, k + 1, Len(output))
<1>a. /\ k \in 0..Len(output) /\ (k = 0 => output = <<>>)
           /\ (k > 0 => descriptor.link = "connected")
      /\ output' = left /\ outgoing' = (IF alive THEN outgoing \o first ELSE outgoing)
      /\ UNCHANGED <<given, input, incoming, asked, number, alive, descriptor>>
      /\ where \in {"write", "out"} /\ where' \in {"write", "out", "read"}
  BY DEF Context!BufferWrite, Context!Writing, Context!seen, Context!counters
<1>b. output \in Seq(Messages \ {0}) /\ outgoing \in Seq(Messages \ {0})
  BY DEF MessagesKept
<1>c. /\ first \in Seq(Messages \ {0}) /\ left \in Seq(Messages \ {0})
      /\ Context!Commands(output) = Context!Commands(first) \union Context!Commands(left)
      /\ Context!InOrder(output) => /\ Context!InOrder(first) /\ Context!InOrder(left)
                                    /\ Below(Context!Commands(first), Context!Commands(left))
  BY ONLY <1>a, <1>b, MessageSets, CutMessages
<1> HIDE DEF first, left
<1>d. /\ outgoing \o first \in Seq(Messages \ {0})
      /\ Context!Commands(outgoing \o first) = Context!Commands(outgoing)
           \union Context!Commands(first)
      /\ Context!InOrder(outgoing \o first) <=>
           /\ Context!InOrder(outgoing) /\ Context!InOrder(first)
           /\ Below(Context!Commands(outgoing), Context!Commands(first))
  BY ONLY <1>b, <1>c, MessageSets, JoinedMessages
<1>e. /\ Context!InOrder(output) /\ Context!InOrder(outgoing)
           /\ Below(Back, Context!Commands(outgoing))
      /\ Below(Back \union Context!Commands(outgoing), Context!Commands(output))
  BY DEF Ordered
<1>f. Context!InOrder(outgoing \o first)
  <2>1. Below(Context!Commands(outgoing), Context!Commands(first))
    BY ONLY <1>c, <1>e DEF Below
  <2> QED BY ONLY <1>c, <1>d, <1>e, <2>1
<1>g. Back' = Back
  BY ONLY <1>a DEF Back
<1>1. ContextTypes'
  BY DEF Context!BufferWrite, Context!link, Context!counters, Context!seen, Context!Fails,
         Context!Writing, Context!Reading, ContextTypes
<1>2. ContextFlags'
  BY DEF Context!BufferWrite, Context!link, Context!counters, Context!seen, Context!Fails,
         Context!Writing, Context!Reading, ContextFlags, ContextTypes
<1>3. DescriptorKept'
  BY DEF Context!BufferWrite, Context!link, Context!counters, Context!seen, Context!Fails,
         Context!Writing, Context!Reading, DescriptorKept, ContextFlags, Context!Closed,
         Context!Socket
<1>4. MessagesKept'
  BY ONLY <1>0, <1>a, <1>c, <1>d DEF MessagesKept
<1>5. Ordered'
  <2>1. Below(Back', Context!Commands(outgoing'))
    BY ONLY <1>a, <1>c, <1>d, <1>e, <1>g DEF Below
  <2>2. Below(Back' \union Context!Commands(outgoing'), Context!Commands(output'))
    BY ONLY <1>a, <1>c, <1>d, <1>e, <1>g DEF Below
  <2>3. Context!InOrder(output') /\ Context!InOrder(outgoing')
    BY ONLY <1>a, <1>c, <1>e, <1>f
  <2> QED BY ONLY <1>0, <1>a, <2>1, <2>2, <2>3 DEF Ordered
<1>6. Gapless'
  <2>1. All' \subseteq All
    BY ONLY <1>a, <1>c, <1>d, <1>g DEF All
  <2>2. Whole' => Whole
    BY ONLY <1>a DEF Whole
  <2>3. Whole' => All' = All
    <3>1. CASE alive
      BY ONLY <1>a, <1>c, <1>d, <1>g, <3>1 DEF All
    <3>2. CASE ~alive /\ k > 0
      BY ONLY <1>a, <3>2 DEF Whole
    <3>3. CASE ~alive /\ k = 0
      <4>1. Context!Commands(output) = {}
        BY ONLY <1>a, <3>3, NoMessages
      <4> QED BY ONLY <1>a, <1>c, <1>d, <1>g, <3>3, <4>1 DEF All
    <3>4. k = 0 \/ k > 0
      OBVIOUS
    <3> QED BY ONLY <3>1, <3>2, <3>3, <3>4
  <2> QED BY ONLY <1>0, <1>a, <1>g, <2>1, <2>2, <2>3 DEF Gapless
<1>7. Outcome'
  BY DEF Context!BufferWrite, Context!link, Context!counters, Context!seen, Context!Fails,
         Context!Writing, Context!Reading, Outcome, Context!FailureHasError,
         Context!PushOutOfBand, Context!Closed, Context!Socket
<1> QED BY <1>1, <1>2, <1>3, <1>4, <1>5, <1>6, <1>7 DEF ContextInv

LEMMA ContextBufferRead ==
  ASSUME ContextInv, NEW k \in 0..MaxAsked + MaxPushes, Context!BufferRead(k)
  PROVE  ContextInv'
<1>0. /\ ContextTypes /\ ContextFlags /\ DescriptorKept /\ MessagesKept
      /\ Ordered /\ Gapless /\ Outcome
  BY DEF ContextInv
<1>00. c.block \in BOOLEAN /\ c.limit \in BOOLEAN
  BY ContextAssumption, <1>0, SettingTypes DEF ContextTypes
<1> USE <1>0, <1>00, ContextAssumption, NoMessages
<1> DEFINE first == SubSeq(incoming, 1, k)
           all == input \o first
           rest == IF where = "read" THEN Context!Unhandled(all) ELSE all
<1>a. /\ k \in 0..Len(incoming) /\ incoming' = SubSeq(incoming, k + 1, Len(incoming))
      /\ UNCHANGED <<outgoing, output, asked, number, alive, descriptor>>
      /\ where \in {"read", "out"} /\ where' \in {"read", "out"}
      /\ \/ rest # <<>> /\ input' = Tail(rest) /\ given' = Append(given, Head(rest))
         \/ input' = rest /\ given' = given
  BY DEF Context!BufferRead, Context!Reading, Context!counters
<1>b. incoming \in Seq(Messages) /\ input \in Seq(Messages)
  BY DEF MessagesKept
<1>c. /\ first \in Seq(Messages) /\ incoming' \in Seq(Messages)
      /\ Context!Commands(incoming) = Context!Commands(first) \union Context!Commands(incoming')
      /\ Context!InOrder(incoming) => /\ Context!InOrder(first) /\ Context!InOrder(incoming')
                                      /\ Below(Context!Commands(first), Context!Commands(incoming'))
  BY ONLY <1>a, <1>b, MessageSets, CutMessages
<1> HIDE DEF first
<1>d. /\ all \in Seq(Messages)
           /\ Context!Commands(all) = Context!Commands(input) \union Context!Commands(first)
      /\ Context!InOrder(all) <=> /\ Context!InOrder(input) /\ Context!InOrder(first)
                                  /\ Below(Context!Commands(input), Context!Commands(first))
  BY ONLY <1>b, <1>c, MessageSets, JoinedMessages
<1> HIDE DEF all
<1>e. /\ Context!InOrder(given) /\ Context!InOrder(input) /\ Context!InOrder(incoming)
      /\ Below(Context!Commands(given), Context!Commands(input))
      /\ Below(Context!Commands(given) \union Context!Commands(input), Context!Commands(incoming))
  BY DEF Ordered
<1>f. Context!InOrder(all) /\ Below(Context!Commands(given), Context!Commands(all))
  BY ONLY <1>c, <1>d, <1>e DEF Below
<1>g. /\ rest \in Seq(Messages) /\ Context!Commands(rest) = Context!Commands(all)
           /\ Context!InOrder(rest)
      /\ where = "read" /\ push_cb /\ rest # <<>> => Head(rest) # 0
  <2>1. /\ Context!Unhandled(all) \in Seq(Messages)
        /\ Context!Commands(Context!Unhandled(all)) = Context!Commands(all)
        /\ Context!InOrder(Context!Unhandled(all))
        /\ push_cb /\ Context!Unhandled(all) # <<>> => Head(Context!Unhandled(all)) # 0
    BY ONLY <1>d, <1>f, MessageSets, UnhandledMessages
  <2> QED BY ONLY <1>d, <1>f, <2>1
<1> HIDE DEF rest
<1>h. /\ given' \in Seq(Messages) /\ input' \in Seq(Messages)
      /\ Context!InOrder(given') /\ Context!InOrder(input')
      /\ Below(Context!Commands(given'), Context!Commands(input'))
      /\ Context!Commands(given') \union Context!Commands(input') =
           Context!Commands(given) \union Context!Commands(rest)
  <2>1. CASE input' = rest /\ given' = given
    BY ONLY <1>0, <1>e, <1>f, <1>g, <2>1 DEF MessagesKept
  <2>2. CASE rest # <<>> /\ input' = Tail(rest) /\ given' = Append(given, Head(rest))
    <3>1. LET more == Append(given, Head(rest))
          IN /\ more \in Seq(Messages) /\ Tail(rest) \in Seq(Messages)
             /\ Context!InOrder(more) /\ Context!InOrder(Tail(rest))
             /\ Below(Context!Commands(more), Context!Commands(Tail(rest)))
             /\ Context!Commands(more) \union Context!Commands(Tail(rest)) =
                  Context!Commands(given) \union Context!Commands(rest)
      BY ONLY <1>0, <1>e, <1>f, <1>g, <2>2, TakeEffect
    <3> QED BY ONLY <2>2, <3>1
  <2> QED BY ONLY <1>a, <2>1, <2>2
<1>i. Back' = Back
  BY ONLY <1>c, <1>d, <1>g, <1>h DEF Back
<1>1. ContextTypes'
  BY DEF Context!BufferRead, Context!link, Context!counters, Context!seen, Context!Fails,
         Context!Writing, Context!Reading, ContextTypes
<1>2. ContextFlags'
  BY DEF Context!BufferRead, Context!link, Context!counters, Context!seen, Context!Fails,
         Context!Writing, Context!Reading, ContextFlags, ContextTypes
<1>3. DescriptorKept'
  BY DEF Context!BufferRead, Context!link, Context!counters, Context!seen, Context!Fails,
         Context!Writing, Context!Reading, DescriptorKept, ContextFlags, Context!Closed,
         Context!Socket
<1>4. MessagesKept'
  BY ONLY <1>0, <1>a, <1>c, <1>h DEF MessagesKept
<1>5. Ordered'
  <2>1. Below(Context!Commands(given') \union Context!Commands(input'), Context!Commands(incoming'))
    BY ONLY <1>c, <1>d, <1>e, <1>g, <1>h DEF Below
  <2> QED BY ONLY <1>0, <1>a, <1>c, <1>h, <1>i, <2>1 DEF Ordered
<1>6. Gapless'
  <2>1. All' = All
    BY ONLY <1>a, <1>i DEF All
  <2>2. Whole' => Whole
    BY ONLY <1>a DEF Whole
  <2> QED BY ONLY <1>0, <1>a, <1>i, <2>1, <2>2 DEF Gapless
<1>7. Outcome'
  <2>1. inband' # "read"
    <3>1. \/ inband' = inband
          \/ /\ where = "read" /\ rest # <<>>
             /\ inband' = IF push_cb /\ Head(rest) = 0 THEN "read" ELSE inband
      BY DEF Context!BufferRead, Context!PUSH, rest, all, first
    <3> QED BY ONLY <1>0, <1>g, <3>1 DEF Outcome, Context!PushOutOfBand
  <2>2. \/ lastResult' = "ok"
        \/ UNCHANGED <<lastResult, where>>
    BY DEF Context!BufferRead
  <2>3. UNCHANGED <<error, interrupted>>
    BY DEF Context!BufferRead
  <2> QED BY ONLY <1>0, <1>a, <2>1, <2>2, <2>3 DEF Outcome, Context!FailureHasError,
                 Context!PushOutOfBand
<1> QED BY <1>1, <1>2, <1>3, <1>4, <1>5, <1>6, <1>7 DEF ContextInv

LEMMA ContextEstablish ==
  ASSUME ContextInv, Context!Establish
  PROVE  ContextInv'
<1>0. /\ ContextTypes /\ ContextFlags /\ DescriptorKept /\ MessagesKept
      /\ Ordered /\ Gapless /\ Outcome
  BY DEF ContextInv
<1>00. c.block \in BOOLEAN /\ c.limit \in BOOLEAN
  BY ContextAssumption, <1>0, SettingTypes DEF ContextTypes
<1> USE <1>0, <1>00, ContextAssumption, NoMessages
<1>1. ContextTypes'
  BY DEF Context!Establish, Context!link, Context!counters, Context!seen,
         Context!ServerMoves, ContextTypes
<1>2. ContextFlags'
  BY DEF Context!Establish, Context!link, Context!counters, Context!seen,
         Context!ServerMoves, ContextFlags, ContextTypes
<1>3. DescriptorKept'
  BY DEF Context!Establish, Context!link, Context!counters, Context!seen,
         Context!ServerMoves, DescriptorKept, ContextFlags, Context!Closed, Context!Socket
<1>4. MessagesKept'
  BY DEF Context!Establish, Context!link, Context!counters, Context!seen,
         Context!ServerMoves, MessagesKept
<1>5. Ordered'
  BY DEF Context!Establish, Context!link, Context!counters, Context!seen,
         Context!ServerMoves, Ordered, Back
<1>6. Gapless'
  BY DEF Context!Establish, Context!link, Context!counters, Context!seen,
         Context!ServerMoves, Gapless, All, Back, Whole, Context!Closed, Context!Socket,
         Outcome
<1>7. Outcome'
  BY DEF Context!Establish, Context!link, Context!counters, Context!seen,
         Context!ServerMoves, Outcome, Context!FailureHasError, Context!PushOutOfBand,
         Context!Closed, Context!Socket
<1> QED BY <1>1, <1>2, <1>3, <1>4, <1>5, <1>6, <1>7 DEF ContextInv

LEMMA ContextServe ==
  ASSUME ContextInv, Context!Serve
  PROVE  ContextInv'
<1>0. /\ ContextTypes /\ ContextFlags /\ DescriptorKept /\ MessagesKept
      /\ Ordered /\ Gapless /\ Outcome
  BY DEF ContextInv
<1>00. c.block \in BOOLEAN /\ c.limit \in BOOLEAN
  BY ContextAssumption, <1>0, SettingTypes DEF ContextTypes
<1> USE <1>0, <1>00, ContextAssumption, NoMessages
<1>a. /\ alive /\ outgoing # <<>> /\ incoming' = Append(incoming, Head(outgoing))
      /\ outgoing' = Tail(outgoing)
      /\ UNCHANGED <<given, input, output, asked, number, alive, descriptor, where>>
  BY DEF Context!Serve, Context!ServerMoves, Context!seen
<1>b. incoming \in Seq(Messages) /\ outgoing \in Seq(Messages \ {0})
  BY DEF MessagesKept
<1>c. PICK m \in Messages \ {0} : m = Head(outgoing)
  BY ONLY <1>a, <1>b, MessageSets, FirstMessage
<1>d. /\ outgoing' \in Seq(Messages \ {0}) /\ m # 0 /\ m \in Messages
      /\ Context!Commands(outgoing) = {m} \union Context!Commands(outgoing')
      /\ Context!InOrder(outgoing) => /\ Context!InOrder(outgoing')
                                      /\ Below({m}, Context!Commands(outgoing'))
  <2>1. /\ Tail(outgoing) \in Seq(Messages \ {0})
        /\ Context!Commands(outgoing) = ({m} \ {0}) \union Context!Commands(Tail(outgoing))
        /\ Context!InOrder(outgoing) => /\ Context!InOrder(Tail(outgoing))
                                        /\ (m # 0 => Below({m}, Context!Commands(Tail(outgoing))))
    BY ONLY <1>a, <1>b, <1>c, MessageSets, FirstMessage
  <2>2. m # 0 /\ m \in Messages /\ {m} \ {0} = {m}
    OBVIOUS
  <2> QED BY ONLY <1>a, <2>1, <2>2
<1>e. /\ Context!InOrder(incoming) /\ Context!InOrder(outgoing)
           /\ Below(Back, Context!Commands(outgoing))
      /\ Below(Context!Commands(given) \union Context!Commands(input), Context!Commands(incoming))
      /\ Below(Back \union Context!Commands(outgoing), Context!Commands(output))
  BY DEF Ordered
<1>f. \A n \in Back : n < m
  BY ONLY <1>d, <1>e DEF Below
<1>g. /\ incoming' \in Seq(Messages)
      /\ Context!Commands(incoming') = Context!Commands(incoming) \union {m}
      /\ Context!InOrder(incoming')
  <2>1. \A n \in Context!Commands(incoming) : n < m
    BY ONLY <1>f DEF Back
  <2>2. /\ Append(incoming, m) \in Seq(Messages)
        /\ Context!Commands(Append(incoming, m)) = Context!Commands(incoming) \union ({m} \ {0})
        /\ Context!InOrder(Append(incoming, m))
    BY ONLY <1>b, <1>d, <1>e, <2>1, MessageSets, MoreMessages
  <2>3. {m} \ {0} = {m}
    BY ONLY <1>d
  <2> QED BY ONLY <1>a, <1>c, <2>2, <2>3
<1>h. Back' = Back \union {m}
  BY ONLY <1>a, <1>g DEF Back
<1>1. ContextTypes'
  BY DEF Context!Serve, Context!link, Context!counters, Context!seen, Context!ServerMoves,
         ContextTypes
<1>2. ContextFlags'
  BY DEF Context!Serve, Context!link, Context!counters, Context!seen, Context!ServerMoves,
         ContextFlags, ContextTypes
<1>3. DescriptorKept'
  BY DEF Context!Serve, Context!link, Context!counters, Context!seen, Context!ServerMoves,
         DescriptorKept, ContextFlags, Context!Closed, Context!Socket
<1>4. MessagesKept'
  BY ONLY <1>0, <1>a, <1>d, <1>g DEF MessagesKept
<1>5. Ordered'
  <2>1. Below(Context!Commands(given') \union Context!Commands(input'), Context!Commands(incoming'))
    BY ONLY <1>a, <1>e, <1>f, <1>g DEF Below, Back
  <2>2. Below(Back', Context!Commands(outgoing'))
    BY ONLY <1>d, <1>e, <1>h DEF Below
  <2>3. Below(Back' \union Context!Commands(outgoing'), Context!Commands(output'))
    BY ONLY <1>a, <1>d, <1>e, <1>h DEF Below
  <2> QED BY ONLY <1>0, <1>a, <1>d, <1>e, <1>g, <2>1, <2>2, <2>3 DEF Ordered
<1>6. Gapless'
  <2>1. All' = All
    BY ONLY <1>a, <1>d, <1>h DEF All
  <2>2. Whole' /\ Whole
    BY ONLY <1>a DEF Whole
  <2>3. ASSUME NEW n \in Context!Commands(asked), n < m PROVE n \in Back
    <3>1. n \in Nat /\ m \in Nat /\ Context!Commands(output) \subseteq Nat
          /\ Context!Commands(outgoing') \subseteq Nat
      BY <1>d, CommandBounds, MessageSets
    <3>2. \A j \in Context!Commands(outgoing') \union Context!Commands(output) : m < j
      BY ONLY <1>d, <1>e DEF Below
    <3>3. n \notin Context!Commands(outgoing') \union Context!Commands(output) \union {m}
      BY ONLY <2>3, <3>1, <3>2
    <3>4. n \in All
      BY <2>2 DEF Gapless
    <3> QED BY ONLY <1>d, <3>3, <3>4 DEF All
  <2>4. \A j \in Back', n \in Context!Commands(asked') : n < j => n \in Back'
    BY ONLY <1>0, <1>a, <1>h, <2>3 DEF Gapless
  <2> QED BY ONLY <1>0, <1>a, <1>d, <2>1, <2>2, <2>4 DEF Gapless
<1>7. Outcome'
  BY DEF Context!Serve, Context!link, Context!counters, Context!seen, Context!ServerMoves,
         Outcome, Context!FailureHasError, Context!PushOutOfBand, Context!Closed,
         Context!Socket
<1> QED BY <1>1, <1>2, <1>3, <1>4, <1>5, <1>6, <1>7 DEF ContextInv

LEMMA ContextPush ==
  ASSUME ContextInv, Context!Push
  PROVE  ContextInv'
<1>0. /\ ContextTypes /\ ContextFlags /\ DescriptorKept /\ MessagesKept
      /\ Ordered /\ Gapless /\ Outcome
  BY DEF ContextInv
<1>00. c.block \in BOOLEAN /\ c.limit \in BOOLEAN
  BY ContextAssumption, <1>0, SettingTypes DEF ContextTypes
<1> USE <1>0, <1>00, ContextAssumption, NoMessages
<1>a. /\ incoming' = Append(incoming, 0)
      /\ UNCHANGED <<given, input, outgoing, output, asked, number, alive, descriptor, where>>
  BY DEF Context!Push, Context!ServerMoves, Context!seen, Context!PUSH
<1>b. incoming \in Seq(Messages) /\ 0 \in Messages
  BY DEF MessagesKept, Messages
<1>c. /\ incoming' \in Seq(Messages) /\ Context!Commands(incoming') = Context!Commands(incoming)
      /\ Context!InOrder(incoming) => Context!InOrder(incoming')
  <2>1. /\ Append(incoming, 0) \in Seq(Messages)
        /\ Context!Commands(Append(incoming, 0)) = Context!Commands(incoming) \union ({0} \ {0})
        /\ Context!InOrder(incoming) => Context!InOrder(Append(incoming, 0))
    BY ONLY <1>b, MessageSets, MoreMessages
  <2> QED BY ONLY <1>a, <2>1
<1>d. Back' = Back
  BY ONLY <1>a, <1>c DEF Back
<1>1. ContextTypes'
  BY DEF Context!Push, Context!link, Context!counters, Context!seen, Context!ServerMoves,
         ContextTypes
<1>2. ContextFlags'
  BY DEF Context!Push, Context!link, Context!counters, Context!seen, Context!ServerMoves,
         ContextFlags, ContextTypes
<1>3. DescriptorKept'
  BY DEF Context!Push, Context!link, Context!counters, Context!seen, Context!ServerMoves,
         DescriptorKept, ContextFlags, Context!Closed, Context!Socket
<1>4. MessagesKept'
  BY ONLY <1>0, <1>a, <1>c DEF MessagesKept
<1>5. Ordered'
  BY ONLY <1>0, <1>a, <1>c, <1>d DEF Ordered
<1>6. Gapless'
  BY ONLY <1>0, <1>a, <1>c, <1>d DEF Gapless, All, Whole
<1>7. Outcome'
  BY DEF Context!Push, Context!link, Context!counters, Context!seen, Context!ServerMoves,
         Outcome, Context!FailureHasError, Context!PushOutOfBand, Context!Closed,
         Context!Socket
<1> QED BY <1>1, <1>2, <1>3, <1>4, <1>5, <1>6, <1>7 DEF ContextInv

LEMMA ContextClose ==
  ASSUME ContextInv, Context!Close
  PROVE  ContextInv'
<1>0. /\ ContextTypes /\ ContextFlags /\ DescriptorKept /\ MessagesKept
      /\ Ordered /\ Gapless /\ Outcome
  BY DEF ContextInv
<1>00. c.block \in BOOLEAN /\ c.limit \in BOOLEAN
  BY ContextAssumption, <1>0, SettingTypes DEF ContextTypes
<1> USE <1>0, <1>00, ContextAssumption, NoMessages
<1>1. ContextTypes'
  BY DEF Context!Close, Context!link, Context!counters, Context!seen, Context!ServerMoves,
         ContextTypes
<1>2. ContextFlags'
  BY DEF Context!Close, Context!link, Context!counters, Context!seen, Context!ServerMoves,
         ContextFlags, ContextTypes
<1>3. DescriptorKept'
  BY DEF Context!Close, Context!link, Context!counters, Context!seen, Context!ServerMoves,
         DescriptorKept, ContextFlags, Context!Closed, Context!Socket
<1>4. MessagesKept'
  BY DEF Context!Close, Context!link, Context!counters, Context!seen, Context!ServerMoves,
         MessagesKept
<1>5. Ordered'
  <2>1. outgoing' = <<>> /\ UNCHANGED <<given, input, incoming, output, asked, number>>
    BY DEF Context!Close, Context!ServerMoves, Context!seen
  <2>2. Below(Back, {}) /\ Below(Back \union {}, Context!Commands(output))
    BY DEF Ordered, Below
  <2> QED BY ONLY <1>0, <2>1, <2>2, NoMessages DEF Ordered, Back
<1>6. Gapless'
  BY DEF Context!Close, Context!link, Context!counters, Context!seen, Context!ServerMoves,
         Gapless, All, Back, Whole, Context!Closed, Context!Socket, Outcome
<1>7. Outcome'
  BY DEF Context!Close, Context!link, Context!counters, Context!seen, Context!ServerMoves,
         Outcome, Context!FailureHasError, Context!PushOutOfBand, Context!Closed,
         Context!Socket
<1> QED BY <1>1, <1>2, <1>3, <1>4, <1>5, <1>6, <1>7 DEF ContextInv

LEMMA ContextStep == ContextInv /\ Context!Next => ContextInv'
<1> SUFFICES ASSUME ContextInv, Context!Next PROVE ContextInv'
  OBVIOUS
<1>1. ASSUME NEW setting \in Settings, Context!Create(setting) PROVE ContextInv'
  BY <1>1, ContextCreate
<1>2. ASSUME NEW k \in 0..MaxAsked + MaxPushes, Context!BufferWrite(k) PROVE ContextInv'
  BY <1>2, ContextBufferWrite
<1>3. ASSUME NEW k \in 0..MaxAsked + MaxPushes, Context!BufferRead(k) PROVE ContextInv'
  BY <1>3, ContextBufferRead
<1>4. CASE Context!Library
  BY <1>2, <1>3, <1>4, ContextConnectTcp, ContextConnectUnix, ContextWaitReady,
     ContextEarlyReturn, ContextWriteFails, ContextWriteInterrupted, ContextReadFails
     DEF Context!Library
<1> QED BY <1>1, <1>4, ContextReconnect, ContextFree, ContextSetTimeout,
           ContextSetPushCallback,
          ContextAppendCommand, ContextGetReply, ContextCommand, ContextEstablish, ContextServe,
          ContextPush, ContextClose DEF Context!Next

LEMMA ContextFrame == ContextInv /\ UNCHANGED contextVars => ContextInv'
<1> SUFFICES ASSUME ContextInv, UNCHANGED contextVars PROVE ContextInv'
  OBVIOUS
<1>1. ContextTypes' /\ ContextFlags' /\ DescriptorKept' /\ MessagesKept'
  BY DEF ContextInv, contextVars, ContextTypes, ContextFlags, DescriptorKept, MessagesKept
<1>2. Ordered' /\ Gapless' /\ Outcome'
  BY DEF ContextInv, contextVars, Ordered, Gapless, Back, All, Whole, Outcome,
         Context!FailureHasError, Context!PushOutOfBand
<1> QED BY <1>1, <1>2 DEF ContextInv

LEMMA ContextSafe ==
  ContextInv => /\ Context!TypeOK /\ Context!RepliesInOrder /\ Context!PushOutOfBand
                /\ Context!FailureHasError
<1> SUFFICES ASSUME ContextInv
             PROVE  /\ Context!TypeOK /\ Context!RepliesInOrder /\ Context!PushOutOfBand
                    /\ Context!FailureHasError
  OBVIOUS
<1>0. /\ ContextTypes /\ ContextFlags /\ DescriptorKept /\ MessagesKept
      /\ Ordered /\ Gapless /\ Outcome
  BY DEF ContextInv
<1>1. Context!TypeOK
  <2>1. Context!Message = Messages /\ Context!Message \ {Context!PUSH} = Messages \ {0}
    BY DEF Context!Message, Messages, Context!PUSH
  <2>2. /\ {output, outgoing, asked} \subseteq Seq(Messages \ {0})
        /\ {input, incoming, given} \subseteq Seq(Messages)
    BY <1>0 DEF MessagesKept
  <2>3. {push_cb, alive, interrupted, wanted} \subseteq BOOLEAN
    BY <1>0 DEF ContextFlags
  <2> QED BY <1>0, <2>1, <2>2, <2>3 DEF Context!TypeOK, ContextTypes, DescriptorKept
<1>2. given \in Seq(Messages) /\ input \in Seq(Messages) /\ incoming \in Seq(Messages)
  BY <1>0 DEF MessagesKept
<1>3. outgoing \in Seq(Messages) /\ output \in Seq(Messages)
  <2>1. \A s \in Seq(Messages \ {0}) : s \in Seq(Messages)
    BY SeqDef, ElementOfSeq, LenProperties
  <2> QED BY <1>0, <2>1 DEF MessagesKept
<1>4. \A s, t \in Seq(Messages) :
        /\ s \o t \in Seq(Messages)
        /\ Context!Commands(s \o t) = Context!Commands(s) \union Context!Commands(t)
        /\ Context!InOrder(s \o t) <=> /\ Context!InOrder(s) /\ Context!InOrder(t)
                                      /\ Below(Context!Commands(s), Context!Commands(t))
  BY ONLY MessageSets, JoinedMessages
<1> DEFINE two == given \o input
           back == two \o incoming
           four == back \o outgoing
           five == four \o output
<1>5. /\ two \in Seq(Messages)
      /\ Context!Commands(two) = Context!Commands(given) \union Context!Commands(input)
      /\ Context!InOrder(two) <=> /\ Context!InOrder(given) /\ Context!InOrder(input)
                                  /\ Below(Context!Commands(given), Context!Commands(input))
  BY ONLY <1>2, <1>4
<1> HIDE DEF two
<1>6. /\ back \in Seq(Messages)
      /\ Context!Commands(back) = Context!Commands(two) \union Context!Commands(incoming)
      /\ Context!InOrder(back) <=> /\ Context!InOrder(two) /\ Context!InOrder(incoming)
                                   /\ Below(Context!Commands(two), Context!Commands(incoming))
  BY ONLY <1>2, <1>4, <1>5
<1> HIDE DEF back
<1>7. /\ four \in Seq(Messages)
      /\ Context!Commands(four) = Context!Commands(back) \union Context!Commands(outgoing)
      /\ Context!InOrder(four) <=> /\ Context!InOrder(back) /\ Context!InOrder(outgoing)
                                   /\ Below(Context!Commands(back), Context!Commands(outgoing))
  BY ONLY <1>3, <1>4, <1>6
<1> HIDE DEF four
<1>8. /\ Context!Commands(five) = Context!Commands(four) \union Context!Commands(output)
      /\ Context!InOrder(five) <=> /\ Context!InOrder(four) /\ Context!InOrder(output)
                                   /\ Below(Context!Commands(four), Context!Commands(output))
  BY ONLY <1>3, <1>4, <1>7
<1> HIDE DEF five
<1>9. Context!Commands(back) = Back /\ Context!InOrder(back)
  BY ONLY <1>0, <1>5, <1>6 DEF Ordered, Back
<1>10. Context!Commands(five) = All /\ Context!InOrder(five)
  BY ONLY <1>0, <1>7, <1>8, <1>9 DEF Ordered, All
<1>11. /\ Context!InOrder(back) /\ Context!Commands(back) \subseteq Context!Commands(asked)
       /\ \A m \in Context!Commands(back), n \in Context!Commands(asked) :
            n < m => n \in Context!Commands(back)
       /\ alive => Context!InOrder(five) /\ Context!Commands(five) = Context!Commands(asked)
  BY ONLY <1>0, <1>9, <1>10 DEF Gapless, All, Whole
<1>12. Context!RepliesInOrder
  BY <1>11 DEF Context!RepliesInOrder, five, four, back, two
<1> QED BY <1>0, <1>1, <1>12 DEF Outcome

-----------------------------------------------------------------------------
(* The types of the variables, with their bounds.                             *)

\* What LogInv leaves open.
LogTypes == /\ lines \in 0..MaxLines /\ running_ \in BOOLEAN
            /\ stopper \in {"running", "notify", "join", "stopped"}

LEMMA LogInitTypes == Log!Init => LogTypes
BY LogAssumption DEF Log!Init, LogTypes

LEMMA LogTypesStep == LogTypes /\ Log!Next => LogTypes'
<1> SUFFICES ASSUME LogTypes, Log!Next PROVE LogTypes'
  OBVIOUS
<1>1. lines' = lines \/ (lines' = lines + 1 /\ lines < MaxLines)
  BY DEF Log!Next, Log!Backend, Log!append, Log!Stop, Log!Check, Log!Lock, Log!Timeout,
         Log!Take, Log!Write, Log!front, Log!back
<1>2. running_' = running_ \/ running_' = FALSE
  BY DEF Log!Next, Log!Backend, Log!append, Log!Stop, Log!Check, Log!Lock, Log!Timeout,
         Log!Take, Log!Write
<1>3. stopper' \in {stopper, "notify", "join", "stopped"}
  BY DEF Log!Next, Log!Backend, Log!append, Log!Stop, Log!Check, Log!Lock, Log!Timeout,
         Log!Take, Log!Write
<1>4. lines' \in 0..MaxLines
  BY <1>1, LogAssumption DEF LogTypes
<1>5. running_' \in BOOLEAN
  BY <1>2 DEF LogTypes
<1>6. stopper' \in {"running", "notify", "join", "stopped"}
  BY <1>3 DEF LogTypes
<1> QED BY <1>4, <1>5, <1>6 DEF LogTypes

LEMMA LogTypesFrame == LogTypes /\ UNCHANGED logVars => LogTypes'
BY DEF LogTypes, logVars

\* A sequence of naturals that are all in a set.
LEMMA ItemsWithin ==
  ASSUME NEW s \in Seq(Nat), NEW S, \A i \in DOMAIN s : s[i] \in S
  PROVE  s \in Seq(S)
<1>1. DOMAIN s = 1..Len(s) /\ Len(s) \in Nat /\ s = [i \in 1..Len(s) |-> s[i]]
  BY LenProperties
<1>2. s \in [1..Len(s) -> S]
  BY <1>1
<1> QED BY <1>1, <1>2, SeqDef

\* The parts of a run that ends at b at the latest.
LEMMA RunWithin ==
  ASSUME NEW a \in Nat, NEW b \in Nat, NEW m \in Nat, a <= b, b <= m
  PROVE  Run(a, b) \in Seq(1..m)
<1>1. /\ Run(a, b) \in Seq(Nat) /\ DOMAIN Run(a, b) = 1 .. b - a
      /\ \A i \in 1 .. b - a : Run(a, b)[i] = a + i
  BY RunProperties
<1>2. \A i \in 1 .. b - a : a + i \in 1..m
  OBVIOUS
<1> QED BY ONLY <1>1, <1>2, ItemsWithin

LEMMA CutWithin ==
  ASSUME NEW s, NEW a, NEW b, NEW m \in Nat, Cut(s, a, b), b <= m
  PROVE  s \in Seq(Seq(1..m))
<1>1. PICK h : CutAt(s, a, b, h)
  BY DEF Cut
<1>2. /\ s \in Seq(Seq(Nat)) /\ a \in Nat /\ b \in Nat /\ h \in [0 .. Len(s) -> a .. b]
      /\ \A i \in 1 .. Len(s) : h[i - 1] <= h[i] /\ s[i] = Run(h[i - 1], h[i])
  BY <1>1 DEF CutAt
<1>3. DOMAIN s = 1..Len(s) /\ Len(s) \in Nat /\ s = [i \in 1..Len(s) |-> s[i]]
  BY <1>2, LenProperties
<1>4. ASSUME NEW i \in 1..Len(s) PROVE s[i] \in Seq(1..m)
  <2>1. i - 1 \in 0..Len(s) /\ i \in 0..Len(s)
    BY <1>3
  <2>2. h[i - 1] \in a..b /\ h[i] \in a..b
    BY <1>2, <2>1
  <2>3. h[i - 1] \in Nat /\ h[i] \in Nat /\ h[i] <= m
    BY <1>2, <2>2
  <2> QED BY <1>2, <2>3, RunWithin
<1>5. s \in [1..Len(s) -> Seq(1..m)]
  BY <1>3, <1>4
<1> QED BY <1>3, <1>5, SeqDef

LEMMA SeqWithin ==
  ASSUME NEW S, NEW T, S \subseteq T
  PROVE  \A s \in Seq(S) : s \in Seq(T)
<1> TAKE s \in Seq(S)
<1>1. DOMAIN s = 1..Len(s) /\ Len(s) \in Nat /\ s \in [1..Len(s) -> S]
  BY LenProperties
<1>2. s \in [1..Len(s) -> T]
  BY <1>1
<1> QED BY <1>1, <1>2, SeqDef

LEMMA LogTyped ==
  ASSUME LogInv, LogTypes
  PROVE  Log!TypeOK
<1>1. PICK u, v, w : LinesAt(u, v, w)
  BY DEF LogInv
<1>2. SparesOk
  BY DEF LogInv
<1>3. /\ FileAt(file, dropped, u) /\ Cut(buffersToWrite, u, v) /\ Cut(buffers_, v, w)
      /\ w <= lines /\ currentBuffer_ = Run(w, lines)
  BY <1>1 DEF LinesAt
<1>4. u \in Nat /\ v \in Nat /\ w \in Nat /\ u <= v /\ v <= w
  BY <1>3 DEF Cut, CutAt
<1>5. lines \in Nat /\ lines <= MaxLines /\ MaxLines \in Nat
  BY LogAssumption DEF LogTypes
<1>6. u <= MaxLines /\ v <= MaxLines /\ w <= MaxLines
  BY <1>3, <1>4, <1>5
<1>7. currentBuffer_ \in Seq(1..MaxLines)
  BY <1>3, <1>4, <1>5, RunWithin
<1>8. buffersToWrite \in Seq(Seq(1..MaxLines)) /\ buffers_ \in Seq(Seq(1..MaxLines))
  BY <1>3, <1>5, <1>6, CutWithin
<1>9. \A s \in Seq(Seq(1..MaxLines)) : s \in Seq(Log!Buffer)
  <2>1. Seq(1..MaxLines) \subseteq Log!Buffer
    BY DEF Log!Buffer
  <2> QED BY ONLY <2>1, SeqWithin
<1>10. {currentBuffer_, nextBuffer_, newBuffer1, newBuffer2} \subseteq Log!Buffer
  <2>1. <<>> \in Log!Buffer /\ <<0>> \in Log!Buffer
    BY EmptySeq DEF Log!Buffer, Log!NULL
  <2>2. /\ nextBuffer_ \in {<<>>, <<0>>} /\ newBuffer1 \in {<<>>, <<0>>}
        /\ newBuffer2 \in {<<>>, <<0>>}
    BY <1>2 DEF SparesOk
  <2>3. currentBuffer_ \in Log!Buffer
    BY <1>7 DEF Log!Buffer
  <2> QED BY ONLY <2>1, <2>2, <2>3
<1>11. file \in Seq(1..MaxLines) /\ dropped \subseteq 1..MaxLines
  <2>1. file \in Seq(Nat) /\ dropped \subseteq 1..u /\ Log!ToSet(file) = 1 .. u \ dropped
    BY <1>3 DEF FileAt
  <2>2. 1..u \subseteq 1..MaxLines
    BY <1>4, <1>5, <1>6
  <2>3. \A i \in DOMAIN file : file[i] \in 1..MaxLines
    BY <2>1, <2>2 DEF Log!ToSet
  <2> QED BY <2>1, <2>2, <2>3, ItemsWithin
<1>12. backend \in {"check", "lock", "wait", "take", "write", "ended"}
  BY <1>2 DEF SparesOk
<1> QED BY <1>8, <1>9, <1>10, <1>11, <1>12 DEF Log!TypeOK, LogTypes

\* The context on libevent.
LEMMA EventsTyped == EventsInv => Events!TypeOK
BY DEF EventsInv, EventsFlags, EventsQueues, Records, Events!TypeOK
=============================================================================
