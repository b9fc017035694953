------------------------------ MODULE SingleWheel ------------------------------
(***************************************************************************)
(* The single-level wheel of single_tw.c that kills silent connections.  A    *)
(* heartbeat increments conn->used and puts a timer node EXPIRE + delay       *)
(* seconds ahead; check_conn, once per second, releases the nodes of the      *)
(* current slot and kills the connections whose count returns to 0.  used is  *)
(* a uint8_t.  Slots are bags (a count per connection), since the nodes of    *)
(* one slot are all released together.  Only tick's low bits are read.        *)
(*                                                                         *)
(* The arrays of timer and connection nodes, whose allocators never wrap      *)
(* around, are not modelled.                                                 *)
(***************************************************************************)
EXTENDS Naturals, FiniteSetsExt

CONSTANTS
  Conns,
  TW_SIZE, EXPIRE,
  UsedSize,        \* 256, the values of a uint8_t
  MaxBeats         \* bound: timer nodes in the wheel

VARIABLES
  tick, tw, used,
  killed,          \* connections the last check_conn killed
  due              \* history: due[r][c] heartbeats of c expire in r more ticks

vars == <<tick, tw, used, killed, due>>

Slots == 0..(TW_SIZE - 1)

\* Delays the wheel can tell from a delay of an earlier slot.
Delays == 0..(TW_SIZE - 1 - EXPIRE)

InWheel == MapThenSumSet(LAMBDA s : MapThenSumSet(LAMBDA c : tw[s][c], Conns), Slots)

Init == /\ tick = 0
        /\ tw = [s \in Slots |-> [c \in Conns |-> 0]]
        /\ used = [c \in Conns |-> 0]
        /\ killed = {}
        /\ due = [s \in Slots |-> [c \in Conns |-> 0]]

\* Mutant: the slot is computed from EXPIRE - 1.
AddConnEarly(c, delay) ==
  /\ InWheel < MaxBeats
  /\ tw' = [tw EXCEPT ![(tick + EXPIRE - 1 + delay) % TW_SIZE][c] = @ + 1]
  /\ used' = [used EXCEPT ![c] = (@ + 1) % UsedSize]
  /\ due' = [due EXCEPT ![EXPIRE + delay][c] = @ + 1]
  /\ UNCHANGED <<tick, killed>>

\* add_conn: a heartbeat of c.
AddConn(c, delay) ==
  /\ InWheel < MaxBeats
  /\ tw' = [tw EXCEPT ![(tick + EXPIRE + delay) % TW_SIZE][c] = @ + 1]
  /\ used' = [used EXCEPT ![c] = (@ + 1) % UsedSize]
  /\ due' = [due EXCEPT ![EXPIRE + delay][c] = @ + 1]
  /\ UNCHANGED <<tick, killed>>

\* check_conn: every node of the slot decrements its connection's count.
CheckConn ==
  LET list == tw[tick % TW_SIZE]
  IN /\ tick' = (tick + 1) % TW_SIZE
     /\ used' = [c \in Conns |-> (used[c] + UsedSize - (list[c] % UsedSize)) % UsedSize]
     /\ killed' = {c \in Conns : \E k \in 1..list[c] : k % UsedSize = used[c]}
     /\ tw' = [tw EXCEPT ![tick % TW_SIZE] = [c \in Conns |-> 0]]
     /\ due' = [r \in Slots |-> IF r = TW_SIZE - 1 THEN [c \in Conns |-> 0] ELSE due[r + 1]]

Next == (\E c \in Conns, delay \in Delays : AddConn(c, delay)) \/ CheckConn

Spec == Init /\ [][Next]_vars

-----------------------------------------------------------------------------
TypeOK == /\ tick \in Slots
          /\ tw \in [Slots -> [Conns -> 0..MaxBeats]]
          /\ due \in [Slots -> [Conns -> 0..MaxBeats]]
          /\ used \in [Conns -> 0..(UsedSize - 1)]
          /\ killed \subseteq Conns

Pending(c) == MapThenSumSet(LAMBDA r : due[r][c], Slots)

\* A connection is killed exactly at the second its last heartbeat expires,
\* never while a younger heartbeat is alive and never later, provided fewer
\* than 256 of its heartbeats are alive (a uint8_t counts them).
KilledWhenSilent ==
  [][tick' # tick =>
       \A c \in Conns : Pending(c) < UsedSize =>
         (c \in killed' <=> due[0][c] > 0 /\ Pending(c) = due[0][c])]_vars
=============================================================================
