-------------------------------- MODULE DBConn --------------------------------
(***************************************************************************)
(* One connection of the MySQL pool (CDBConn and CPrepareStatement of          *)
(* DBPool.cpp) as its users share it one after the other.  Every call first    *)
(* pings, which with MYSQL_OPT_RECONNECT reopens a connection that was lost,   *)
(* ignores the outcome, and sends its statement.                             *)
(*                                                                         *)
(* The client library and the server are external, and modelled from how the  *)
(* code uses them: a new session has no transaction; a library that believes  *)
(* to be in one refuses once to reopen, and forgets the transaction; a session *)
(* without a transaction commits every statement; DDL and "start transaction"  *)
(* commit what is pending.                                                  *)
(***************************************************************************)
EXTENDS Integers, FiniteSets

CONSTANTS
  Ops,          \* the calls that the users make
  MaxCalls,     \* bound on the calls
  MaxLost       \* bound on the lost connections

VARIABLES
  link,         \* "up" or "lost"
  inTrans,      \* m_mysql believes to be in a transaction
  session,      \* number of the session
  open,         \* the server has a transaction open in the session
  pending,      \* the updates of that transaction
  table,        \* the updates committed
  stmt,         \* the session in which m_stmt was prepared, 0 for none
  op, care,     \* the call, with the care_affected_rows of an update
  at,           \* its step: "out", "ping", "query" or "done"
  result,       \* what the call returns
  view,         \* the updates that ExecuteQuery saw
  calls,        \* number of the call, and of its update
  unit,         \* history: the user's transaction: whether it is open, the updates
                \* that returned true, and what has interfered with it
  promised,     \* history: updates that the user knows to be in the table
  revoked       \* history: updates that the user knows not to be

server == <<open, pending, table>>
user == <<op, care, calls>>
history == <<unit, promised, revoked>>
vars == <<link, inTrans, session, server, stmt, user, at, result, view, history>>

NoUnit == [open |-> FALSE, updates |-> {}, broken |-> {}]

Init == /\ link = "up" /\ inTrans = FALSE /\ session = 1
        /\ open = FALSE /\ pending = {} /\ table = {} /\ stmt = 0
        /\ op = "none" /\ care = FALSE /\ at = "out" /\ result = FALSE /\ view = {} /\ calls = 0
        /\ unit = NoUnit /\ promised = {} /\ revoked = {}

-----------------------------------------------------------------------------
Writes == {"update", "execute"}
Broken(cause) == [unit EXCEPT !.broken = @ \union {cause}]

\* Every call but ExecuteUpdate of a prepared statement begins with a ping.
Call(c, care_affected_rows) ==
           /\ at = "out" /\ calls < MaxCalls /\ (c = "execute" => stmt > 0)
           /\ op' = c /\ calls' = calls + 1
           /\ care' = (care_affected_rows /\ c = "update")
           /\ at' = (IF c = "execute" THEN "query" ELSE "ping")
           /\ UNCHANGED <<link, inTrans, session, server, stmt, result, view, history>>

\* The connection is lost, with the transaction of its session.
Lose == /\ link = "up" /\ session <= MaxLost
        /\ link' = "lost" /\ open' = FALSE /\ pending' = {}
        /\ unit' = IF unit.open THEN Broken("lost") ELSE unit
        /\ UNCHANGED <<inTrans, session, table, stmt, user, at, result, view, promised, revoked>>

PingAnswered == /\ at = "ping" /\ link = "up" /\ at' = "query"
                /\ UNCHANGED <<link, inTrans, session, server, stmt, user, result, view, history>>

\* mysql_ping or mysql_real_query finds the connection lost, and reopens it.
Reopen == /\ at \in {"ping", "query"} /\ link = "lost" /\ ~inTrans /\ op # "execute"
          /\ link' = "up" /\ session' = session + 1
          /\ UNCHANGED <<inTrans, server, stmt, user, at, result, view, history>>

\* It does not: within a transaction, which is forgotten, or for another error.  The
\* call goes on after a failed ping.
NotReopened == /\ at \in {"ping", "query"} /\ link = "lost"
               /\ at' = IF at = "ping" THEN "query" ELSE "done"
               /\ inTrans' = FALSE /\ result' = FALSE
               /\ UNCHANGED <<link, session, server, stmt, user, view, history>>

-----------------------------------------------------------------------------
\* What the statement of the call leaves in the database, if it affects rows.
Update == IF open THEN pending' = pending \union {calls} /\ UNCHANGED <<open, table>>
          ELSE table' = table \union {calls} /\ UNCHANGED <<open, pending>>
CommitFirst(begins) == table' = table \union pending /\ pending' = {} /\ open' = begins

Statement(affected) ==
  CASE op \in Writes -> IF affected THEN Update ELSE UNCHANGED server
    [] op = "start" -> CommitFirst(TRUE)
    [] op \in {"commit", "create", "drop"} -> CommitFirst(FALSE)
    [] op = "rollback" -> pending' = {} /\ open' = FALSE /\ UNCHANGED table
    [] OTHER -> UNCHANGED server

Prepared == op = "execute" => stmt = session

\* The statement runs and is answered.  An update that affects no row is a failure
\* when care_affected_rows, and always for a prepared statement; a user who does
\* not care is told that it succeeded.
Answered(affected) ==
  /\ at = "query" /\ link = "up" /\ Prepared /\ Statement(affected)
  /\ at' = "done" /\ inTrans' = open'
  /\ result' = (op \in Writes => affected \/ (op = "update" /\ ~care))
  /\ view' = IF op = "query" THEN table \union pending ELSE view
  /\ stmt' = IF op = "prepare" THEN session ELSE stmt
  /\ UNCHANGED <<link, session, user, history>>

\* The server rejects the statement, or the prepared statement is from an old session.
Rejected == /\ at = "query" /\ link = "up"
            /\ at' = "done" /\ result' = FALSE
            /\ UNCHANGED <<link, inTrans, session, server, stmt, user, view, history>>

\* It runs, and its answer is lost with the connection.
AnswerLost == /\ at = "query" /\ link = "up" /\ session <= MaxLost /\ Prepared
              /\ at' = "done" /\ result' = FALSE /\ link' = "lost"
              /\ open' = FALSE /\ pending' = {}
              /\ table' = IF op \in {"start", "commit", "create", "drop"} THEN table \union pending
                          ELSE IF op \in Writes /\ ~open THEN table \union {calls}
                          ELSE table
              /\ unit' = IF unit.open THEN Broken("lost") ELSE unit
              /\ UNCHANGED <<inTrans, session, stmt, user, view, promised, revoked>>

\* The call returns, and the user takes note; of an update for whose rows he does not
\* care he knows nothing.
Return ==
  /\ at = "done" /\ at' = "out" /\ view' = {}
  /\ LET done == result /\ op \in Writes /\ (op = "update" => care)
         sure == result /\ unit.open /\ unit.broken = {}
     IN /\ unit' = CASE op = "start" /\ result ->
                            [open |-> TRUE, updates |-> {},
                             broken |-> IF link = "up" THEN {} ELSE {"lost"}]
                     [] op \in {"commit", "rollback"} /\ result -> NoUnit
                     [] op \in {"create", "drop"} /\ unit.open -> Broken("ddl")
                     [] done /\ unit.open -> [unit EXCEPT !.updates = @ \union {calls}]
                     [] OTHER -> unit
        /\ promised' = promised \union
             (IF op = "commit" /\ sure THEN unit.updates
              ELSE IF done /\ ~unit.open /\ unit.broken = {} THEN {calls} ELSE {})
        /\ revoked' = IF op = "rollback" /\ sure THEN revoked \union unit.updates ELSE revoked
  /\ UNCHANGED <<link, inTrans, session, server, stmt, op, care, calls, result>>

\* RelDBConn, and GetDBConn by the next user, who knows nothing of a transaction.
ChangeUser ==
  /\ at = "out" /\ calls > 0 /\ calls < MaxCalls /\ op # "none"
  /\ op' = "none" /\ care' = FALSE /\ stmt' = 0
  /\ unit' = [NoUnit EXCEPT !.broken = IF unit.open \/ unit.broken # {} THEN {"inherited"} ELSE {}]
  /\ UNCHANGED <<link, inTrans, session, server, at, result, view, calls, promised, revoked>>

Next == \/ \E c \in Ops, care_affected_rows \in BOOLEAN : Call(c, care_affected_rows)
        \/ Lose \/ PingAnswered \/ Reopen \/ NotReopened
        \/ \E affected \in BOOLEAN : Answered(affected)
        \/ Rejected \/ AnswerLost \/ Return \/ ChangeUser

Spec == Init /\ [][Next]_vars

-----------------------------------------------------------------------------
TypeOK ==
  /\ link \in {"up", "lost"} /\ session \in 1..MaxLost + 1 /\ stmt \in 0..session
  /\ {inTrans, open, care, result, unit.open} \subseteq BOOLEAN
  /\ at \in {"out", "ping", "query", "done"} /\ op \in Ops \union {"none"}
  /\ pending \union table \union view \union unit.updates \subseteq 1..calls
  /\ (pending # {} => open) /\ calls \in 0..MaxCalls

\* What the calls have told their users is so, unless the connection was lost within
\* the transaction (its first updates are gone, the later ones are committed one by
\* one, and Commit returns true all the same), DDL has committed it half way, or
\* the last user left one open: committed updates are in the table, those rolled back
\* are not, those of an open transaction wait in it, a query sees them, and no
\* transaction is open that nobody began.
TransactionsKept ==
  /\ promised \subseteq table /\ revoked \intersect table = {}
  /\ unit.open /\ unit.broken = {} /\ at = "out" =>
       open /\ unit.updates \subseteq pending /\ unit.updates \intersect table = {}
  /\ at = "done" /\ op = "query" /\ result => promised \subseteq view
  /\ at = "done" /\ op = "query" /\ result /\ unit.open /\ unit.broken = {} =>
       unit.updates \subseteq view
  /\ at = "out" /\ open => unit.open \/ "inherited" \in unit.broken
=============================================================================
