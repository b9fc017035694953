------------------------------ MODULE DBStatements ------------------------------
(***************************************************************************)
(* Prepared statements and result sets of the MySQL pool (CPrepareStatement and   *)
(* CResultSet of DBPool.cpp), as the two test programs use them on the same table:  *)
(* test_curd.cpp, which inserts, queries, updates and queries again, and            *)
(* test_dbpool.cpp, whose tasks insert concurrently (IMUser.cpp), each on its own    *)
(* connection.  Both begin by dropping and creating the table.                     *)
(*                                                                         *)
(* Any statement may fail.  A row has Params columns: an integer, a string and the    *)
(* phone number; the 16 of the code are of these three kinds.                     *)
(***************************************************************************)
EXTENDS Naturals, Sequences

CONSTANTS
  Tasks,         \* the tasks of test_dbpool
  Inserts        \* insertions of test_curd

Curd == "curd"
Pool == "pool"
Clients == {Curd, Pool} \union Tasks
Params == 3
Phone == 3
Garbage == <<"garbage">>
Unset == <<"unset">>
NoStatement == [open |-> FALSE, bind |-> <<>>, set |-> 0, id |-> 0]
NoResult == [open |-> FALSE, rows |-> <<>>, row |-> 0]

VARIABLES
  exists, version, rows, \* the table IMUser: how often it was created, and the rows of the ids
  at,            \* where each client is
  stmt,          \* its CPrepareStatement: m_param_bind, how many were set, its last id
  result,        \* the CResultSet of test_curd: the rows stored, and the number of m_row
  IMUser_nId,    \* of test_curd
  number,        \* the insertions begun by each client; the rounds of queries for "round"
  round,
  ret,           \* what the client's last call returned
  seen,          \* history: the row that queryUser has printed last
  mine           \* history: <<version, id, values>> of test_curd's last insertion

table == <<exists, version, rows>>
program == <<at, stmt, result, IMUser_nId, number, round, ret, seen, mine>>
vars == <<table, program>>

Init == /\ exists = FALSE /\ version = 0 /\ rows = <<>>
        /\ at = [c \in Clients |-> IF c \in Tasks THEN "wait" ELSE "drop"]
        /\ stmt = [c \in Clients |-> NoStatement] /\ result = NoResult
        /\ IMUser_nId = 0 /\ number = [c \in Clients |-> 0] /\ round = 1
        /\ ret = [c \in Clients |-> TRUE] /\ seen = <<>> /\ mine = <<>>

Goes(c, from, to) == at[c] = from /\ at' = [at EXCEPT ![c] = to]
Returns(c, value) == ret' = [ret EXCEPT ![c] = value]

-----------------------------------------------------------------------------
\* CDBConn::ExecuteDrop, of a table that need not exist; nobody looks at the answer.
Drop(c, works) ==
  /\ Goes(c, "drop", "create")
  /\ IF works THEN exists' = FALSE /\ rows' = <<>> ELSE UNCHANGED <<exists, rows>>
  /\ UNCHANGED <<version, stmt, result, IMUser_nId, number, round, ret, seen, mine>>

\* CDBConn::ExecuteCreate, which fails if the table exists: test_dbpool gives up,
\* with the connection; test_curd goes on, from testConnect to testCurd.
Create(c, works) ==
  /\ at[c] = "create" /\ (works => ~exists)
  /\ at' = [at EXCEPT ![c] = CASE c = Curd -> IF round = 1 THEN "drop" ELSE "insert"
                               [] c = Pool -> IF works THEN "run" ELSE "leave"]
  /\ IF works THEN exists' = TRUE /\ version' = version + 1 ELSE UNCHANGED <<exists, version>>
  /\ round' = (IF c = Curd /\ round = 1 THEN 2 ELSE round)
  /\ Returns(c, works)
  /\ UNCHANGED <<rows, stmt, result, IMUser_nId, number, seen, mine>>

\* The thread pool of test_dbpool takes a task.
RunTask(t) == /\ at[Pool] = "run" /\ Goes(t, "wait", "insert")
              /\ UNCHANGED <<table, stmt, result, IMUser_nId, number, round, ret, seen, mine>>

-----------------------------------------------------------------------------
\* insertUser: CPrepareStatement::Init, which allocates m_param_bind.
Prepare(c, works) ==
  /\ Goes(c, "insert", IF works THEN "set" ELSE "close") /\ (works => exists)
  /\ number' = [number EXCEPT ![c] = @ + 1]
  /\ stmt' = [stmt EXCEPT ![c] = [NoStatement EXCEPT !.open = TRUE,
                                    !.bind = [p \in 1..Params |-> Unset]]]
  /\ Returns(c, FALSE)
  /\ UNCHANGED <<table, result, IMUser_nId, round, seen, mine>>

\* The value of a variable of the client, and what the memory of its string holds when
\* the statement runs: that of the temporary string which a task passes may be in use
\* for other things by then.
Variable(c, p) == <<c, number[c], p>>
Held(c, p) == IF c \in Tasks /\ p = Phone THEN {Variable(c, p), Garbage} ELSE {Variable(c, p)}

\* CPrepareStatement::SetParam: the address of the variable.
SetParam(c) ==
  /\ Goes(c, "set", "set") /\ stmt[c].set < Params
  /\ LET index == stmt[c].set + 1
     IN stmt' = [stmt EXCEPT ![c].bind[index] = <<"at", index>>, ![c].set = index]
  /\ UNCHANGED <<table, result, IMUser_nId, number, round, ret, seen, mine>>

\* CPrepareStatement::ExecuteUpdate: the row has what is at the addresses.
Execute(c, phone, works) ==
  /\ Goes(c, "set", IF works THEN "id" ELSE "close") /\ stmt[c].set = Params /\ (works => exists)
  /\ phone \in Held(c, Phone)
  /\ Returns(c, works)
  /\ LET Value(b) == IF b = Unset THEN Unset ELSE IF b[2] = Phone THEN phone ELSE Variable(c, b[2])
         values == [p \in 1..Params |-> Value(stmt[c].bind[p])]
     IN IF works
        THEN /\ rows' = Append(rows, [values |-> values, updated |-> FALSE])
             /\ stmt' = [stmt EXCEPT ![c].id = Len(rows) + 1]
             /\ mine' = IF c = Curd THEN <<version, Len(rows) + 1, number[c]>> ELSE mine
        ELSE UNCHANGED <<rows, stmt, mine>>
  /\ UNCHANGED <<exists, version, result, IMUser_nId, number, round, seen>>

\* CPrepareStatement::GetInsertId; the tasks make no use of it.
GetInsertId(c) == /\ Goes(c, "id", "close")
                  /\ IMUser_nId' = IF c = Curd THEN stmt[c].id ELSE IMUser_nId
                  /\ UNCHANGED <<table, stmt, result, number, round, ret, seen, mine>>

\* The end of insertUser.  That of the tasks returns true in any case.
Close(c) ==
  /\ Goes(c, "close", IF c = Curd THEN IF number[c] < Inserts THEN "insert" ELSE "query"
                      ELSE "leave")
  /\ stmt' = [stmt EXCEPT ![c] = NoStatement]
  /\ Returns(c, IF c \in Tasks THEN TRUE ELSE ret[c])
  /\ UNCHANGED <<table, result, IMUser_nId, number, round, seen, mine>>

-----------------------------------------------------------------------------
Found == IF IMUser_nId \in DOMAIN rows THEN <<rows[IMUser_nId]>> ELSE <<>>

\* queryUser: CDBConn::ExecuteQuery stores the whole result, with no row as the current.
Query(works) ==
  /\ Goes(Curd, "query", IF works THEN "next" ELSE IF round = 2 THEN "update" ELSE "leave")
  /\ works => exists
  /\ result' = IF works THEN [open |-> TRUE, rows |-> Found, row |-> 0] ELSE result
  /\ seen' = <<>> /\ Returns(Curd, FALSE)
  /\ UNCHANGED <<table, stmt, IMUser_nId, number, round, mine>>

\* CResultSet::Next
NextRow ==
  /\ Goes(Curd, "next", IF result.row < Len(result.rows) THEN "read" ELSE "free")
  /\ result' = [result EXCEPT !.row = @ + 1]
  /\ UNCHANGED <<table, stmt, IMUser_nId, number, round, ret, seen, mine>>

\* GetInt and GetString of m_row, which is NULL after the last row.
Read == /\ Goes(Curd, "read", "free")
        /\ seen' = <<result.rows[result.row]>> /\ Returns(Curd, TRUE)
        /\ UNCHANGED <<table, stmt, result, IMUser_nId, number, round, mine>>

FreeResult == /\ Goes(Curd, "free", IF round = 2 THEN "update" ELSE "leave")
              /\ result' = NoResult
              /\ UNCHANGED <<table, stmt, IMUser_nId, number, round, ret, seen, mine>>

\* updateUser: the row with that id, whosever it is.
Update(works) ==
  /\ Goes(Curd, "update", "query") /\ round' = 3
  /\ works => exists
  /\ IF works /\ IMUser_nId \in DOMAIN rows
     THEN rows' = [rows EXCEPT ![IMUser_nId].updated = TRUE] /\ Returns(Curd, TRUE)
     ELSE UNCHANGED rows /\ Returns(Curd, FALSE)
  /\ UNCHANGED <<exists, version, stmt, result, IMUser_nId, number, seen, mine>>

Next == \/ \E c \in Clients, works \in BOOLEAN : \/ Drop(c, works) \/ Create(c, works)
                                                \/ Prepare(c, works)
                                                \/ \E phone \in Held(c, Phone) :
                                                     Execute(c, phone, works)
        \/ \E c \in Clients : SetParam(c) \/ GetInsertId(c) \/ Close(c)
        \/ \E t \in Tasks : RunTask(t)
        \/ \E works \in BOOLEAN : Query(works) \/ Update(works)
        \/ NextRow \/ Read \/ FreeResult

Spec == Init /\ [][Next]_vars

-----------------------------------------------------------------------------
TypeOK ==
  /\ exists \in BOOLEAN /\ version \in 0..3 /\ ret \in [Clients -> BOOLEAN]
  /\ at \in [Clients -> {"wait", "drop", "create", "run", "insert", "set", "id", "close",
                         "query", "next", "read", "free", "update", "leave"}]
  /\ (rows # <<>> => exists) /\ IMUser_nId \in Nat
  /\ round \in 1..3 /\ Len(result.rows) <= 1

\* Every row that a statement has stored has the value of each variable in the column of
\* that variable; but for the phone number that a task passes as a temporary string.
RowsAsMeant ==
  \A id \in DOMAIN rows : \E c \in Clients : \E n \in 1..number[c] :
    \A p \in 1..Params : \/ rows[id].values[p] = <<c, n, p>>
                         \/ c \in Tasks /\ p = Phone

\* While the table is that of its last insertion, what test_curd queries and updates is
\* the row of that insertion, whatever the tasks insert in between; an update changes
\* no other row.  (Another program may create the table anew, and the old id is then
\* that of a stranger.)
QueriesOwnRow ==
  /\ mine # <<>> /\ version = mine[1] /\ exists /\ at[Curd] # "id" =>
       /\ IMUser_nId = mine[2] /\ rows[IMUser_nId].values[1] = <<Curd, mine[3], 1>>
       /\ seen # <<>> => seen[1].values = rows[IMUser_nId].values
  /\ \A id \in DOMAIN rows : rows[id].updated => id = IMUser_nId
  /\ at[Curd] = "read" => result.row \in DOMAIN result.rows

\* Statements and results are freed: neither outlives the call that made it, and at most
\* one of the two is open.
ResultsFreed ==
  /\ \A c \in Clients : stmt[c].open = (at[c] \in {"set", "id", "close"})
  /\ result.open = (at[Curd] \in {"next", "read", "free"})
=============================================================================
