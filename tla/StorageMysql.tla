------------------------------ MODULE StorageMysql ------------------------------
(***************************************************************************)
(* storage_mysql.c: one statement per call on a connection that no call    *)
(* looks after.  A table is the set of its rows.                           *)
(***************************************************************************)
EXTENDS StorageParams

CONSTANTS Columns, Values, IdColumn, Null

ASSUME MysqlAssumption ==
  /\ IdColumn \in Columns
  /\ Null \notin Values
  /\ \A p \in Requests : /\ p.names \in Seq(Columns)
                         /\ p.values \in Seq(Values)
                         /\ p.key \in Values

VARIABLES
  rows,      \* rows[t]: the rows of table t
  handle,    \* msqlHandle: "null", "ready" or "pending", a result unread
  selected   \* history: a SELECT was executed

mysql == <<rows, handle, selected>>

Rows == [Columns -> Values \cup {Null}]

MysqlInit == /\ rows = [t \in Tables |-> {}]
             /\ handle = "null"
             /\ selected = FALSE

InitMysql == handle' \in {"null", "ready"}

(***************************************************************************)
(* mysql_real_query, whose outcome no call looks at: the statement is      *)
(* executed when it is sound, the connection is in step and the server     *)
(* agrees; otherwise nothing happens.  What the call answers says nothing. *)
(***************************************************************************)
Query(op, p, sound, table, answers) ==
  /\ Parse
  /\ handle # "null"
  /\ \/ /\ handle = "ready" /\ p.table \in Tables /\ sound
        /\ rows' = [rows EXCEPT ![p.table] = table]
     \/ UNCHANGED rows
  /\ \E ret \in answers : Returns(op, ret, <<>>)
  /\ UNCHANGED <<call, crashed, handle, selected>>

RowOf(p) ==
  [c \in Columns |->
     IF \E i \in DOMAIN p.names : p.names[i] = c
       THEN p.values[CHOOSE i \in DOMAIN p.names : p.names[i] = c]
       ELSE Null]

\* Both lists run over the names: with too few values a "#" is in the statement.
\* The function ends without a return.
InsertMysql(p) == Query("insert", p, Len(p.values) >= Len(p.names),
                        rows[p.table] \cup {RowOf(p)}, {0, 1})

Matching(p) == {r \in rows[p.table] : r[IdColumn] = p.key}

\* A mutant: the list of assignments ends at the "#".
UpdateMysqlWhole(p) ==
  Query("update", p, Len(p.values) >= Len(p.names),
        (rows[p.table] \ Matching(p))
          \cup {[c \in Columns |-> IF RowOf(p)[c] = Null THEN r[c] ELSE RowOf(p)[c]]
                 : r \in Matching(p)}, {0})

(***************************************************************************)
(* The test that ends the list of assignments is inverted: it stops after  *)
(* the first column when there are more, and runs into the "#" when there  *)
(* are none, which makes the statement unsound.                            *)
(***************************************************************************)
UpdateMysql(p) ==
  Query("update", p, Len(p.names) > 1,
        (rows[p.table] \ Matching(p))
          \cup {[r EXCEPT ![Head(p.names)] = Head(p.values)] : r \in Matching(p)}, {0})

DeleteMysql(p) == Query("delete", p, TRUE, rows[p.table] \ Matching(p), {0})

\* A mutant: the result set is fetched.
SelectMysqlFetches(p) == /\ Parse
                         /\ handle = "ready" /\ p.table \in Tables
                         /\ selected' = TRUE
                         /\ Returns("select", 0, <<>>)
                         /\ UNCHANGED <<call, crashed, rows, handle>>

\* The result set of a SELECT is never fetched: the connection is out of step.
SelectMysql(p) == /\ Parse
                  /\ handle # "null"
                  /\ \/ /\ handle = "ready" /\ p.table \in Tables
                        /\ handle' = "pending" /\ selected' = TRUE
                     \/ UNCHANGED <<handle, selected>>
                  /\ Returns("select", 0, <<>>)
                  /\ UNCHANGED <<call, crashed, rows>>
===============================================================================
