-------------------------------- MODULE Storage --------------------------------
(***************************************************************************)
(* storage.c: the message store a program sees.  read_configuration picks  *)
(* a back end and fills the table of callbacks, init_storage initialises   *)
(* it, dlr_call (or the callbacks append and get_value) passes one request *)
(* to it.  A program may make a call that answered 0 again with the buffer *)
(* it has.                                                                 *)
(***************************************************************************)
EXTENDS StorageMemcached, StorageMysql

CONSTANT MaxCalls   \* how many calls the program makes: bounds the model

ASSUME MaxCallsAssumption == MaxCalls \in Nat

VARIABLES
  storage_type,   \* the back end, "unset" before read_configuration
  started,        \* init_storage has returned
  calls,          \* calls made so far
  request         \* the buffer the program holds

frame == <<storage_type, started, calls, request>>
vars == <<memcached, mysql, buffer, call, result, crashed, frame>>

Types == {"MYSQL_DB", "MEMCACHED", "CACHING"}

\* storage_cb: the callbacks init_callbacks fills in.
Callbacks == [MYSQL_DB  |-> {"initialize", "insert", "update", "delete", "select"},
              MEMCACHED |-> {"initialize", "insert", "append", "delete", "get"},
              CACHING   |-> {}]

Operations == {"insert", "update", "delete", "select", "append", "get"}

Init == /\ MemcachedInit
        /\ MysqlInit
        /\ buffer = "cut" /\ call = Idle /\ result = NoResult /\ crashed = FALSE
        /\ storage_type = "unset" /\ started = FALSE
        /\ calls = 0
        /\ request \in Requests

\* Without a configuration file the type is MYSQL_DB and db_server is NULL.
ReadConfiguration == /\ storage_type = "unset" /\ ~crashed
                     /\ \/ /\ storage_type' \in Types
                           /\ UNCHANGED <<buffer, call, result, crashed>>
                        \/ storage_type' = "MYSQL_DB" /\ Fault
                     /\ UNCHANGED <<memcached, mysql, started, calls, request>>

Configured == storage_type # "unset" /\ ~crashed

InitStorage == /\ Configured /\ ~started
               /\ CASE storage_type = "MYSQL_DB"  -> /\ InitMysql /\ started' = TRUE
                                                     /\ UNCHANGED <<rows, selected, memcached, buffer, call, result, crashed>>
                    [] storage_type = "MEMCACHED" -> /\ InitMemcached /\ started' = TRUE
                                                     /\ UNCHANGED <<servers, mysql, buffer, call, result, crashed>>
                    [] storage_type = "CACHING"   -> /\ Fault
                                                     /\ UNCHANGED <<started, memcached, mysql>>
               /\ UNCHANGED <<storage_type, calls, request>>

MayCall == started /\ ~crashed /\ call = Idle /\ calls < MaxCalls

\* The program writes a new request into its buffer.
Compose == /\ MayCall /\ buffer = "cut"
           /\ buffer' = "whole"
           /\ request' \in Requests
           /\ UNCHANGED <<memcached, mysql, call, result, crashed, storage_type, started, calls>>

\* The operation op of the back end on the request.
Dispatch(op) ==
  CASE storage_type = "MEMCACHED" /\ op = "insert" -> InsertStart(request) /\ UNCHANGED mysql
    [] storage_type = "MEMCACHED" /\ op = "append" -> AppendMemcached /\ UNCHANGED mysql
    [] storage_type = "MEMCACHED" /\ op = "delete" -> DeleteMemcached /\ UNCHANGED mysql
    [] storage_type = "MEMCACHED" /\ op = "get"    -> GetMemcached(request) /\ UNCHANGED mysql
    [] storage_type = "MYSQL_DB"  /\ op = "insert" -> InsertMysql(request) /\ UNCHANGED memcached
    [] storage_type = "MYSQL_DB"  /\ op = "update" -> UpdateMysql(request) /\ UNCHANGED memcached
    [] storage_type = "MYSQL_DB"  /\ op = "delete" -> DeleteMysql(request) /\ UNCHANGED memcached
    [] storage_type = "MYSQL_DB"  /\ op = "select" -> SelectMysql(request) /\ UNCHANGED memcached

Offered(op) == op \in Callbacks[storage_type]
Connected == storage_type = "MYSQL_DB" => handle # "null"
MayRetry == buffer = "cut" /\ calls > 0 /\ result.ret = 0

\* dlr_call, or a call through append or get_value.
DlrCall(op) == /\ MayCall
               /\ Readable \/ MayRetry
               /\ calls' = calls + 1
               /\ IF Readable /\ Offered(op) /\ Connected
                    THEN Dispatch(op)
                    ELSE Fault /\ UNCHANGED <<memcached, mysql>>
               /\ UNCHANGED <<storage_type, started, request>>

Running == ~crashed /\ MemcachedStep /\ UNCHANGED <<mysql, frame>>

Evict == ServerLoses /\ UNCHANGED <<mysql, frame>>

Next == \/ ReadConfiguration
        \/ InitStorage
        \/ Compose
        \/ \E op \in Operations : DlrCall(op)
        \/ Running
        \/ Evict

Spec == Init /\ [][Next]_vars

-------------------------------------------------------------------------------
TypeOK ==
  /\ servers \in [Tables -> [Keys -> Seq(Values)]]
  /\ reachable \subseteq Tables
  /\ rows \in [Tables -> SUBSET Rows]
  /\ handle \in {"null", "ready", "pending"}
  /\ buffer \in {"whole", "cut"}
  /\ call.op \in {"none", "insert"}
  /\ result.ret \in {0, 1}
  /\ crashed \in BOOLEAN /\ started \in BOOLEAN
  /\ storage_type \in Types \cup {"unset"}
  /\ calls \in 0 .. MaxCalls
  /\ request \in Requests

(***************************************************************************)
(* Seen from outside, an insert of several parts is one write: the store   *)
(* keeps the old value until the insert returns.                           *)
(***************************************************************************)
KV == INSTANCE KeyValueStore WITH
        Writes <- {p.values : p \in Requests},
        content <- IF Inserting /\ call.sent > 0
                     THEN [servers EXCEPT ![Table][Key] = call.before]
                     ELSE servers,
        reply <- IF storage_type = "MEMCACHED" THEN result ELSE NoResult

(***************************************************************************)
(* The memcached back end is a message store, whatever round trips fail    *)
(* and whatever the servers lose: an insert that answers 1 left the whole  *)
(* value, one that answers 0 a value that is not a mixture, and only       *)
(* inserts change what is stored (appends and removals never do).          *)
(***************************************************************************)
ImplementsStore == KV!Spec

\* The columns of table t that no update of it lists first.
LateColumns(t) ==
  Columns \ {Head(p.names) : p \in {q \in Requests : q.table = t /\ Len(q.names) > 1}}

(***************************************************************************)
(* An update reaches the first column it lists and no other, however many  *)
(* a program makes and in whatever order: in the columns that are always   *)
(* listed later, or alone, a row is what one single insert made of it, and *)
(* never brings together the values of two requests.                       *)
(***************************************************************************)
RowsAreNotMixed ==
  \A t \in Tables : \A r \in rows[t] :
    \E p \in Requests : /\ p.table = t
                       /\ \A c \in LateColumns(t) : r[c] = RowOf(p)[c]

(***************************************************************************)
(* Once a SELECT was executed no later call of the program changes any     *)
(* table, although every one of them returns as before.                    *)
(***************************************************************************)
SelectFreezesTables == [][selected => rows' = rows]_vars
===============================================================================
