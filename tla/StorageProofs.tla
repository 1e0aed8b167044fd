----------------------------- MODULE StorageProofs -----------------------------
(***************************************************************************)
(* Theorems about Storage: types, what becomes of the rows of the MySQL    *)
(* tables, and what a memcached back end implements.                       *)
(***************************************************************************)
EXTENDS Storage, SequenceTheorems, TLAPS

\* An insert in progress, before the round trip of its next part.
InsertCalls == [op : {"insert"}, params : Requests, sent : Nat, before : Seq(Values)]

(***************************************************************************)
(* What the parts sent so far left: the first ones of the value, or        *)
(* nothing, when the server has lost them.  An insert that has sent a part *)
(* has a table.                                                            *)
(***************************************************************************)
InsertOK ==
  \/ call = Idle
  \/ /\ call \in InsertCalls
     /\ storage_type = "MEMCACHED"
     /\ call.sent < Len(call.params.values)
     /\ call.sent > 0 =>
          /\ call.params.table \in Tables
          /\ servers[call.params.table][call.params.key]
               \in {<<>>, SubSeq(call.params.values, 1, call.sent)}

\* Nothing has happened before the store is configured and initialised.
StartOK == /\ ~started => call = Idle /\ result = NoResult /\ buffer = "cut" /\ ~selected
           /\ storage_type = "unset" => ~started
           /\ started => storage_type \in {"MYSQL_DB", "MEMCACHED"}

SelectOK == selected => handle = "pending"

\* The inductive invariant.
IInv == TypeOK /\ InsertOK /\ StartOK /\ SelectOK

USE DEF Inserting, Table, Key, Parts, Idle, NoResult, Returns, Readable, Parse,
        memcached, mysql, frame, vars, MAIN_SERVER, HLR_SERVER, DLR_SERVER

\* What a request is made of.
LEMMA RequestFacts ==
  ASSUME NEW p \in Requests
  PROVE  /\ p.values \in Seq(Values) /\ Len(p.values) \in Nat \ {0}
         /\ p.names \in Seq(Columns) /\ Len(p.names) \in Nat \ {0}
         /\ p.key \in Keys /\ p.key \in Values /\ p.table \in Nat
  BY RequestsAssumption, MysqlAssumption DEF Keys

\* The parts of a value that were sent, and the next one.
LEMMA Prefixes ==
  ASSUME NEW v \in Seq(Values), Len(v) > 0
  PROVE  /\ SubSeq(v, 1, 0) = <<>>
         /\ SubSeq(v, 1, Len(v)) = v
         /\ <<Head(v)>> = SubSeq(v, 1, 1)
         /\ \A n \in 1 .. Len(v) - 1 :
              /\ SubSeq(v, 1, n) # <<>>
              /\ Append(SubSeq(v, 1, n), v[n + 1]) = SubSeq(v, 1, n + 1)
         /\ \A n \in 0 .. Len(v) : SubSeq(v, 1, n) \in Seq(Values)
<1>1. SubSeq(v, 1, 0) = <<>> /\ SubSeq(v, 1, Len(v)) = v
  OBVIOUS
<1>2. <<Head(v)>> = SubSeq(v, 1, 1)
  OBVIOUS
<1>3. ASSUME NEW n \in 1 .. Len(v) - 1
      PROVE  /\ SubSeq(v, 1, n) # <<>>
             /\ Append(SubSeq(v, 1, n), v[n + 1]) = SubSeq(v, 1, n + 1)
  OBVIOUS
<1>4. ASSUME NEW n \in 0 .. Len(v)
      PROVE  SubSeq(v, 1, n) \in Seq(Values)
  OBVIOUS
<1>5. QED
  BY <1>1, <1>2, <1>3, <1>4

\* At the start nothing is configured, stored or under way.
LEMMA InitInductive == Init => IInv
<1> SUFFICES ASSUME Init PROVE IInv
  OBVIOUS
<1>1. servers \in [Tables -> [Keys -> Seq(Values)]]
  BY EmptySeq DEF Init, MemcachedInit
<1>2. rows \in [Tables -> SUBSET Rows]
  BY DEF Init, MysqlInit
<1>3. TypeOK
  <2>1. /\ reachable = {} /\ handle = "null" /\ buffer = "cut" /\ call = Idle
        /\ result = NoResult /\ crashed = FALSE /\ storage_type = "unset" /\ started = FALSE
        /\ calls = 0 /\ request \in Requests
    BY DEF Init, MemcachedInit, MysqlInit
  <2>2. calls \in 0 .. MaxCalls
    BY <2>1, MaxCallsAssumption
  <2>3. QED
    BY <1>1, <1>2, <2>1, <2>2 DEF TypeOK
<1>4. InsertOK /\ StartOK /\ SelectOK
  BY DEF Init, MysqlInit, InsertOK, StartOK, SelectOK
<1>5. QED
  BY <1>3, <1>4 DEF IInv

\* read_configuration reads the type of the back end, or follows a NULL.
LEMMA ReadConfigurationInductive ==
  ASSUME IInv, ReadConfiguration
  PROVE  IInv'
  BY DEF IInv, TypeOK, InsertOK, StartOK, SelectOK, ReadConfiguration, Fault, Types

\* init_storage opens the back end that was configured.
LEMMA InitStorageInductive ==
  ASSUME IInv, InitStorage
  PROVE  IInv'
<1>1. ~selected /\ call = Idle /\ ~started /\ storage_type # "unset"
  BY DEF IInv, StartOK, InitStorage, Configured
<1>2. CASE storage_type = "MYSQL_DB"
  BY <1>1, <1>2 DEF IInv, TypeOK, InsertOK, StartOK, SelectOK, InitStorage, InitMysql
<1>3. CASE storage_type = "MEMCACHED"
  BY <1>1, <1>3 DEF IInv, TypeOK, InsertOK, StartOK, SelectOK, InitStorage, InitMemcached, Tables
<1>4. CASE storage_type = "CACHING"
  BY <1>1, <1>4 DEF IInv, TypeOK, InsertOK, StartOK, SelectOK, InitStorage, Fault
<1>5. QED
  BY <1>1, <1>2, <1>3, <1>4 DEF IInv, TypeOK, Types

\* The caller fills a new buffer.
LEMMA ComposeInductive ==
  ASSUME IInv, Compose
  PROVE  IInv'
  BY DEF IInv, TypeOK, InsertOK, StartOK, SelectOK, Compose, MayCall

\* A row that an insert or an update makes is a row.
LEMMA RowsMade ==
  ASSUME NEW p \in Requests
  PROVE  /\ Len(p.values) >= Len(p.names) => RowOf(p) \in Rows
         /\ \A r \in Rows : [r EXCEPT ![Head(p.names)] = Head(p.values)] \in Rows
<1>1. ASSUME Len(p.values) >= Len(p.names) PROVE RowOf(p) \in Rows
  <2>1. ASSUME NEW c \in Columns
        PROVE  RowOf(p)[c] \in Values \cup {Null}
    <3>1. CASE \E i \in DOMAIN p.names : p.names[i] = c
      <4>1. PICK i \in DOMAIN p.names : i = CHOOSE j \in DOMAIN p.names : p.names[j] = c
        BY <3>1
      <4>2. i \in 1 .. Len(p.values)
        BY <1>1, RequestFacts
      <4>3. p.values[i] \in Values
        BY <4>2, RequestFacts
      <4>4. QED
        BY <3>1, <4>1, <4>3 DEF RowOf
    <3>2. QED
      BY <3>1 DEF RowOf
  <2>2. QED
    BY <2>1 DEF RowOf, Rows
<1>2. Head(p.values) \in Values
  BY RequestFacts
<1>3. QED
  BY <1>1, <1>2 DEF Rows

\* The operation a call leads to.
LEMMA DispatchMeans ==
  ASSUME NEW op \in Operations, Dispatch(op), Offered(op)
  PROVE  /\ storage_type = "MEMCACHED" =>
              /\ UNCHANGED mysql
              /\ \/ op = "insert" /\ InsertStart(request)
                 \/ op = "append" /\ AppendMemcached
                 \/ op = "delete" /\ DeleteMemcached
                 \/ op = "get" /\ GetMemcached(request)
         /\ storage_type = "MYSQL_DB" =>
              /\ UNCHANGED memcached
              /\ \/ op = "insert" /\ InsertMysql(request)
                 \/ op = "update" /\ UpdateMysql(request)
                 \/ op = "delete" /\ DeleteMysql(request)
                 \/ op = "select" /\ SelectMysql(request)
<1>1. storage_type = "MEMCACHED" => op \in {"insert", "append", "delete", "get"}
  BY DEF Operations, Offered, Callbacks
<1>2. storage_type = "MYSQL_DB" => op \in {"insert", "update", "delete", "select"}
  BY DEF Operations, Offered, Callbacks
<1>3. QED
  BY <1>1, <1>2, Zenon DEF Dispatch

\* The callbacks of both back ends, up to the first round trip.
LEMMA DispatchInductive ==
  ASSUME IInv, NEW op \in Operations, MayCall, Offered(op), Dispatch(op),
         calls' = calls + 1, UNCHANGED <<storage_type, started, request>>
  PROVE  IInv'
<1> USE MaxCallsAssumption
<1>1. /\ call = Idle /\ started /\ calls' \in 0 .. MaxCalls /\ request \in Requests
      /\ storage_type \in {"MYSQL_DB", "MEMCACHED"}
  BY DEF IInv, TypeOK, StartOK, MayCall
<1>2. CASE storage_type = "MEMCACHED"
  <2>1. CASE InsertStart(request) /\ UNCHANGED mysql
    <3>1. call' \in InsertCalls /\ call'.sent = 0 /\ call'.params = request
      BY <1>1, <2>1, EmptySeq DEF InsertStart, InsertCalls
    <3>2. Len(request.values) > 0
      BY <1>1, RequestFacts
    <3>3. QED
      BY <1>1, <1>2, <2>1, <3>1, <3>2
      DEF IInv, TypeOK, InsertOK, StartOK, SelectOK, InsertStart, InsertCalls
  <2>2. ASSUME NEW quick \in {"append", "delete", "get"}, NEW ret \in {0, 1}, NEW value,
               Quick(quick, ret, value), UNCHANGED mysql
        PROVE  IInv'
    BY <1>1, <1>2, <2>2 DEF IInv, TypeOK, InsertOK, StartOK, SelectOK, Quick
  <2>3. QED
    BY <1>2, <2>1, <2>2, DispatchMeans DEF GetMemcached, AppendMemcached, DeleteMemcached
<1>3. CASE storage_type = "MYSQL_DB"
  <2>1. ASSUME rows' \in [Tables -> SUBSET Rows], buffer' = "cut", result'.ret \in {0, 1},
               UNCHANGED <<memcached, call, crashed, handle, selected>>
        PROVE  IInv'
    BY <1>1, <1>3, <2>1 DEF IInv, TypeOK, InsertOK, StartOK, SelectOK
  <2>2. CASE InsertMysql(request) /\ UNCHANGED memcached
    <3>1. Len(request.values) >= Len(request.names) => RowOf(request) \in Rows
      BY <1>1, RowsMade
    <3>2. rows' \in [Tables -> SUBSET Rows]
      BY <2>2, <3>1 DEF InsertMysql, Query, IInv, TypeOK
    <3>3. QED
      BY <2>1, <2>2, <3>2 DEF InsertMysql, Query
  <2>3. CASE UpdateMysql(request) /\ UNCHANGED memcached
    <3>1. \A r \in Rows : [r EXCEPT ![Head(request.names)] = Head(request.values)] \in Rows
      BY <1>1, RowsMade
    <3>2. rows' \in [Tables -> SUBSET Rows]
      BY <2>3, <3>1 DEF UpdateMysql, Query, Matching, IInv, TypeOK
    <3>3. QED
      BY <2>1, <2>3, <3>2 DEF UpdateMysql, Query
  <2>4. CASE DeleteMysql(request) /\ UNCHANGED memcached
    <3>1. rows' \in [Tables -> SUBSET Rows]
      BY <2>4 DEF DeleteMysql, Query, IInv, TypeOK
    <3>2. QED
      BY <2>1, <2>4, <3>1 DEF DeleteMysql, Query
  <2>5. CASE SelectMysql(request) /\ UNCHANGED memcached
    BY <1>1, <1>3, <2>5
    DEF IInv, TypeOK, InsertOK, StartOK, SelectOK, SelectMysql
  <2>6. QED
    BY <1>3, <2>2, <2>3, <2>4, <2>5, DispatchMeans
<1>4. QED
  BY <1>1, <1>2, <1>3

\* dlr_call, with the servers it chooses.
LEMMA DlrCallInductive ==
  ASSUME IInv, NEW op \in Operations, DlrCall(op)
  PROVE  IInv'
<1>1. CASE Readable /\ Offered(op) /\ Connected
  BY <1>1, DispatchInductive DEF DlrCall
<1>2. CASE ~(Readable /\ Offered(op) /\ Connected)
  <2>1. Fault /\ UNCHANGED <<memcached, mysql, storage_type, started, request>>
    BY <1>2 DEF DlrCall
  <2>2. calls' \in 0 .. MaxCalls /\ started
    BY MaxCallsAssumption DEF DlrCall, MayCall, IInv, TypeOK
  <2>3. QED
    BY <2>1, <2>2 DEF Fault, IInv, TypeOK, InsertOK, StartOK, SelectOK
<1>3. QED
  BY <1>1, <1>2

\* What a round trip that reached the server leaves there.
LEMMA StoreFacts ==
  ASSUME IInv, Inserting, Table \in Tables, Accepts, Store
  PROVE  /\ call \in InsertCalls
         /\ servers' = [servers EXCEPT ![Table][Key] = SubSeq(Parts, 1, call.sent + 1)]
         /\ servers' \in [Tables -> [Keys -> Seq(Values)]]
         /\ servers'[Table][Key] = SubSeq(Parts, 1, call.sent + 1)
<1>1. /\ call \in InsertCalls /\ call.params \in Requests
      /\ call.sent \in 0 .. Len(Parts) - 1
      /\ servers \in [Tables -> [Keys -> Seq(Values)]]
  BY RequestFacts DEF IInv, InsertOK, InsertCalls, TypeOK
<1>2. /\ Parts \in Seq(Values) /\ Len(Parts) \in Nat \ {0} /\ Key \in Keys
  BY <1>1, RequestFacts
<1>3. SubSeq(Parts, 1, call.sent + 1) \in Seq(Values)
  BY <1>1, <1>2, Prefixes
<1>4. servers' = [servers EXCEPT ![Table][Key] = SubSeq(Parts, 1, call.sent + 1)]
  <2>1. CASE call.sent = 0
    <3>1. servers' = [servers EXCEPT ![Table][Key] = <<Head(Parts)>>]
      BY <2>1 DEF Store
    <3>2. <<Head(Parts)>> = SubSeq(Parts, 1, call.sent + 1)
      BY <1>2, <2>1, Prefixes
    <3>3. QED
      BY <3>1, <3>2
  <2>2. CASE call.sent # 0
    <3>1. servers[Table][Key] = SubSeq(Parts, 1, call.sent)
      BY <1>1, <2>2 DEF Accepts, IInv, InsertOK
    <3>2. Append(servers[Table][Key], Parts[call.sent + 1]) = SubSeq(Parts, 1, call.sent + 1)
      BY <1>1, <1>2, <2>2, <3>1, Prefixes
    <3>3. QED
      BY <1>1, <1>2, <2>2, <3>2 DEF Store
  <2>3. QED
    BY <2>1, <2>2
<1>5. QED
  BY <1>1, <1>2, <1>3, <1>4

\* The rest of a call: a round trip, or the end.
LEMMA RunningInductive ==
  ASSUME IInv, Running
  PROVE  IInv'
<1>1. /\ Inserting /\ call \in InsertCalls /\ call.params \in Requests
      /\ call.sent \in Nat /\ call.sent < Len(Parts) /\ Len(Parts) \in Nat
      /\ storage_type = "MEMCACHED" /\ started
      /\ UNCHANGED <<rows, handle, selected, storage_type, started, calls, request, buffer,
                     crashed, reachable>>
  BY RequestFacts
  DEF Running, MemcachedStep, PartStored, PartUnconfirmed, PartRefused, InsertNowhere, Return,
      IInv, InsertOK, InsertCalls, StartOK
<1>2. ASSUME NEW ret \in {0, 1}, Return(ret), servers' \in [Tables -> [Keys -> Seq(Values)]]
      PROVE  IInv'
  BY <1>1, <1>2 DEF IInv, TypeOK, InsertOK, StartOK, SelectOK, Return
<1>3. CASE PartStored
  <2>1. CASE call.sent + 1 = Len(Parts)
    BY <1>2, <1>3, <2>1, StoreFacts DEF PartStored
  <2>2. CASE call.sent + 1 # Len(Parts)
    <3>1. /\ call' \in InsertCalls /\ call'.sent = call.sent + 1 /\ call'.params = call.params
          /\ UNCHANGED result
      <4>1. Key \in Keys /\ servers[Table][Key] \in Seq(Values)
        BY <1>1, <1>3, RequestFacts DEF PartStored, IInv, TypeOK
      <4>2. /\ call' = [call EXCEPT !.sent = call.sent + 1,
                                   !.before = IF call.sent = 0 THEN servers[Table][Key]
                                              ELSE call.before]
            /\ UNCHANGED result
        BY <1>3, <2>2 DEF PartStored
      <4>3. /\ call.op = "insert" /\ call.before \in Seq(Values)
            /\ call = [op |-> call.op, params |-> call.params, sent |-> call.sent,
                       before |-> call.before]
        BY <1>1 DEF InsertCalls
      <4>4. call' = [op |-> "insert", params |-> call.params, sent |-> call.sent + 1,
                     before |-> IF call.sent = 0 THEN servers[Table][Key] ELSE call.before]
        BY <4>2, <4>3
      <4> DEFINE before == IF call.sent = 0 THEN servers[Table][Key] ELSE call.before
      <4>5. before \in Seq(Values)
        BY <4>1, <4>3
      <4>6. call' = [op |-> "insert", params |-> call.params, sent |-> call.sent + 1,
                     before |-> before]
        BY <4>4
      <4> HIDE DEF before
      <4>7. QED
        BY <1>1, <4>2, <4>5, <4>6 DEF InsertCalls
    <3>2. call'.sent < Len(call'.params.values)
      BY <1>1, <2>2, <3>1
    <3>3. /\ call'.params.table \in Tables
          /\ servers'[call'.params.table][call'.params.key]
               = SubSeq(call'.params.values, 1, call'.sent)
          /\ servers' \in [Tables -> [Keys -> Seq(Values)]]
      BY <1>1, <1>3, <3>1, StoreFacts DEF PartStored
    <3>4. QED
      BY <1>1, <3>1, <3>2, <3>3 DEF IInv, TypeOK, InsertOK, StartOK, SelectOK, InsertCalls
  <2>3. QED
    BY <2>1, <2>2
<1>4. CASE PartUnconfirmed
  BY <1>2, <1>4, StoreFacts DEF PartUnconfirmed
<1>5. CASE PartRefused
  BY <1>2, <1>5 DEF PartRefused, IInv, TypeOK
<1>6. CASE InsertNowhere
  BY <1>2, <1>6 DEF InsertNowhere, IInv, TypeOK
<1>7. QED
  BY <1>3, <1>4, <1>5, <1>6 DEF Running, MemcachedStep

\* A server that loses a value has no part of it.
LEMMA EvictInductive ==
  ASSUME IInv, Evict
  PROVE  IInv'
<1>1. PICK t \in Tables, k \in Keys : servers' = [servers EXCEPT ![t][k] = <<>>]
  BY DEF Evict, ServerLoses, IInv, TypeOK
<1>2. UNCHANGED <<rows, handle, selected, storage_type, started, calls, request, buffer,
                  call, result, crashed, reachable>>
  BY DEF Evict, ServerLoses
<1>3. servers' \in [Tables -> [Keys -> Seq(Values)]]
  BY <1>1, EmptySeq DEF IInv, TypeOK
<1>4. InsertOK'
  <2>1. CASE call = Idle
    BY <1>2, <2>1 DEF InsertOK
  <2>2. CASE call # Idle
    <3>1. call.params.key \in Keys
      BY <2>2, RequestFacts DEF IInv, InsertOK, InsertCalls
    <3>2. QED
      BY <1>1, <1>2, <2>2, <3>1 DEF IInv, TypeOK, InsertOK
  <2>3. QED
    BY <2>1, <2>2
<1>5. QED
  BY <1>2, <1>3, <1>4 DEF IInv, TypeOK, StartOK, SelectOK

\* The invariant is inductive.
LEMMA StepInductive == IInv /\ [Next]_vars => IInv'
<1> SUFFICES ASSUME IInv, [Next]_vars PROVE IInv'
  OBVIOUS
<1>1. CASE Next
  BY <1>1, ReadConfigurationInductive, InitStorageInductive, ComposeInductive,
     DlrCallInductive, RunningInductive, EvictInductive DEF Next
<1>2. CASE UNCHANGED vars
  BY <1>2 DEF IInv, TypeOK, InsertOK, StartOK, SelectOK
<1>3. QED
  BY <1>1, <1>2

\* The inductive invariant holds for any requests and servers.
LEMMA Invariant == Spec => []IInv
  BY InitInductive, StepInductive, PTL DEF Spec

(***************************************************************************)
(* Every variable keeps its type, for any requests and any number of       *)
(* calls, round trips that fail and values that servers lose.              *)
(***************************************************************************)
THEOREM TypeCorrect == Spec => []TypeOK
<1>1. IInv => TypeOK
  BY DEF IInv
<1>2. QED
  BY <1>1, Invariant, PTL

(***************************************************************************)
(* Once a SELECT was executed no table of the MySQL back end ever changes: *)
(* its result is never fetched and every statement behind it fails.        *)
(***************************************************************************)
THEOREM SelectIsTheLast == Spec => SelectFreezesTables
<1>1. IInv /\ [Next]_vars => [selected => rows' = rows]_vars
  <2> SUFFICES ASSUME IInv, Next, selected PROVE rows' = rows
    OBVIOUS
  <2>1. handle = "pending"
    BY DEF IInv, SelectOK
  <2>2. CASE \E op \in Operations : DlrCall(op)
    <3>1. PICK op \in Operations : DlrCall(op)
      BY <2>2
    <3>2. CASE Readable /\ Offered(op) /\ Connected
      <4>1. Dispatch(op)
        BY <3>1, <3>2 DEF DlrCall
      <4>2. storage_type \in {"MEMCACHED", "MYSQL_DB"}
        BY <3>1 DEF DlrCall, MayCall, IInv, StartOK
      <4>3. QED
        BY <2>1, <3>2, <4>1, <4>2, DispatchMeans
        DEF InsertMysql, UpdateMysql, DeleteMysql, SelectMysql, Query
    <3>3. CASE ~(Readable /\ Offered(op) /\ Connected)
      BY <3>1, <3>3 DEF DlrCall
    <3>4. QED
      BY <3>2, <3>3
  <2>3. CASE InitStorage
    BY <2>3 DEF InitStorage, IInv, StartOK
  <2>4. QED
    BY <2>2, <2>3 DEF Next, ReadConfiguration, Compose, Running, Evict
<1>2. QED
  BY <1>1, Invariant, PTL DEF Spec, SelectFreezesTables

\* A row like one insert of table t in the columns no update lists first.
OneInsert(t, r) == \E p \in Requests : /\ p.table = t
                                       /\ \A c \in LateColumns(t) : r[c] = RowOf(p)[c]

\* A call leaves rows that one insert made, if it found only such rows.
LEMMA CallKeepsRows ==
  ASSUME IInv, RowsAreNotMixed, NEW op \in Operations, DlrCall(op)
  PROVE  RowsAreNotMixed'
<1>1. rows \in [Tables -> SUBSET Rows] /\ request \in Requests
  BY DEF IInv, TypeOK
<1>2. ASSUME NEW t \in Tables, NEW r \in rows[t] PROVE OneInsert(t, r)
  BY DEF RowsAreNotMixed, OneInsert
<1>3. CASE UNCHANGED rows
  BY <1>3 DEF RowsAreNotMixed
<1>4. ASSUME NEW table, request.table \in Tables, rows' = [rows EXCEPT ![request.table] = table],
             \A r \in table : OneInsert(request.table, r)
      PROVE  RowsAreNotMixed'
  <2>1. ASSUME NEW t \in Tables, NEW r \in rows'[t] PROVE OneInsert(t, r)
    <3>1. CASE t = request.table
      BY <1>1, <1>4, <2>1, <3>1
    <3>2. CASE t # request.table
      BY <1>1, <1>2, <1>4, <2>1, <3>2
    <3>3. QED
      BY <3>1, <3>2
  <2>2. QED
    BY <2>1 DEF RowsAreNotMixed, OneInsert
<1>5. CASE InsertMysql(request)
  <2>1. OneInsert(request.table, RowOf(request))
    BY <1>1 DEF OneInsert
  <2>2. ASSUME request.table \in Tables, NEW r \in rows[request.table] \cup {RowOf(request)}
        PROVE  OneInsert(request.table, r)
    BY <1>2, <2>1, <2>2
  <2>3. QED
    BY <1>3, <1>4, <1>5, <2>2 DEF InsertMysql, Query
<1>6. CASE UpdateMysql(request)
  <2> DEFINE made == {[old EXCEPT ![Head(request.names)] = Head(request.values)]
                        : old \in Matching(request)}
             table == (rows[request.table] \ Matching(request)) \cup made
  <2>1. ASSUME request.table \in Tables, Len(request.names) > 1, NEW r \in table
        PROVE  OneInsert(request.table, r)
    <3>1. CASE r \in rows[request.table]
      BY <1>2, <2>1, <3>1
    <3>2. CASE r \in made
      <4>1. PICK old \in Matching(request) :
                r = [old EXCEPT ![Head(request.names)] = Head(request.values)]
        BY <3>2
      <4>2. old \in rows[request.table] /\ old \in Rows
        BY <1>1, <2>1, <4>1 DEF Matching
      <4>3. PICK p \in Requests : /\ p.table = request.table
                                  /\ \A c \in LateColumns(request.table) : old[c] = RowOf(p)[c]
        BY <1>2, <2>1, <4>2 DEF OneInsert
      <4>4. ASSUME NEW c \in LateColumns(request.table)
            PROVE  c \in Columns /\ c # Head(request.names)
        BY <1>1, <2>1 DEF LateColumns
      <4>5. ASSUME NEW c \in LateColumns(request.table) PROVE r[c] = old[c]
        BY <4>1, <4>2, <4>4 DEF Rows
      <4>6. QED
        BY <4>3, <4>5 DEF OneInsert
    <3>3. QED
      BY <2>1, <3>1, <3>2
  <2>2. \/ /\ request.table \in Tables /\ Len(request.names) > 1
           /\ rows' = [rows EXCEPT ![request.table] = table]
        \/ UNCHANGED rows
    BY <1>6 DEF UpdateMysql, Query
  <2> HIDE DEF made, table
  <2>3. QED
    BY <1>3, <1>4, <2>1, <2>2
<1>7. CASE DeleteMysql(request)
  <2>1. ASSUME request.table \in Tables, NEW r \in rows[request.table] \ Matching(request)
        PROVE  OneInsert(request.table, r)
    BY <1>2, <2>1
  <2>2. QED
    BY <1>3, <1>4, <1>7, <2>1 DEF DeleteMysql, Query
<1>8. CASE SelectMysql(request)
  BY <1>3, <1>8 DEF SelectMysql
<1>9. CASE Readable /\ Offered(op) /\ Connected
  <2>1. Dispatch(op) /\ storage_type \in {"MEMCACHED", "MYSQL_DB"}
    BY <1>9 DEF DlrCall, MayCall, IInv, StartOK
  <2>2. QED
    BY <1>3, <1>5, <1>6, <1>7, <1>8, <1>9, <2>1, DispatchMeans
<1>10. CASE ~(Readable /\ Offered(op) /\ Connected)
  BY <1>3, <1>10 DEF DlrCall
<1>11. QED
  BY <1>9, <1>10

(***************************************************************************)
(* In the columns no update lists first, every row of every table is what  *)
(* one request inserted: for any tables, columns, requests and number of   *)
(* calls.                                                                  *)
(***************************************************************************)
THEOREM RowsComeFromOneInsert == Spec => []RowsAreNotMixed
<1>1. Init => RowsAreNotMixed
  BY DEF Init, MysqlInit, RowsAreNotMixed
<1>2. IInv /\ RowsAreNotMixed /\ [Next]_vars => RowsAreNotMixed'
  <2> SUFFICES ASSUME IInv, RowsAreNotMixed, [Next]_vars PROVE RowsAreNotMixed'
    OBVIOUS
  <2>1. CASE \E op \in Operations : DlrCall(op)
    BY <2>1, CallKeepsRows
  <2>2. CASE InitStorage
    <3>1. UNCHANGED rows
      <4>1. storage_type \in Types
        BY <2>2 DEF InitStorage, Configured, IInv, TypeOK
      <4>2. CASE storage_type = "MYSQL_DB"
        BY <2>2, <4>2 DEF InitStorage
      <4>3. CASE storage_type = "MEMCACHED"
        BY <2>2, <4>3 DEF InitStorage
      <4>4. CASE storage_type = "CACHING"
        BY <2>2, <4>4 DEF InitStorage
      <4>5. QED
        BY <4>1, <4>2, <4>3, <4>4 DEF Types
    <3>2. QED
      BY <3>1 DEF RowsAreNotMixed
  <2>3. CASE ReadConfiguration \/ Compose \/ Running \/ Evict \/ UNCHANGED vars
    BY <2>3 DEF ReadConfiguration, Compose, Running, Evict, RowsAreNotMixed
  <2>4. QED
    BY <2>1, <2>2, <2>3 DEF Next
<1>3. QED
  BY <1>1, <1>2, Invariant, PTL DEF Spec

-------------------------------------------------------------------------------
(* The memcached back end implements KeyValueStore. *)

content == IF Inserting /\ call.sent > 0
             THEN [servers EXCEPT ![Table][Key] = call.before]
             ELSE servers

reply == IF storage_type = "MEMCACHED" THEN result ELSE NoResult

\* The store that memcached is taken for starts empty.
LEMMA StoreInit == Init => KV!Init
  BY DEF Init, MemcachedInit, KV!Init

\* A step that leaves both as they are is a stutter of the store.
LEMMA StoreStutters ==
  ASSUME content' = content, reply' = reply
  PROVE  [KV!Next]_(KV!store)
  BY DEF KV!store, content, reply

\* A result with the value it stands for is a write of the store.
LEMMA StoreWrites ==
  ASSUME NEW t \in Tables, NEW k \in Keys, NEW p \in Requests,
         \/ /\ content' = [content EXCEPT ![t][k] = p.values]
            /\ reply' = [op |-> "insert", ret |-> 1, value |-> <<>>]
         \/ /\ \/ \E n \in 0 .. Len(p.values) :
                    content' = [content EXCEPT ![t][k] = SubSeq(p.values, 1, n)]
               \/ content' = content
            /\ reply' = [op |-> "insert", ret |-> 0, value |-> <<>>]
  PROVE  KV!Next
<1>1. p.values \in {q.values : q \in Requests}
  OBVIOUS
<1>2. KV!Written(t, k, p.values) \/ KV!WriteFailed(t, k, p.values)
  BY DEF KV!Written, KV!WriteFailed, KV!Put, KV!Answer, content, reply
<1>3. QED
  BY <1>1, <1>2 DEF KV!Next

\* Every step is a step of the store or leaves it alone.
LEMMA StoreStep == IInv /\ [Next]_vars => [KV!Next]_(KV!store)
<1> SUFFICES ASSUME IInv, [Next]_vars PROVE [KV!Next]_(KV!store)
  OBVIOUS
<1>1. CASE UNCHANGED vars
  BY <1>1, StoreStutters DEF content, reply
<1>2. CASE ReadConfiguration
  <2>1. call = Idle /\ call' = Idle /\ result = NoResult /\ UNCHANGED <<servers, result>>
    BY <1>2 DEF ReadConfiguration, Fault, IInv, StartOK
  <2>2. QED
    BY <2>1, StoreStutters DEF content, reply
<1>3. CASE InitStorage
  <2>1. call = Idle /\ call' = Idle /\ UNCHANGED <<servers, result, storage_type>>
    BY <1>3 DEF InitStorage, Fault, IInv, StartOK, TypeOK, Types, Configured
  <2>2. QED
    BY <2>1, StoreStutters DEF content, reply
<1>4. CASE Compose
  BY <1>4, StoreStutters DEF Compose, content, reply
<1>5. ASSUME NEW op \in Operations, DlrCall(op)
      PROVE  [KV!Next]_(KV!store)
  <2>1. call = Idle /\ UNCHANGED storage_type /\ storage_type \in {"MEMCACHED", "MYSQL_DB"}
    BY <1>5 DEF DlrCall, MayCall, IInv, StartOK
  <2>2. CASE ~(Readable /\ Offered(op) /\ Connected)
    <3>1. call' = Idle /\ UNCHANGED <<servers, result>>
      BY <1>5, <2>2 DEF DlrCall, Fault
    <3>2. QED
      BY <2>1, <3>1, StoreStutters DEF content, reply
  <2>3. CASE Readable /\ Offered(op) /\ Connected
    <3>1. Dispatch(op)
      BY <1>5, <2>3 DEF DlrCall
    <3>2. CASE storage_type = "MYSQL_DB"
      <4>1. call' = Idle /\ UNCHANGED servers
        BY <2>1, <2>3, <3>1, <3>2, DispatchMeans
        DEF InsertMysql, UpdateMysql, DeleteMysql, SelectMysql, Query
      <4>2. QED
        BY <2>1, <3>2, <4>1, StoreStutters DEF content, reply
    <3>3. CASE storage_type = "MEMCACHED"
      <4>1. CASE InsertStart(request)
        <5>1. call'.sent = 0 /\ UNCHANGED <<servers, result>>
          BY <4>1 DEF InsertStart
        <5>2. QED
          BY <2>1, <5>1, StoreStutters DEF content, reply
      <4>2. ASSUME NEW quick, NEW ret, NEW value, Quick(quick, ret, value)
            PROVE  /\ content = servers /\ content' = content
                   /\ reply' = [op |-> quick, ret |-> ret, value |-> value]
        BY <2>1, <3>3, <4>2 DEF Quick, content, reply
      <4>3. CASE AppendMemcached \/ DeleteMemcached
        <5>1. KV!Untouched
          BY <4>2, <4>3
          DEF AppendMemcached, DeleteMemcached, KV!Untouched, KV!Answer, content, reply
        <5>2. QED
          BY <5>1 DEF KV!Next
      <4>4. CASE GetMemcached(request)
        <5>1. PICK value \in {<<>>} \cup (IF request.table \in reachable
                                           THEN {servers[request.table][request.key]} ELSE {}) :
                Quick("get", 0, value)
          BY <4>4 DEF GetMemcached
        <5>2. request.key \in Keys /\ reachable \subseteq Tables /\ 1 \in Tables
          BY RequestFacts DEF IInv, TypeOK, Tables
        <5>3. \E t \in Tables : value \in {content[t][request.key], <<>>}
          BY <4>2, <5>1, <5>2
        <5>4. PICK t \in Tables : KV!Read(t, request.key)
          BY <4>2, <5>1, <5>3 DEF KV!Read, KV!Answer, content, reply
        <5>5. QED
          BY <5>2, <5>4 DEF KV!Next
      <4>5. QED
        BY <2>3, <3>1, <3>3, <4>1, <4>3, <4>4, DispatchMeans
    <3>4. QED
      BY <2>1, <3>2, <3>3
  <2>4. QED
    BY <2>2, <2>3
<1>6. CASE Running
  <2>1. /\ Inserting /\ call \in InsertCalls /\ call.params \in Requests
        /\ call.sent \in Nat /\ call.sent < Len(Parts) /\ Len(Parts) \in Nat
        /\ Parts \in Seq(Values) /\ Key \in Keys
        /\ storage_type = "MEMCACHED" /\ storage_type' = "MEMCACHED"
        /\ servers \in [Tables -> [Keys -> Seq(Values)]]
    BY <1>6, RequestFacts
    DEF Running, MemcachedStep, PartStored, PartUnconfirmed, PartRefused, InsertNowhere,
        IInv, InsertOK, InsertCalls, TypeOK
  <2>2. Table \in Tables =>
          \A v : [content EXCEPT ![Table][Key] = v] = [servers EXCEPT ![Table][Key] = v]
    BY <2>1 DEF content
  <2>3. ASSUME NEW ret, Return(ret)
        PROVE  /\ content' = servers'
               /\ reply' = [op |-> "insert", ret |-> ret, value |-> <<>>]
    BY <2>1, <2>3 DEF Return, content, reply
  <2>4. CASE PartStored /\ call.sent + 1 = Len(Parts)
    <3>1. Return(1) /\ Table \in Tables
      BY <2>4 DEF PartStored
    <3>2. servers' = [servers EXCEPT ![Table][Key] = Parts]
      <4>1. servers' = [servers EXCEPT ![Table][Key] = SubSeq(Parts, 1, call.sent + 1)]
        BY <2>1, <2>4, StoreFacts DEF PartStored
      <4>2. SubSeq(Parts, 1, call.sent + 1) = Parts
        BY <2>1, <2>4, Prefixes
      <4>3. QED
        BY <4>1, <4>2
    <3>3. content' = [content EXCEPT ![Table][Key] = call.params.values]
      BY <2>2, <2>3, <3>1, <3>2
    <3>4. QED
      BY <2>1, <2>3, <3>1, <3>3, StoreWrites
  <2>5. CASE PartStored /\ call.sent + 1 # Len(Parts)
    <3>1. /\ call' = [call EXCEPT !.sent = call.sent + 1,
                                  !.before = IF call.sent = 0 THEN servers[Table][Key]
                                             ELSE call.before]
          /\ UNCHANGED result
      BY <2>5 DEF PartStored
    <3>2. PICK w : servers' = [servers EXCEPT ![Table][Key] = w]
      BY <2>5, StoreFacts DEF PartStored
    <3>3. /\ call'.op = "insert" /\ call'.sent > 0 /\ call'.params = call.params
          /\ call'.before = IF call.sent = 0 THEN servers[Table][Key] ELSE call.before
      BY <2>1, <3>1 DEF InsertCalls
    <3>4. Table \in Tables
      BY <2>5 DEF PartStored
    <3>5. content' = [servers EXCEPT ![Table][Key] = call'.before]
      BY <2>1, <3>2, <3>3, <3>4 DEF content
    <3>6. content' = content
      <4>1. CASE call.sent = 0
        <5>1. call'.before = servers[Table][Key] /\ content = servers
          BY <3>3, <4>1 DEF content
        <5>2. [servers EXCEPT ![Table][Key] = servers[Table][Key]] = servers
          BY <2>1, <3>4
        <5>3. QED
          BY <3>5, <5>1, <5>2
      <4>2. CASE call.sent # 0
        BY <2>1, <3>3, <3>5, <4>2 DEF content
      <4>3. QED
        BY <4>1, <4>2
    <3>7. QED
      BY <2>1, <3>1, <3>6, StoreStutters DEF reply
  <2>6. CASE PartUnconfirmed
    <3>1. Return(0) /\ Table \in Tables
      BY <2>6 DEF PartUnconfirmed
    <3>2. servers' = [servers EXCEPT ![Table][Key] = SubSeq(Parts, 1, call.sent + 1)]
      BY <2>1, <2>6, StoreFacts DEF PartUnconfirmed
    <3>3. content' = [content EXCEPT ![Table][Key] = SubSeq(Parts, 1, call.sent + 1)]
      BY <2>2, <2>3, <3>1, <3>2
    <3>4. call.sent + 1 \in 0 .. Len(call.params.values)
      BY <2>1
    <3>5. QED
      BY <2>1, <2>3, <3>1, <3>3, <3>4, StoreWrites
  <2>7. CASE PartRefused
    <3>1. Return(0) /\ Table \in Tables /\ UNCHANGED servers
      BY <2>7 DEF PartRefused
    <3>2. CASE call.sent = 0
      <4>1. content' = content
        BY <2>3, <3>1, <3>2 DEF content
      <4>2. QED
        BY <2>1, <2>3, <3>1, <4>1, StoreWrites
    <3>3. CASE call.sent # 0
      <4>1. PICK n \in 0 .. Len(Parts) : servers[Table][Key] = SubSeq(Parts, 1, n)
        <5>1. servers[Table][Key] \in {<<>>, SubSeq(Parts, 1, call.sent)}
          BY <2>1, <3>3 DEF IInv, InsertOK
        <5>2. <<>> = SubSeq(Parts, 1, 0) /\ call.sent \in 0 .. Len(Parts) /\ 0 \in 0 .. Len(Parts)
          BY <2>1, Prefixes
        <5>3. QED
          BY <5>1, <5>2
      <4>2. servers = [servers EXCEPT ![Table][Key] = servers[Table][Key]]
        BY <2>1, <3>1
      <4>3. content' = [content EXCEPT ![Table][Key] = SubSeq(Parts, 1, n)]
        BY <2>2, <2>3, <3>1, <4>1, <4>2
      <4>4. QED
        BY <2>1, <2>3, <3>1, <4>1, <4>3, StoreWrites
    <3>4. QED
      BY <3>2, <3>3
  <2>8. CASE InsertNowhere
    <3>1. Return(1) /\ Table \notin Tables /\ UNCHANGED servers
      BY <2>8 DEF InsertNowhere
    <3>2. content' = content
      BY <2>1, <2>3, <3>1 DEF content, IInv, InsertOK
    <3>3. KV!WrittenNowhere
      BY <2>3, <3>1, <3>2 DEF KV!WrittenNowhere, KV!Answer, content, reply
    <3>4. QED
      BY <3>3 DEF KV!Next
  <2>9. QED
    BY <1>6, <2>4, <2>5, <2>6, <2>7, <2>8 DEF Running, MemcachedStep
<1>7. CASE Evict
  <2>1. PICK t \in Tables, k \in Keys : servers' = [servers EXCEPT ![t][k] = <<>>]
    BY <1>7 DEF Evict, ServerLoses, IInv, TypeOK
  <2>2. UNCHANGED <<call, result, storage_type>> /\ servers \in [Tables -> [Keys -> Seq(Values)]]
    BY <1>7 DEF Evict, ServerLoses, IInv, TypeOK
  <2>3. CASE Inserting /\ call.sent > 0 /\ Table = t /\ Key = k
    <3>1. content' = content /\ reply' = reply
      BY <2>1, <2>2, <2>3 DEF content, reply
    <3>2. QED
      BY <3>1, StoreStutters
  <2>4. CASE ~(Inserting /\ call.sent > 0 /\ Table = t /\ Key = k)
    <3>1. content' = [content EXCEPT ![t][k] = <<>>] /\ reply' = reply
      <4>1. CASE ~(Inserting /\ call.sent > 0)
        BY <2>1, <2>2, <4>1 DEF content, reply
      <4>2. CASE Inserting /\ call.sent > 0
        <5>1. Table \in Tables /\ Key \in Keys
          BY <4>2, RequestFacts DEF IInv, InsertOK, InsertCalls
        <5>2. /\ content = [servers EXCEPT ![Table][Key] = call.before]
              /\ content' = [servers' EXCEPT ![Table][Key] = call.before]
              /\ reply' = reply
          BY <2>2, <4>2 DEF content, reply
        <5>3. [[servers EXCEPT ![t][k] = <<>>] EXCEPT ![Table][Key] = call.before]
                = [[servers EXCEPT ![Table][Key] = call.before] EXCEPT ![t][k] = <<>>]
          <6>1. t # Table \/ k # Key
            BY <2>4, <4>2
          <6>2. CASE t # Table
            BY <2>2, <5>1, <6>2
          <6>3. CASE t = Table /\ k # Key
            <7>1. [[servers[t] EXCEPT ![k] = <<>>] EXCEPT ![Key] = call.before]
                    = [[servers[t] EXCEPT ![Key] = call.before] EXCEPT ![k] = <<>>]
              BY <2>2, <5>1, <6>3
            <7>2. QED
              BY <2>2, <5>1, <6>3, <7>1
          <6>4. QED
            BY <6>1, <6>2, <6>3
        <5>4. QED
          BY <2>1, <5>2, <5>3
      <4>3. QED
        BY <4>1, <4>2
    <3>2. KV!Lost(t, k)
      BY <3>1 DEF KV!Lost, KV!Put, content, reply
    <3>3. QED
      BY <3>2 DEF KV!Next
  <2>5. QED
    BY <2>3, <2>4
<1>8. QED
  BY <1>1, <1>2, <1>3, <1>4, <1>5, <1>6, <1>7 DEF Next

(***************************************************************************)
(* The memcached back end is a message store: a write that reports success *)
(* is there entire, one that reports failure left the old value or the     *)
(* first parts of the new one, and nothing but writes and losses changes   *)
(* what is stored.                                                         *)
(***************************************************************************)
THEOREM Refinement == Spec => ImplementsStore
<1>1. QED
  BY StoreInit, StoreStep, Invariant, PTL DEF Spec, ImplementsStore, KV!Spec
===============================================================================
