---------------------------- MODULE StorageMemcached ----------------------------
(***************************************************************************)
(* storage_memcached.c: three memcached servers, one per table.  An insert *)
(* is one memcached_set and a memcached_append for each further part, each *)
(* a round trip that may fail before or after the server has acted.        *)
(***************************************************************************)
EXTENDS StorageParams

VARIABLES
  servers,     \* servers[t][k]: the parts server t holds under key k
  reachable    \* the servers whose address was resolved

memcached == <<servers, reachable>>

MAIN_SERVER == 1
HLR_SERVER == 2
DLR_SERVER == 3

MemcachedInit == /\ servers = [t \in Tables |-> [k \in Keys |-> <<>>]]
                 /\ reachable = {}

\* MAIN is looked up under the name "LOCAL_HOST", the others by address.
InitMemcached == \/ reachable' = {HLR_SERVER, DLR_SERVER}
                 \/ reachable' = {MAIN_SERVER, HLR_SERVER, DLR_SERVER}

InsertStart(p) == /\ Parse
                  /\ call' = [op |-> "insert", params |-> p, sent |-> 0, before |-> <<>>]
                  /\ UNCHANGED <<result, crashed, memcached>>

Inserting == call.op = "insert"
Table == call.params.table
Key == call.params.key
Parts == call.params.values

\* The first part replaces the value, an append needs one to be there.
Accepts == /\ Table \in reachable
           /\ call.sent = 0 \/ servers[Table][Key] # <<>>

Store == servers' = [servers EXCEPT ![Table][Key] =
                       IF call.sent = 0 THEN <<Head(Parts)>>
                       ELSE Append(@, Parts[call.sent + 1])]

Return(ret) == /\ Returns("insert", ret, <<>>)
               /\ call' = Idle
               /\ UNCHANGED <<buffer, crashed, reachable>>

PartStored == /\ Inserting /\ Table \in Tables /\ Accepts /\ Store
              /\ IF call.sent + 1 = Len(Parts)
                   THEN Return(1)
                   ELSE /\ call' = [call EXCEPT !.sent = @ + 1,
                                                !.before = IF call.sent = 0
                                                             THEN servers[Table][Key] ELSE @]
                        /\ UNCHANGED <<buffer, result, crashed, reachable>>

\* The server stored the part but its answer did not come.
PartUnconfirmed == /\ Inserting /\ Table \in Tables /\ Accepts /\ Store
                   /\ Return(0)

\* A mutant: the status of the round trip is not looked at.
PartRefusedGoesOn == /\ Inserting /\ Table \in Tables
                     /\ UNCHANGED servers
                     /\ IF call.sent + 1 = Len(Parts)
                          THEN Return(1)
                          ELSE /\ call' = [call EXCEPT !.sent = @ + 1]
                               /\ UNCHANGED <<buffer, result, crashed, reachable>>

PartRefused == /\ Inserting /\ Table \in Tables
               /\ UNCHANGED servers
               /\ Return(0)

\* The switch has no such table.
InsertNowhere == /\ Inserting /\ Table \notin Tables
                 /\ UNCHANGED servers
                 /\ Return(1)

\* A call that is over as soon as it has parsed its buffer.
Quick(op, ret, value) == /\ Parse
                         /\ Returns(op, ret, value)
                         /\ UNCHANGED <<call, crashed, memcached>>

\* memcached_mget and memcached_fetch: NULL when missing or unreachable.
GetMemcached(p) ==
  \E value \in {<<>>} \cup (IF p.table \in reachable THEN {servers[p.table][p.key]} ELSE {}) :
    Quick("get", 0, value)

\* A mutant: the table of no case is what is answered.
AppendAnswersTable == Quick("append", 48, <<>>)

\* The table is compared before it is parsed: no case of the switch applies.
AppendMemcached == Quick("append", 1, <<>>)

DeleteMemcached == Quick("delete", 0, <<>>)

\* A server evicts a value, or is restarted.
ServerLoses == \E t \in reachable, k \in Keys :
                 /\ servers[t][k] # <<>>
                 /\ servers' = [servers EXCEPT ![t][k] = <<>>]
                 /\ UNCHANGED <<reachable, buffer, call, result, crashed>>

MemcachedStep == PartStored \/ PartUnconfirmed \/ PartRefused \/ InsertNowhere
===============================================================================
