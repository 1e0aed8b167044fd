----------------------------- MODULE StorageParams -----------------------------
(***************************************************************************)
(* What the two back ends of the message store share: the buffer a caller  *)
(* passes ("names;#;values;#;key;#;table;"), which parse_params cuts up in *)
(* place, and the call in progress.                                        *)
(***************************************************************************)
EXTENDS Naturals, Sequences

CONSTANT Requests   \* the buffers a caller composes, before they are parsed

\* names and values are the two lists, without the "#" that ends each.
ASSUME RequestsAssumption ==
  \A p \in Requests : /\ Len(p.names) > 0
                      /\ Len(p.values) > 0
                      /\ p.table \in Nat

VARIABLES
  buffer,    \* the caller's buffer: "whole", or "cut" by strtok_r
  call,      \* the call in progress: its operation, request and parts sent
  result,    \* the last call that returned and what it answered
  crashed    \* a NULL pointer was followed

\* Tables 1, 2 and 3: the three memcached servers, the three MySQL tables.
Tables == 1 .. 3
Keys == {p.key : p \in Requests}

Idle == [op |-> "none", sent |-> 0]
NoResult == [op |-> "none", ret |-> 0, value |-> <<>>]

Returns(op, ret, value) == result' = [op |-> op, ret |-> ret, value |-> value]

\* What is left of a buffer after strtok_r: the second token is NULL.
Readable == buffer = "whole"

Parse == /\ Readable
         /\ buffer' = "cut"

Fault == /\ crashed' = TRUE
         /\ call' = Idle
         /\ UNCHANGED <<buffer, result>>
===============================================================================
