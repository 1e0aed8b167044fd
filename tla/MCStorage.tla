------------------------------- MODULE MCStorage -------------------------------
(***************************************************************************)
(* Buffers of one to three parts for a table whose server is reached, the  *)
(* second of which updates what the first inserts; one for the table whose *)
(* server may not be, with fewer values than names; and one for a table    *)
(* that is none.  All share two keys.                                      *)
(***************************************************************************)
EXTENDS Storage

Buffer(names, values, key, table) ==
  [names |-> names, values |-> values, key |-> key, table |-> table]

Buffers == {Buffer(<<"state", "global_msg_id", "sms">>, <<"1", "1", "1">>, "1", HLR_SERVER),
            Buffer(<<"state", "sms">>, <<"2", "2">>, "1", HLR_SERVER),
            Buffer(<<"state">>, <<"2">>, "1", HLR_SERVER),
            Buffer(<<"global_msg_id", "state">>, <<"1">>, "2", MAIN_SERVER),
            Buffer(<<"state">>, <<"1">>, "1", 4)}

ColumnNames == {"global_msg_id", "state", "sms"}
ColumnValues == {"1", "2"}
===============================================================================
