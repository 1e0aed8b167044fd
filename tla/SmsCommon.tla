------------------------------- MODULE SmsCommon -------------------------------
(***************************************************************************)
(* What both ends of an SMS transaction share: the TCAP messages, kept as  *)
(* the fields somebody looks at, and the database behind gsmsc_tcap_query. *)
(***************************************************************************)
EXTENDS Naturals, Sequences

CONSTANTS
  Receivers,       \* who gets a message
  MaxDbFailures    \* how many statements and connections fail

ASSUME CommonAssumption == MaxDbFailures \in Nat

VARIABLE dbFailures   \* how many have failed so far

NoReceiver == "nobody"

Packet(type, trx, receiver) == [type |-> type, trx |-> trx, receiver |-> receiver]

Handles == {"null", "ready", "pending"}

Outcome(ok, handle, failures) == [ok |-> ok, handle |-> handle, failures |-> failures]

(***************************************************************************)
(* A statement that fails closes the connection and opens another, and has *)
(* failed; without a connection it only opens one.  A connection on which  *)
(* a result set is left over ("pending") fails every statement.            *)
(***************************************************************************)
gsmsc_tcap_query(handle, failures) ==
  (IF failures < MaxDbFailures
     THEN {Outcome(FALSE, h, failures + 1) : h \in {"ready", "null"}} ELSE {})
    \cup {Outcome(handle = "ready", "ready", failures)}
===============================================================================
