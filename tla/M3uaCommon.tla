------------------------------ MODULE M3uaCommon ------------------------------
(***************************************************************************)
(* What every M3UA module of the project shares: the two enumerations of   *)
(* handshake states, kept as the numbers the C compiler gives them because *)
(* the code stores both in one union, and the messages, kept as records of *)
(* the fields the handlers look at.                                        *)
(***************************************************************************)
EXTENDS Naturals, Sequences

\* m3ua_asp_states: states towards a peer that is an ASP.
asp_init == 0
asp_up_tx == 1
asp_up_ack_tx == 2
asp_up_done == 3
asp_active_tx == 4
asp_active_ack_tx == 5
asp_active_done == 6
asp_inactive_done == 9
asp_down_ack_tx == 11
asp_handshake_complete_shifted == 15
asp_handshake_complete == 12

\* m3ua_sg_states: states towards a peer that is a signalling gateway.
asp_sg_init == 0
asp_sg_up_tx == 1
asp_sg_up_ack_tx == 2
asp_sg_notify_tx == 3
asp_sg_up_done == 4
asp_sg_active_tx == 5
asp_sg_active_ack_tx == 6
asp_sg_inactive_tx == 8
asp_sg_down_tx == 11
asp_sg_DAUD_tx_shifted == 15
asp_sg_DAUD_tx == 13
asp_sg_handshake_complete == 14

\* union m3ua_states: an ASP state and an SG state are the same int.
m3ua_states == 0 .. 14

\* The (class, type) pairs of a message header, by the name of the type.
AspsmTypes == {"ASP_UP", "ASP_UPACK", "ASP_DOWN", "ASP_DWN_ACK", "ASP_HTBT",
               "ASP_HBT_ACK"}
AsptmTypes == {"ASP_ACT", "ASP_ACT_ACK", "ASP_INA", "ASP_INA_ACK"}
MessageTypes == AspsmTypes \cup AsptmTypes \cup {"MGMT_ERR", "NTFY", "DAUD", "TX_DATA"}

(***************************************************************************)
(* What the Status parameter of a NTFY says: "inactive", "active" and      *)
(* "pending" are AS state changes, "other" is a status of another type and *)
(* "untagged" a NTFY whose parameter at NOTIFY_STATUS_OFFSET is no Status. *)
(***************************************************************************)
Statuses == {"inactive", "active", "pending", "other", "untagged"}

(***************************************************************************)
(* A routing context: "assigned" is the one the gateway chose, "garbage"   *)
(* what malloc left in as_node, "none" a message without one.              *)
(***************************************************************************)
Contexts == {"assigned", "garbage", "none"}

Messages == [type : MessageTypes, status : Statuses \cup {"none"}, rc : Contexts]

Msg(type) == [type |-> type, status |-> "none", rc |-> "none"]

\* A zeroed buffer reads as class MGMT, type ERR.
NoMessage == Msg("MGMT_ERR")

\* A message that carries the routing context of the node.
WithContext(type, rc) == [type |-> type, status |-> "none", rc |-> rc]

\* A message of this type is on the stream.
Has(stream, type) == \E i \in DOMAIN stream : stream[i].type = type

Notify(status, rc) == [type |-> "NTFY", status |-> status, rc |-> rc]
===============================================================================
