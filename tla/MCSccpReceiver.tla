---------------------------- MODULE MCSccpReceiver ----------------------------
(***************************************************************************)
(* Two nodes, two transactions and one subsystem, that of the second node. *)
(* The addresses of the peers have each part with and without the others;  *)
(* their payloads are what ends each branch of the two parsers, and a      *)
(* request with a context that is one byte short.                          *)
(***************************************************************************)
EXTENDS SccpReceiver, TLC

CONSTANTS msc, hlr

MSC == 8
HLR == 6

SsnOf == (msc :> MSC) @@ (hlr :> HLR)
PointCodeOf == (msc :> 1) @@ (hlr :> 1234)

Address(routing, pc_present, pc, ssn_present, gt) ==
  [routing_indicator |-> routing, pc_present |-> pc_present, pc |-> pc,
   ssn_present |-> ssn_present, ssn |-> HLR, gt |-> gt]

SomeAddresses ==
  {Address("SSN", TRUE, 1, FALSE, "none"),
   Address("SSN", TRUE, 0, TRUE, "none"),
   Address("SSN", FALSE, 0, TRUE, "none"),
   Address("SSN", TRUE, 1, TRUE, "twelve digits"),
   Address("SSN", FALSE, 0, FALSE, "fifteen digits"),
   Address("GT", FALSE, 0, FALSE, "short")}

SomePayloads ==
  LET request == tcap_frame("SRI_REQ")
  IN  {[request EXCEPT !.component = forward_sm_MT_packet.component],
       [request EXCEPT !.component = alert_service_center_without_result.component],
       [form_sri_ack EXCEPT !.parts = 2],
       [request EXCEPT !.context = <<4, 0, 0, 1, 0, 20>>],
       forward_sm_ack_packet_continue(Context(25, 3))}
===============================================================================
