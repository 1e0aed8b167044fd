----------------------------- MODULE TcapMessages -----------------------------
(***************************************************************************)
(* TCAP and MAP messages as the tags a parser meets when it walks them,    *)
(* values left out; what the builders of the stack and of the simulator    *)
(* produce, and how far parse_tcap_message and parse_map_message of the    *)
(* stack get.                                                              *)
(***************************************************************************)
EXTENDS Integers, Sequences, FiniteSetsExt

Primitives == {"BEGIN", "END", "CONTINUE"}

\* An application context is at most as long as the field it is read into.
Bytes == 0 .. 255
OBJECT_ID_LEN == 7
Context(name, version) == <<4, 0, 0, 1, 0, name, version>>

\* Dialogue and component of a TCAP message; parts counts the components.
Tcap(primitive, dialogue, component, context) ==
  [primitive |-> primitive, dialogue |-> dialogue, component |-> component,
   context |-> context, parts |-> 1]

Portion(asn) == <<"DLG_PRTN", "DLG_REQ", "DLG_AS_ID", "TAG_FIELD0", asn,
                  "TAG_FIELD1", "APPLN_CNTXT_NAME", "COMP_PORTN">>

(***************************************************************************)
(* The MAP components.  Each element is a tag and the fields that          *)
(* parse_map_message writes once it has accepted it; the opcode stands at  *)
(* the place of its value.                                                 *)
(***************************************************************************)
Tag(t) == [tag |-> t, writes |-> {}]
Value(t, fields) == [tag |-> t, writes |-> fields]

Header == <<Tag("MAP_HDR"), Tag("INVOKE_ID"), Tag("OPCODE")>>

SriInvoke == Header \o
  <<Value("SRI", {"map_opcode"}), Tag("CONSTRUCTOR"), Value("SRI_MSISDN", {"msisdn_to_HLR"}),
    Tag("PARAMETER_2"), Value("SERVICE_CENTER_ADDR", {"service_centre_address"})>>

MtInvoke == Header \o
  <<Value("MT", {"map_opcode"}), Tag("CONSTRUCTOR"), Value("IMSI", {"IMSI_Receiver"}),
    Value("MSISDN", {"MSISDN_SMSC"}), Value("SMS_PDU", {"MSISDN_sender", "sms_data"})>>

MoInvoke == Header \o
  <<Value("MO", {"map_opcode"}), Tag("CONSTRUCTOR"), Value("SVC_CENTR_ADDR", {"MSISDN_SMSC"}),
    Value("MSISDN", {"MSISDN_Sender"}), Value("SMS_PDU", {"MSISDN_receiver", "sms_data"})>>

SriResult ==
  <<Tag("DLG_RESULT"), Tag("INVOKE_ID"), Tag("CONSTRUCTOR"), Tag("OPCODE"),
    Value("SRI", {"map_opcode"}), Tag("CONSTRUCTOR"), Value("SMS_PDU", {"IMSI_from_HLR"}),
    Tag("ASN_1_TYPE"), Value("PARAMETER_2", {"LMSI_from_HLR"})>>

Tags(component) == [i \in DOMAIN component |-> component[i].tag]

\* A mutant: an MO is recorded as what it is.
OpcodeOfItsOwn(op) == op

\* What map_opcode is set to: an MO is recorded as an MT.
Recorded(op) == IF op = "MO" THEN "MT" ELSE op

----------------------------------------------------------------------------
\* The stack's builders: gsm_map_frame, tcap_frame.
mo_forward_req == Tags(MoInvoke)
mt_forward_req == Tags(Header) \o <<"MT", "CONSTRUCTOR", "IMSI", "SVC_CENTR_ADDR", "SMS_PDU">>
mo_sri_req == Tags(SriInvoke)
mo_forward_res == <<"DLG_RESULT", "INVOKE_ID">>
mt_forward_res == <<"DLG_RESULT", "INVOKE_ID">>
mo_sri_res == Tags(SriResult)

gsm_map_frame ==
  [MO_REQ |-> mo_forward_req, MT_REQ |-> mt_forward_req, SRI_REQ |-> mo_sri_req,
   MO_RES |-> mo_forward_res, MT_RES |-> mt_forward_res, SRI_RES |-> mo_sri_res]

StackTypes == DOMAIN gsm_map_frame
StackRequests == {"MO_REQ", "MT_REQ", "SRI_REQ"}

ContextOf(type) == IF type \in {"SRI_REQ", "SRI_RES"} THEN Context(20, 2) ELSE Context(25, 2)

\* A mutant: a response carries the tag the parser wants of one.
FramesResponses(type) ==
  IF type \in StackRequests
    THEN Tcap("BEGIN", <<"TX_ID">> \o Portion("ASN1_TYPE"), gsm_map_frame[type], ContextOf(type))
    ELSE Tcap("END", <<"DEST_TX_ID">> \o Portion("ASN2_TYPE"), gsm_map_frame[type],
              ContextOf(type))

\* A response has the dialogue of a request (0x60), not that of a response.
tcap_frame(type) ==
  IF type \in StackRequests
    THEN Tcap("BEGIN", <<"TX_ID">> \o Portion("ASN1_TYPE"), gsm_map_frame[type], ContextOf(type))
    ELSE Tcap("END", <<"DEST_TX_ID">> \o Portion("ASN1_TYPE"), gsm_map_frame[type],
              ContextOf(type))

----------------------------------------------------------------------------
\* The simulator's builders.  An SRI states its protocol version; a forwarded
\* message has its length in two bytes, and the first is where a tag should be.
Versioned == <<"TX_ID", "DLG_PRTN", "DLG_REQ", "DLG_AS_ID", "TAG_FIELD0", "ASN1_TYPE",
               "PROTOCOL_VERSION", "TAG_FIELD1", "APPLN_CNTXT_NAME", "COMP_PORTN">>
LongForm == <<"LARGE_MSG_LEN", "TX_ID">> \o Portion("ASN1_TYPE")

GatewayContext == <<4, 98, 0, 1, 0, 20, 2>>

sri_SM_req == Tcap("BEGIN", Versioned, Tags(SriInvoke), GatewayContext)
alert_service_center_without_result ==
  Tcap("BEGIN", Versioned, Tags(Header) \o <<"ALERT", "CONSTRUCTOR", "SMS_PDU", "SMS_PDU">>,
       GatewayContext)
forward_sm_MT_packet == Tcap("BEGIN", LongForm, Tags(MtInvoke), Context(25, 2))
forward_sm_MO_packet == Tcap("BEGIN", LongForm, Tags(MoInvoke), Context(21, 2))

\* What is acknowledged, an MO or an MT, shows in the context only.
Acknowledged == {Context(21, 2), Context(25, 3)}

forward_sm_end_ack_packet(context) ==
  Tcap("END", <<"DEST_TX_ID">> \o Portion("ASN2_TYPE"), <<"DLG_RESULT", "INVOKE_ID">>, context)
forward_sm_ack_packet_continue(context) ==
  Tcap("CONTINUE", <<"TX_ID", "DEST_TX_ID">> \o Portion("ASN2_TYPE"),
       <<"MAP_HDR", "INVOKE_ID">>, context)
form_sri_ack ==
  Tcap("END", <<"DEST_TX_ID">> \o Portion("ASN2_TYPE"), Tags(SriResult), Context(20, 2))

SimulatorMessages ==
  {sri_SM_req, forward_sm_MO_packet, forward_sm_MT_packet, form_sri_ack,
   alert_service_center_without_result}
  \cup UNION {{forward_sm_end_ack_packet(c), forward_sm_ack_packet_continue(c)} :
                c \in Acknowledged}

----------------------------------------------------------------------------
\* How many of the tags found are the expected ones, from the first on.
Accepted(expected, found) ==
  Max({n \in 0 .. Len(expected) : n <= Len(found) /\ \A i \in 1 .. n : found[i] = expected[i]})

\* What parse_tcap_message wants of a dialogue.  A CONTINUE carries both
\* transaction ids, but the parser reads neither of them, and no component.
Expected(primitive) ==
  CASE primitive = "BEGIN"    -> <<"TX_ID">> \o Portion("ASN1_TYPE")
    [] primitive = "END"      -> <<"DEST_TX_ID">> \o Portion("ASN2_TYPE")
    [] primitive = "CONTINUE" -> <<"DLG_PRTN", "DLG_REQ", "DLG_AS_ID", "TAG_FIELD0",
                                   "TAG_FIELD1", "APPLN_CNTXT_NAME">>

WholeDialogue(t) ==
  Accepted(Expected(t.primitive), t.dialogue) = Len(Expected(t.primitive))

\* The id is the first tag of a BEGIN and of an END, the context the last but one.
TakesTransaction(t) ==
  t.primitive # "CONTINUE" /\ Accepted(Expected(t.primitive), t.dialogue) > 0
TakesContext(t) ==
  LET last == IF t.primitive = "CONTINUE" THEN 0 ELSE 1
  IN  Accepted(Expected(t.primitive), t.dialogue) >= Len(Expected(t.primitive)) - last

\* The length of the component portion allows for a single component.
OneComponent(t) == t.parts = 1

ReadsMap(t) == t.primitive # "CONTINUE" /\ WholeDialogue(t) /\ OneComponent(t)

\* parse_map_message takes the branch that agrees with most of the component.
Known == {SriInvoke, MtInvoke, MoInvoke, SriResult}
Branch(component) ==
  CHOOSE b \in Known : \A c \in Known :
    Accepted(Tags(c), component) <= Accepted(Tags(b), component)

MapAccepted(component) == Accepted(Tags(Branch(component)), component)

WholeMap(component) == MapAccepted(component) = Len(Branch(component))

\* The fields of the branch that stand before the first tag it refuses.
Fields(component) ==
  UNION {Branch(component)[i].writes : i \in 1 .. MapAccepted(component)}

Opcodes(component) == {component[i] : i \in DOMAIN component} \cap {"SRI", "MT", "MO"}
===============================================================================
