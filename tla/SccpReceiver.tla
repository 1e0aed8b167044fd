----------------------------- MODULE SccpReceiver -----------------------------
(***************************************************************************)
(* A program that receives with the stack: sccp_analyze reads every        *)
(* message into one sccp_params, and resolve_route looks up the called     *)
(* party it has there.  This is the loop th_process_sccp_msg outlines.     *)
(***************************************************************************)
EXTENDS RouteLogic, TcapMessages

CONSTANTS
  Transactions,     \* the transaction ids of the peers
  Subsystems,       \* the subsystem numbers in addresses
  PeerAddresses,    \* the called parties other peers of the network address
  PeerPayloads      \* and the TCAP messages they send

VARIABLES
  called_pty,   \* sccp_ret.called_pty
  tcap_param,   \* sccp_ret.tcap_param, without the fields of MAP
  beside,       \* the memory parse_map_message takes for the fields of MAP
  crashed,
  last,         \* history: the message analysed last
  read          \* history: how far it was read

received == <<called_pty, tcap_param, beside, last, read>>
vars == <<routes, received, crashed>>

FirstPointer == 3
NoTransaction == 0
NoOpcode == "none"

GlobalTitles == {"none", "short", "twelve digits", "fifteen digits"}

(***************************************************************************)
(* A called party address: pc is the first byte of the point code, 0 for   *)
(* zero and 1 for any other.                                               *)
(***************************************************************************)
Addresses ==
  [routing_indicator : {"GT", "SSN"}, pc_present : BOOLEAN, pc : {0, 1},
   ssn_present : BOOLEAN, ssn : Subsystems, gt : GlobalTitles]

\* The address both programs write: a subsystem and a global title.
TitleAddress(ssn) ==
  [routing_indicator |-> "GT", pc_present |-> FALSE, pc |-> 0,
   ssn_present |-> TRUE, ssn |-> ssn, gt |-> "twelve digits"]

\* What sccp_analyze finds in a UDTS, where it looks at the first bytes of the
\* message: the class is the indicator, the first pointer the subsystem.
ServiceAddress ==
  [routing_indicator |-> "GT", pc_present |-> FALSE, pc |-> 0,
   ssn_present |-> TRUE, ssn |-> FirstPointer, gt |-> "none"]

\* Which checks of the two parsers a message passes, and the opcode it has.
Checked(t) ==
  [primitive |-> t.primitive, context |-> t.context,
   takesTransaction |-> TakesTransaction(t), takesContext |-> TakesContext(t),
   dialogue |-> WholeDialogue(t), map |-> ReadsMap(t), component |-> WholeMap(t.component),
   opcode |-> IF "map_opcode" \in Fields(t.component) THEN Opcodes(t.component) ELSE {}]

Message(kind, type, address, t, trx) ==
  [kind |-> kind, type |-> type, address |-> address, tcap |-> Checked(t), trx |-> trx]

\* create_sccp_unitdata of the stack, as called by smsc_rear.c.
StackMessages ==
  {Message(type, "UDT", TitleAddress(ssn), tcap_frame(type), trx) :
     type \in StackTypes, ssn \in Subsystems, trx \in Transactions}

\* create_sccp_unitdata of the simulator: a UDT by name, a UDTS by its code.
SimulatorUnitdata ==
  {Message("simulator", "UDTS", ServiceAddress, t, trx) :
     t \in SimulatorMessages, trx \in Transactions}

ASSUME PeerAssumption ==
  /\ PeerAddresses \subseteq Addresses
  /\ \A t \in PeerPayloads : /\ t.primitive \in Primitives
                            /\ t.context \in Seq(Bytes) /\ Len(t.context) <= OBJECT_ID_LEN

\* Addresses and payloads are read apart, so it is enough that each varies.  The
\* pointers of an XUDT are taken to count from the next byte: its address is the
\* one that is read from the byte after its indicator, whatever address that makes.
PeerMessages ==
  {Message("peer", type, a, form_sri_ack, trx) :
     type \in {"UDT", "XUDT"}, a \in PeerAddresses, trx \in Transactions}
  \cup {Message("peer", "UDT", TitleAddress(ssn), t, trx) :
     ssn \in Subsystems, t \in PeerPayloads, trx \in Transactions}

Messages == StackMessages \cup SimulatorUnitdata \cup PeerMessages

----------------------------------------------------------------------------
\* A mutant: a global title ends inside its array.
AddressedInside(c, a) ==
  [routing_indicator |-> a.routing_indicator,
   pc_present |-> c.pc_present \/ a.pc_present,
   ssn_present |-> c.ssn_present \/ a.ssn_present,
   gt_present |-> c.gt_present \/ a.gt # "none",
   pc |-> IF a.pc_present THEN a.pc ELSE c.pc,
   ssn |-> IF a.ssn_present THEN a.ssn ELSE c.ssn]

(***************************************************************************)
(* The called party after an address has been read into it.  A flag is set *)
(* and never reset; a value is copied if present.  The digits of a global  *)
(* title and the zero after them go to gt[12]: the zero after twelve is    *)
(* the first byte of pc.  Fifteen are read as sixteen: the digits beyond   *)
(* the array are pc and what pads it, and the zero after them is the low   *)
(* byte of ssn, the one that is not zero.                                  *)
(***************************************************************************)
Addressed(c, a) ==
  [routing_indicator |-> a.routing_indicator,
   pc_present |-> c.pc_present \/ a.pc_present,
   ssn_present |-> c.ssn_present \/ a.ssn_present,
   gt_present |-> c.gt_present \/ a.gt # "none",
   pc |-> IF a.gt = "fifteen digits" THEN 1 ELSE IF a.gt = "twelve digits" THEN 0
          ELSE IF a.pc_present THEN a.pc ELSE c.pc,
   ssn |-> IF a.gt = "fifteen digits" THEN 0
           ELSE IF a.ssn_present THEN a.ssn ELSE c.ssn]

\* A mutant: every parse starts without an error.
ErrorReset(t, old) ==
  IF ~t.dialogue THEN "TAG" ELSE "LEN"

\* "LEN" is 0, which is also the absence of an error.
ErrorOf(t, old) ==
  IF ~t.dialogue THEN "TAG"
  ELSE IF t.primitive # "CONTINUE" /\ ~t.map THEN "LEN" ELSE old

\* A mutant: the last byte of a context is left out.
CopiedShort(context, old) ==
  [i \in 1 .. OBJECT_ID_LEN |-> IF i < Len(context) THEN context[i] ELSE old[i]]

\* A context goes over the one before and is nowhere ended.
Copied(context, old) ==
  [i \in 1 .. OBJECT_ID_LEN |-> IF i <= Len(context) THEN context[i] ELSE old[i]]

\* parse_tcap_message: what is read before a check that fails stays.
parse_tcap_message(t, trx, old) ==
  [error |-> ErrorOf(t, old.error),
   primitive |-> t.primitive,
   transaction_id |-> IF t.takesTransaction THEN trx ELSE old.transaction_id,
   appl_context |-> IF t.takesContext THEN Copied(t.context, old.appl_context)
                   ELSE old.appl_context]

MapAfter(opcodes, old) ==
  IF opcodes = {} THEN old ELSE Recorded(CHOOSE op \in opcodes : TRUE)

(***************************************************************************)
(* parse_map_message is called undeclared, with the struct map_params for  *)
(* its pointer.  Where arguments pass in registers, the pointer is left    *)
(* over from copying the struct and is the byte after it; where they pass  *)
(* on the stack, it is the value of map_error_code and no address.  The    *)
(* fields of the caller's map_params are never written.                    *)
(***************************************************************************)
parse_map_message(t) ==
  \/ /\ beside' = MapAfter(t.opcode, beside)
     /\ UNCHANGED crashed
  \/ /\ crashed' = TRUE
     /\ UNCHANGED beside

\* Without a UDT the TCAP message is not where it is looked for.  In an XUDT
\* its length is taken for its primitive, and the tags are not where they should be.
NotTcap(type) ==
  /\ \/ tcap_param' = [tcap_param EXCEPT !.error = "PRIMITIVE"]
     \/ /\ type = "XUDT"
        /\ \E p \in Primitives :
             tcap_param' = [tcap_param EXCEPT !.error = "TAG", !.primitive = p]
  /\ read' = "address"
  /\ UNCHANGED <<beside, crashed>>

ReadTcap(t, trx) ==
  /\ tcap_param' = parse_tcap_message(t, trx, tcap_param)
  /\ IF t.map
       THEN /\ parse_map_message(t)
            /\ read' = IF t.component THEN "component" ELSE "dialogue"
       ELSE /\ read' = "part"
            /\ UNCHANGED <<beside, crashed>>

\* sccp_analyze: it returns SUCCESS whatever became of the TCAP message.
sccp_analyze(m) ==
  /\ ~crashed
  /\ called_pty' = Addressed(called_pty, m.address)
  /\ IF m.type = "UDT" THEN ReadTcap(m.tcap, m.trx) ELSE NotTcap(m.type)
  /\ last' = [kind |-> m.kind, trx |-> m.trx, context |-> m.tcap.context,
              gt |-> IF m.type = "UDT" THEN m.address.gt ELSE "unknown"]
  /\ Forget
  /\ UNCHANGED <<route_nodes, num_routes, route_as>>

Resolve ==
  /\ ~crashed
  /\ last.kind # "none"
  /\ resolve_route(called_pty)
  /\ crashed' = (result' = Fault)
  /\ UNCHANGED received

\* The caller has no address: the pointer is NULL.
ResolveNothing ==
  /\ ~crashed
  /\ resolve_nothing
  /\ UNCHANGED <<received, crashed>>

Register ==
  /\ ~crashed
  /\ RegisterCount \/ \E n \in Nodes \ {route_nodes[i] : i \in DOMAIN route_nodes} : RegisterStore(n)
  /\ UNCHANGED <<received, crashed>>

\* sccp_ret is a local variable nobody clears: the flags and the point code
\* are what was there; the rest is taken as zero.
Init ==
  /\ RoutesInit
  /\ \E a \in PeerAddresses :
       called_pty = [routing_indicator |-> a.routing_indicator, pc_present |-> a.pc_present,
                     ssn_present |-> a.ssn_present, gt_present |-> FALSE,
                     pc |-> a.pc, ssn |-> a.ssn]
  /\ tcap_param = [error |-> "LEN", primitive |-> "none", transaction_id |-> NoTransaction,
                   appl_context |-> [i \in 1 .. OBJECT_ID_LEN |-> 0]]
  /\ beside = NoOpcode
  /\ crashed = FALSE
  /\ last = [kind |-> "none", trx |-> NoTransaction, context |-> <<>>, gt |-> "unknown"]
  /\ read = "address"

Analyze == \E m \in Messages : sccp_analyze(m)

Next == Analyze \/ Resolve \/ ResolveNothing \/ Register

Spec == Init /\ [][Next]_vars

----------------------------------------------------------------------------
(***************************************************************************)
(* Types.  No opcode is ever that of an MO: parse_map_message records one  *)
(* as an MT (map.c:632).                                                   *)
(***************************************************************************)
ReceiverTypeOK ==
  /\ called_pty \in [routing_indicator : {"GT", "SSN"}, pc_present : BOOLEAN,
                     ssn_present : BOOLEAN, gt_present : BOOLEAN, pc : {0, 1},
                     ssn : Subsystems \cup {FirstPointer, 0}]
  /\ tcap_param \in [error : {"LEN", "TAG", "PRIMITIVE"},
                     primitive : Primitives \cup {"none"},
                     transaction_id : Transactions \cup {NoTransaction},
                     appl_context : [1 .. OBJECT_ID_LEN -> Bytes]]
  /\ beside \in {NoOpcode, "SRI", "MT"}
  /\ read \in {"address", "part", "dialogue", "component"}
  /\ num_routes \in 0 .. Len(route_nodes)
  /\ Len(route_nodes) <= MaxRoutes
  /\ found \in Nodes \cup {NULL, Fault}

(***************************************************************************)
(* Whatever the address, a resolution while nobody registers finds the     *)
(* first node registered or none, and never reports that it could not:     *)
(* a point code of a node is the empty string to strcmp, and a search that *)
(* fails follows an empty entry (route_logic.c:33-37).  The subsystem      *)
(* numbers, and every other node, are registered in vain.                  *)
(***************************************************************************)
OnlyTheFirst ==
  num_routes = Len(route_nodes) =>
    /\ result # "GT_UNRESOLVED"
    /\ result = "ROUTE_RESOLVED" => route_nodes # <<>> /\ found = route_nodes[1]
    /\ found \in Nodes => called_pty.routing_indicator = "SSN"

(***************************************************************************)
(* A message with a global title of twelve digits that is routed on its    *)
(* subsystem number goes to the first node, whatever point code it carries *)
(* and whatever was received before: the end of the title is written over  *)
(* the first byte of the point code (sccp.c:281, common.c:148).            *)
(***************************************************************************)
TitleHidesPointCode ==
  ( /\ last.gt = "twelve digits"
    /\ result \notin {NotAsked, "INVALID_PTR"}
    /\ called_pty.routing_indicator = "SSN"
    /\ route_nodes # <<>> )
  => found = route_nodes[1]

(***************************************************************************)
(* No message takes anything back: once one had a point code, a subsystem  *)
(* or a title, every later address seems to have it; and the error of a    *)
(* message stays until another one fails, which may look like no error     *)
(* (sccp.c:207-224; tcap.h:24-26).                                         *)
(***************************************************************************)
NothingTakenBack ==
  [][/\ called_pty.pc_present => called_pty'.pc_present
     /\ called_pty.ssn_present => called_pty'.ssn_present
     /\ called_pty.gt_present => called_pty'.gt_present
     /\ tcap_param'.error # tcap_param.error => read' \in {"address", "part"}]_vars

(***************************************************************************)
(* What is left of earlier messages does not pass for one whose dialogue   *)
(* is read to its end: it is a BEGIN or an END, its transaction id is its  *)
(* own, and so is every byte of its context.  Behind a shorter context the *)
(* bytes of an earlier one stay (tcap.c:257-298, 370-379).                 *)
(***************************************************************************)
WholeDialogueIsItsOwn ==
  read \in {"dialogue", "component"} =>
    /\ tcap_param.primitive \in {"BEGIN", "END"}
    /\ tcap_param.transaction_id = last.trx
    /\ \A i \in DOMAIN last.context : tcap_param.appl_context[i] = last.context[i]

(***************************************************************************)
(* Of what the two programs build, the stack reads to the end an SRI and   *)
(* an MO of its own; its MT fails inside MAP, its responses in the         *)
(* dialogue, and of a message of the simulator it does not even find TCAP. *)
(***************************************************************************)
Understood ==
  /\ last.kind \in {"SRI_REQ", "MO_REQ"} => read = "component"
  /\ last.kind = "MT_REQ" => read = "dialogue"
  /\ last.kind \in StackTypes \ StackRequests => read = "part"
  /\ last.kind = "simulator" => read = "address"

(***************************************************************************)
(* "set m3ua_as as NULL, after resolution, as_node should contain a value" *)
(* (route_logic.h:21).  resolve_route assigns its own parameter.           *)
(***************************************************************************)
ResolutionDelivers == result = "ROUTE_RESOLVED" => route_as # NULL
===============================================================================
