-------------------------- MODULE SccpReceiverProofs --------------------------
(***************************************************************************)
(* Theorems about SccpReceiver: where a resolution ends, and what of one   *)
(* message is taken for another's, for any nodes, addresses and payloads.  *)
(***************************************************************************)
EXTENDS SccpReceiver, SequenceTheorems, TLAPS

\* The two statements of register_route leave one node uncounted at most.
RoutesOK == /\ route_nodes \in Seq(Nodes)
            /\ num_routes \in 0 .. Len(route_nodes)
            /\ Len(route_nodes) <= num_routes + 1
            /\ Len(route_nodes) <= MaxRoutes

CalledParties ==
  [routing_indicator : {"GT", "SSN"}, pc_present : BOOLEAN, ssn_present : BOOLEAN,
   gt_present : BOOLEAN, pc : {0, 1}, ssn : Subsystems \cup {FirstPointer, 0}]

\* The contexts of messages, and what is read of them and of transactions.
Contexts == {c \in Seq(Bytes) : Len(c) <= OBJECT_ID_LEN}

TcapParams ==
  [error : {"LEN", "TAG", "PRIMITIVE"}, primitive : Primitives \cup {"none"},
   transaction_id : Transactions \cup {NoTransaction}, appl_context : [1 .. OBJECT_ID_LEN -> Bytes]]

\* The zero that ends a title of twelve digits is the first byte of pc.
TitleOK == last.gt = "twelve digits" => called_pty.pc = 0

\* There is room in route_nodes, and no node is the empty entry.
LEMMA AtMostNine == MaxRoutes \in 1 .. 9 /\ NULL \notin Nodes /\ Fault \notin Nodes
BY RouteAssumption

\* What a search among routes that are all counted comes to.
LEMMA SearchFacts ==
  ASSUME RoutesOK, NEW matching \in SUBSET Nodes
  PROVE  /\ SearchRoutes(matching) \in Nodes \cup {NULL, Fault}
         /\ matching = Nodes =>
              SearchRoutes(matching) = IF route_nodes = <<>> THEN Fault ELSE route_nodes[1]
         /\ matching = {} /\ num_routes = Len(route_nodes) => SearchRoutes(matching) = Fault
<1> DEFINE indices == 1 .. num_routes + 1
           hits == {i \in indices : i > Len(route_nodes) \/ route_nodes[i] \in matching}
<1>1. /\ num_routes \in Nat /\ Len(route_nodes) \in Nat /\ num_routes <= Len(route_nodes)
      /\ \A i \in 1 .. Len(route_nodes) : route_nodes[i] \in Nodes
      /\ Len(route_nodes) = 0 <=> route_nodes = <<>>
  BY DEF RoutesOK
<1>2. SearchRoutes(matching) = IF hits = {} THEN NULL
                               ELSE IF Min(hits) > Len(route_nodes) THEN Fault
                               ELSE route_nodes[Min(hits)]
  BY DEF SearchRoutes, Search
<1>3. ASSUME hits # {}
      PROVE  /\ Min(hits) \in hits
             /\ \A i \in hits : Min(hits) <= i
  <2>1. \E i \in hits : \A j \in hits : i <= j
    <3>1. PICK n \in hits : TRUE
      BY <1>3
    <3>2. SUFFICES ASSUME \A i \in hits : \E j \in hits : ~(i <= j)
                   PROVE  FALSE
      OBVIOUS
    <3>3. \A i \in hits : i \in Int /\ 1 <= i /\ i <= 10
      BY <1>1, AtMostNine DEF RoutesOK
    <3>4. QED
      <4> HIDE DEF hits
      <4> QED BY <3>1, <3>2, <3>3
  <2>2. QED
    BY <2>1 DEF Min
<1>4. hits # {} => Min(hits) \in 1 .. num_routes + 1
  BY <1>3
<1>5. SearchRoutes(matching) \in Nodes \cup {NULL, Fault}
  BY <1>1, <1>2, <1>4
<1>6. ASSUME matching = Nodes
      PROVE  SearchRoutes(matching) = IF route_nodes = <<>> THEN Fault ELSE route_nodes[1]
  <2>1. 1 \in hits
    BY <1>1, <1>6
  <2>2. Min(hits) = 1
    BY <1>3, <2>1
  <2>3. QED
    BY <1>1, <1>2, <2>1, <2>2
<1>7. ASSUME matching = {}, num_routes = Len(route_nodes)
      PROVE  SearchRoutes(matching) = Fault
  <2>1. hits = {num_routes + 1}
    BY <1>1, <1>7
  <2>2. Min(hits) = num_routes + 1
    BY <1>3, <2>1
  <2>3. QED
    BY <1>1, <1>2, <1>7, <2>1, <2>2
<1>8. QED
  BY <1>5, <1>6, <1>7

\* Whatever point code a node has, to strcmp it is empty.
LEMMA PointCodesAreEmpty ==
  ASSUME NEW n \in Nodes
  PROVE  FirstByte(PointCode[n]) = 0
<1>1. PointCode[n] \in Nat /\ PointCode[n] < 16777216
  BY RouteAssumption
<1>2. PointCode[n] \div 16777216 = 0
  BY <1>1
<1>3. QED
  BY <1>2 DEF FirstByte

----------------------------------------------------------------------------
\* What is in a message, whichever program built it.
ReadAddresses == [routing_indicator : {"GT", "SSN"}, pc_present : BOOLEAN, pc : {0, 1},
                  ssn_present : BOOLEAN, ssn : Subsystems \cup {FirstPointer},
                  gt : GlobalTitles]

\* Every context the two programs write fits its field.
LEMMA ContextFacts ==
  /\ \A name, version \in Bytes : Context(name, version) \in Contexts
  /\ GatewayContext \in Contexts
  /\ \A c \in Acknowledged : c \in Contexts
<1>1. \A name, version \in Bytes : Context(name, version) \in Contexts
  BY DEF Context, Contexts, Bytes, OBJECT_ID_LEN
<1>2. GatewayContext \in Contexts
  BY DEF GatewayContext, Contexts, Bytes, OBJECT_ID_LEN
<1>3. 21 \in Bytes /\ 25 \in Bytes /\ 2 \in Bytes /\ 3 \in Bytes
  BY DEF Bytes
<1>4. QED
  BY <1>1, <1>2, <1>3 DEF Acknowledged

\* A context read over another has its own bytes, as far as it goes.
LEMMA CopiedFacts ==
  ASSUME NEW c \in Contexts, NEW old \in [1 .. OBJECT_ID_LEN -> Bytes]
  PROVE  /\ Copied(c, old) \in [1 .. OBJECT_ID_LEN -> Bytes]
         /\ \A i \in DOMAIN c : Copied(c, old)[i] = c[i]
<1>1. c \in Seq(Bytes) /\ Len(c) \in Nat /\ Len(c) <= OBJECT_ID_LEN /\ OBJECT_ID_LEN \in Nat
  BY DEF Contexts, OBJECT_ID_LEN
<1>2. \A i \in DOMAIN c : i \in 1 .. OBJECT_ID_LEN /\ i <= Len(c)
  BY <1>1
<1>3. \A i \in 1 .. OBJECT_ID_LEN : i <= Len(c) => c[i] \in Bytes
  BY <1>1
<1>4. QED
  BY <1>2, <1>3 DEF Copied

\* The checks of the parsers build on each other: MAP is read only behind a
\* dialogue whose transaction and context were.
LEMMA CheckedFacts ==
  ASSUME NEW t, t.primitive \in Primitives, t.context \in Contexts
  PROVE  LET c == Checked(t)
         IN  /\ c.primitive \in Primitives
             /\ c.context \in Contexts
             /\ c.map \in BOOLEAN
             /\ c.opcode \subseteq {"SRI", "MT", "MO"}
             /\ c.map => c.primitive # "CONTINUE" /\ c.takesTransaction /\ c.takesContext
<1> DEFINE c == Checked(t)
           expected == Expected(t.primitive)
<1>1. /\ c.primitive = t.primitive /\ c.context = t.context /\ c.map = ReadsMap(t)
      /\ c.takesTransaction = TakesTransaction(t) /\ c.takesContext = TakesContext(t)
      /\ c.opcode = IF "map_opcode" \in Fields(t.component) THEN Opcodes(t.component) ELSE {}
  BY DEF Checked
<1>2. c.opcode \subseteq {"SRI", "MT", "MO"}
  BY <1>1 DEF Opcodes
<1>3. ASSUME t.primitive # "CONTINUE"
      PROVE  Len(expected) \in Nat /\ Len(expected) > 0
  <2> DEFINE tags == {"DLG_PRTN", "DLG_REQ", "DLG_AS_ID", "TAG_FIELD0", "ASN1_TYPE",
                      "ASN2_TYPE", "TAG_FIELD1", "APPLN_CNTXT_NAME", "COMP_PORTN"}
  <2>1. Portion("ASN1_TYPE") \in Seq(tags) /\ Portion("ASN2_TYPE") \in Seq(tags)
    BY DEF Portion
  <2>2. CASE t.primitive = "BEGIN"
    <3>1. expected = <<"TX_ID">> \o Portion("ASN1_TYPE")
      BY <2>2 DEF Expected
    <3>2. QED
      BY <2>1, <3>1
  <2>3. CASE t.primitive = "END"
    <3>1. expected = <<"DEST_TX_ID">> \o Portion("ASN2_TYPE")
      BY <2>3 DEF Expected
    <3>2. QED
      BY <2>1, <3>1
  <2>4. QED
    BY <1>3, <2>2, <2>3 DEF Primitives
<1>4. ASSUME ReadsMap(t)
      PROVE  t.primitive # "CONTINUE" /\ TakesTransaction(t) /\ TakesContext(t)
  <2>1. t.primitive # "CONTINUE" /\ Accepted(expected, t.dialogue) = Len(expected)
    BY <1>4 DEF ReadsMap, WholeDialogue
  <2>2. Len(expected) \in Nat /\ Len(expected) > 0
    BY <1>3, <2>1
  <2>3. TakesTransaction(t)
    BY <2>1, <2>2 DEF TakesTransaction
  <2>4. TakesContext(t)
    BY <2>1, <2>2 DEF TakesContext
  <2>5. QED
    BY <2>1, <2>3, <2>4
<1>5. ReadsMap(t) \in BOOLEAN
  BY DEF ReadsMap
<1>6. QED
  BY <1>1, <1>2, <1>4, <1>5

\* A message carries an address, the id of a peer and a TCAP message as both
\* parsers check it.
LEMMA MessageFacts ==
  ASSUME NEW m \in Messages
  PROVE  /\ m.type \in {"UDT", "XUDT", "UDTS"}
         /\ m.trx \in Transactions
         /\ m.address \in ReadAddresses
         /\ \E t : /\ m.tcap = Checked(t)
                   /\ t.primitive \in Primitives /\ t.context \in Contexts
<1> USE DEF Message, ReadAddresses
<1>1. TitleAddress(0) = TitleAddress(0) /\ ServiceAddress \in ReadAddresses
  BY DEF ServiceAddress, GlobalTitles
<1>2. \A ssn \in Subsystems : TitleAddress(ssn) \in ReadAddresses
  BY DEF TitleAddress, GlobalTitles
<1>3. CASE m \in StackMessages
  <2>1. PICK type \in StackTypes, ssn \in Subsystems, trx \in Transactions :
               m = Message(type, "UDT", TitleAddress(ssn), tcap_frame(type), trx)
    BY <1>3 DEF StackMessages
  <2>2. tcap_frame(type).primitive \in Primitives /\ tcap_frame(type).context \in Contexts
    <3>1. 20 \in Bytes /\ 25 \in Bytes /\ 2 \in Bytes
      BY DEF Bytes
    <3>2. ContextOf(type) \in Contexts
      BY <3>1, ContextFacts DEF ContextOf
    <3>3. QED
      BY <3>2 DEF tcap_frame, Tcap, Primitives
  <2>3. QED
    BY <1>2, <2>1, <2>2
<1>4. CASE m \in SimulatorUnitdata
  <2>1. PICK t \in SimulatorMessages, trx \in Transactions :
               m = Message("simulator", "UDTS", ServiceAddress, t, trx)
    BY <1>4 DEF SimulatorUnitdata
  <2>2. t.primitive \in Primitives /\ t.context \in Contexts
    <3>1. /\ Context(20, 2) \in Contexts /\ Context(21, 2) \in Contexts
          /\ Context(25, 2) \in Contexts /\ GatewayContext \in Contexts
          /\ \A c \in Acknowledged : c \in Contexts
      BY ContextFacts DEF Bytes
    <3>2. QED
      BY <3>1 DEF SimulatorMessages, sri_SM_req, forward_sm_MO_packet, forward_sm_MT_packet,
           forward_sm_end_ack_packet, form_sri_ack, forward_sm_ack_packet_continue,
           alert_service_center_without_result, Tcap, Primitives
  <2>3. QED
    BY <1>1, <2>1, <2>2
<1>5. CASE m \in PeerMessages
  <2>1. CASE \E type \in {"UDT", "XUDT"}, a \in PeerAddresses, trx \in Transactions :
               m = Message("peer", type, a, form_sri_ack, trx)
    <3>1. PICK type \in {"UDT", "XUDT"}, a \in PeerAddresses, trx \in Transactions :
                 m = Message("peer", type, a, form_sri_ack, trx)
      BY <2>1
    <3>2. a \in ReadAddresses
      BY PeerAssumption DEF Addresses
    <3>3. form_sri_ack.primitive \in Primitives /\ form_sri_ack.context \in Contexts
      <4>1. Context(20, 2) \in Contexts
        BY ContextFacts DEF Bytes
      <4>2. QED
        BY <4>1 DEF form_sri_ack, Tcap, Primitives
    <3>4. QED
      BY <3>1, <3>2, <3>3
  <2>2. CASE \E ssn \in Subsystems, t \in PeerPayloads, trx \in Transactions :
               m = Message("peer", "UDT", TitleAddress(ssn), t, trx)
    <3>1. PICK ssn \in Subsystems, t \in PeerPayloads, trx \in Transactions :
                 m = Message("peer", "UDT", TitleAddress(ssn), t, trx)
      BY <2>2
    <3>2. t.primitive \in Primitives /\ t.context \in Contexts
      BY PeerAssumption DEF Contexts
    <3>3. QED
      BY <1>2, <3>1, <3>2
  <2>3. QED
    BY <1>5, <2>1, <2>2 DEF PeerMessages
<1>6. QED
  BY <1>3, <1>4, <1>5 DEF Messages

\* An address leaves the called party one that can be resolved.
LEMMA AddressedFacts ==
  ASSUME called_pty \in CalledParties, NEW a \in ReadAddresses
  PROVE  /\ Addressed(called_pty, a) \in CalledParties
         /\ a.gt = "twelve digits" => Addressed(called_pty, a).pc = 0
         /\ called_pty.pc_present => Addressed(called_pty, a).pc_present
         /\ called_pty.ssn_present => Addressed(called_pty, a).ssn_present
         /\ called_pty.gt_present => Addressed(called_pty, a).gt_present
BY DEF Addressed, CalledParties, ReadAddresses, GlobalTitles

----------------------------------------------------------------------------
\* What a resolution comes to: the node that was found for a point code of zero
\* is the first, and where all routes are counted there is no other end.
LEMMA ResolutionFacts ==
  ASSUME RoutesOK, NEW address \in CalledParties
  PROVE  LET r == Resolution(address)
         IN  /\ r.found \in Nodes \cup {NULL, Fault}
             /\ r.found \in Nodes => address.routing_indicator = "SSN"
             /\ address.routing_indicator = "SSN" /\ address.pc = 0 /\ route_nodes # <<>> =>
                  r.found = route_nodes[1]
             /\ num_routes = Len(route_nodes) =>
                  /\ r.result # "GT_UNRESOLVED"
                  /\ r.result = "ROUTE_RESOLVED" =>
                       route_nodes # <<>> /\ r.found = route_nodes[1]
<1> DEFINE matching(pc) == {n \in Nodes : pc = FirstByte(PointCode[n])}
           r == Resolution(address)
           node == resolve_pc(address.pc)
           other == resolve_ssn(address.ssn)
<1>1. /\ NULL \notin Nodes /\ Fault \notin Nodes /\ NULL # Fault
      /\ Fault # "ROUTE_RESOLVED" /\ Fault # "GT_UNRESOLVED"
  BY AtMostNine DEF NULL, Fault
<1>2. matching(0) = Nodes /\ matching(1) = {}
  BY PointCodesAreEmpty
<1>3. node = SearchRoutes(matching(address.pc)) /\ address.pc \in {0, 1}
  BY DEF resolve_pc, CalledParties
<1>4. node \in Nodes \cup {NULL, Fault}
  <2>1. matching(address.pc) \in SUBSET Nodes
    OBVIOUS
  <2>2. QED
    BY <1>3, <2>1, SearchFacts
<1>5. address.pc = 0 => node = IF route_nodes = <<>> THEN Fault ELSE route_nodes[1]
  <2>1. SearchRoutes(Nodes) = IF route_nodes = <<>> THEN Fault ELSE route_nodes[1]
    BY SearchFacts
  <2>2. QED
    BY <1>2, <1>3, <2>1
<1>6. address.pc = 1 /\ num_routes = Len(route_nodes) => node = Fault
  <2>1. num_routes = Len(route_nodes) => SearchRoutes({}) = Fault
    BY SearchFacts
  <2>2. QED
    BY <1>2, <1>3, <2>1
<1>7. other \in Nodes \cup {NULL, Fault}
  <2>1. {n \in Nodes : Ssn[n] = address.ssn} \in SUBSET Nodes
    OBVIOUS
  <2>2. QED
    BY <2>1, SearchFacts DEF resolve_ssn
<1>8. route_nodes # <<>> => route_nodes[1] \in Nodes
  BY DEF RoutesOK
<1>9. CASE address.routing_indicator = "GT"
  <2>1. r = Outcome("ROUTE_TYPE_ABSENT", NULL)
    BY <1>9 DEF Resolution
  <2>2. QED
    BY <1>1, <1>9, <2>1 DEF Outcome
<1>10. CASE address.routing_indicator = "SSN"
  <2>1. r = IF node # NULL THEN Outcome(IF node = Fault THEN Fault ELSE "ROUTE_RESOLVED", node)
            ELSE IF ~address.ssn_present THEN Outcome("ROUTE_RESOLVED", NULL)
            ELSE IF other = NULL THEN Outcome("GT_UNRESOLVED", NULL)
            ELSE Outcome(IF other = Fault THEN Fault ELSE "ROUTE_RESOLVED", other)
    BY <1>10 DEF Resolution, Unresolved
  <2> HIDE DEF r, node, other, matching
  <2>2. r.found \in Nodes \cup {NULL, Fault}
    BY <1>4, <1>7, <2>1 DEF Outcome
  <2>3. address.pc = 0 /\ route_nodes # <<>> => r.found = route_nodes[1]
    BY <1>1, <1>5, <1>8, <2>1 DEF Outcome
  <2>4. ASSUME num_routes = Len(route_nodes)
        PROVE  /\ node # NULL
               /\ node # Fault => route_nodes # <<>> /\ node = route_nodes[1]
    BY <1>1, <1>3, <1>5, <1>6, <1>8, <2>4
  <2>5. QED
    BY <1>1, <1>10, <2>1, <2>2, <2>3, <2>4 DEF Outcome, r
<1>11. QED
  BY <1>9, <1>10 DEF CalledParties

----------------------------------------------------------------------------
\* The inductive invariant: RoutesOK says what a search can meet, TitleOK what
\* the message analysed last left in the called party.
IInv == /\ ReceiverTypeOK
        /\ RoutesOK
        /\ TitleOK
        /\ OnlyTheFirst
        /\ TitleHidesPointCode
        /\ WholeDialogueIsItsOwn

\* At the start nothing is registered, read or asked.
LEMMA InitInductive == Init => IInv
<1> SUFFICES ASSUME Init
             PROVE  IInv
  OBVIOUS
<1>1. RoutesInit /\ found = NULL /\ result = NotAsked /\ NULL \notin Nodes
  BY AtMostNine DEF Init, RoutesInit
<1>2. RoutesOK
  <2>1. route_nodes = <<>> /\ num_routes = 0 /\ MaxRoutes \in Nat
    BY <1>1, AtMostNine DEF RoutesInit
  <2>2. QED
    BY <2>1 DEF RoutesOK
<1>3. called_pty \in CalledParties
  BY PeerAssumption DEF Init, CalledParties, Addresses
<1>4. ReceiverTypeOK
  <2>1. /\ tcap_param \in TcapParams
        /\ beside \in {NoOpcode, "SRI", "MT"}
        /\ read \in {"address", "part", "dialogue", "component"}
    BY DEF Init, TcapParams, Bytes
  <2>2. num_routes \in 0 .. Len(route_nodes) /\ Len(route_nodes) <= MaxRoutes
    BY <1>2 DEF RoutesOK
  <2>3. QED
    BY <1>1, <1>3, <2>1, <2>2 DEF ReceiverTypeOK, CalledParties, TcapParams
<1>5. TitleOK
  BY DEF TitleOK, Init
<1>6. OnlyTheFirst /\ TitleHidesPointCode
  BY <1>1 DEF OnlyTheFirst, TitleHidesPointCode, NotAsked
<1>7. WholeDialogueIsItsOwn
  BY DEF Init, WholeDialogueIsItsOwn
<1>8. QED
  BY <1>2, <1>4, <1>5, <1>6, <1>7 DEF IInv

\* What analysing a message changes of the TCAP part.
LEMMA AnalyzeTcap ==
  ASSUME IInv, NEW m \in Messages, sccp_analyze(m)
  PROVE  /\ tcap_param' \in TcapParams
         /\ beside' \in {NoOpcode, "SRI", "MT"}
         /\ read' \in {"address", "part", "dialogue", "component"}
         /\ WholeDialogueIsItsOwn'
         /\ tcap_param'.error # tcap_param.error => read' \in {"address", "part"}
<1>1. PICK t : m.tcap = Checked(t) /\ t.primitive \in Primitives /\ t.context \in Contexts
  BY MessageFacts
<1> DEFINE c == m.tcap
<1>2. /\ c.primitive \in Primitives
      /\ c.context \in Contexts
      /\ c.map \in BOOLEAN
      /\ c.opcode \subseteq {"SRI", "MT", "MO"}
      /\ c.map => c.primitive # "CONTINUE" /\ c.takesTransaction /\ c.takesContext
  BY <1>1, CheckedFacts
<1>3. c.map => c.dialogue
  <2>1. c.map = ReadsMap(t) /\ c.dialogue = WholeDialogue(t)
    BY <1>1 DEF Checked
  <2>2. ReadsMap(t) => WholeDialogue(t)
    BY DEF ReadsMap
  <2>3. QED
    BY <2>1, <2>2
<1>4. m.trx \in Transactions
  BY MessageFacts
<1>5. /\ last'.trx = m.trx /\ last'.context = c.context
      /\ \/ m.type = "UDT" /\ ReadTcap(c, m.trx)
         \/ NotTcap(m.type)
  BY DEF sccp_analyze
<1>6. /\ tcap_param \in TcapParams
      /\ beside \in {NoOpcode, "SRI", "MT"}
  BY DEF IInv, ReceiverTypeOK, TcapParams
<1> HIDE DEF c
<1>7. CASE NotTcap(m.type)
  <2>1. read' = "address" /\ beside' = beside
    BY <1>7 DEF NotTcap
  <2>2. \/ tcap_param' = [tcap_param EXCEPT !.error = "PRIMITIVE"]
        \/ \E p \in Primitives :
             tcap_param' = [tcap_param EXCEPT !.error = "TAG", !.primitive = p]
    BY <1>7 DEF NotTcap
  <2>3. QED
    BY <1>6, <2>1, <2>2 DEF WholeDialogueIsItsOwn, TcapParams
<1>8. CASE ReadTcap(c, m.trx)
  <2>1. tcap_param' = parse_tcap_message(c, m.trx, tcap_param)
    BY <1>8 DEF ReadTcap
  <2>2. tcap_param' = [error |-> ErrorOf(c, tcap_param.error), primitive |-> c.primitive,
                       transaction_id |-> IF c.takesTransaction THEN m.trx
                                          ELSE tcap_param.transaction_id,
                       appl_context |-> IF c.takesContext
                                        THEN Copied(c.context, tcap_param.appl_context)
                                        ELSE tcap_param.appl_context]
    BY <2>1 DEF parse_tcap_message
  <2>3. /\ ErrorOf(c, tcap_param.error) \in {"LEN", "TAG", "PRIMITIVE"}
        /\ Copied(c.context, tcap_param.appl_context) \in [1 .. OBJECT_ID_LEN -> Bytes]
        /\ \A i \in DOMAIN c.context :
             Copied(c.context, tcap_param.appl_context)[i] = c.context[i]
    <3>1. tcap_param.appl_context \in [1 .. OBJECT_ID_LEN -> Bytes]
      BY <1>6 DEF TcapParams
    <3>2. ErrorOf(c, tcap_param.error) \in {"LEN", "TAG", "PRIMITIVE"}
      BY <1>6 DEF ErrorOf, TcapParams
    <3>3. QED
      BY <1>2, <3>1, <3>2, CopiedFacts
  <2>4. tcap_param' \in TcapParams
    BY <1>2, <1>4, <1>6, <2>2, <2>3 DEF TcapParams
  <2>5. CASE c.map
    <3>1. read' \in {"component", "dialogue"} /\ parse_map_message(c)
      BY <1>8, <2>5 DEF ReadTcap
    <3>2. MapAfter(c.opcode, beside) \in {NoOpcode, "SRI", "MT"}
      BY <1>2, <1>6 DEF MapAfter, Recorded
    <3>3. beside' \in {beside, MapAfter(c.opcode, beside)}
      BY <3>1 DEF parse_map_message
    <3>4. ErrorOf(c, tcap_param.error) = tcap_param.error
      BY <1>3, <2>5 DEF ErrorOf
    <3>5. WholeDialogueIsItsOwn'
      BY <1>2, <1>5, <2>2, <2>3, <2>5 DEF WholeDialogueIsItsOwn, Primitives
    <3>6. QED
      BY <1>6, <2>2, <2>4, <3>1, <3>2, <3>3, <3>4, <3>5
  <2>6. CASE ~c.map
    <3>1. read' = "part" /\ beside' = beside
      BY <1>8, <2>6 DEF ReadTcap
    <3>2. QED
      BY <1>6, <2>4, <3>1 DEF WholeDialogueIsItsOwn
  <2>7. QED
    BY <1>2, <2>5, <2>6
<1>9. QED
  BY <1>5, <1>7, <1>8

\* sccp_analyze: the called party takes the address, and what was resolved before
\* is not asked of it.
LEMMA AnalyzeInductive == IInv /\ Analyze => IInv'
<1> SUFFICES ASSUME IInv, NEW m \in Messages, sccp_analyze(m)
             PROVE  IInv'
  BY DEF Analyze
<1>1. UNCHANGED <<route_nodes, num_routes>> /\ result' = NotAsked /\ found' = NULL
  BY DEF sccp_analyze, Forget
<1>2. m.address \in ReadAddresses
  BY MessageFacts
<1>3. called_pty \in CalledParties
  BY DEF IInv, ReceiverTypeOK, CalledParties
<1>4. called_pty' \in CalledParties
  BY <1>2, <1>3, AddressedFacts DEF sccp_analyze
<1>5. RoutesOK' /\ num_routes' \in 0 .. Len(route_nodes') /\ Len(route_nodes') <= MaxRoutes
  BY <1>1 DEF IInv, RoutesOK
<1>6. ReceiverTypeOK'
  BY <1>1, <1>4, <1>5, AnalyzeTcap DEF ReceiverTypeOK, CalledParties, TcapParams
<1>7. TitleOK'
  <2>1. called_pty' = Addressed(called_pty, m.address)
    BY DEF sccp_analyze
  <2>2. last'.gt = "twelve digits" => m.address.gt = "twelve digits"
    BY DEF sccp_analyze
  <2>3. QED
    BY <1>2, <1>3, <2>1, <2>2, AddressedFacts DEF TitleOK
<1>8. OnlyTheFirst' /\ TitleHidesPointCode'
  BY <1>1, AtMostNine DEF OnlyTheFirst, TitleHidesPointCode, NotAsked
<1>9. QED
  BY <1>5, <1>6, <1>7, <1>8, AnalyzeTcap DEF IInv

\* resolve_route, with the routes that are counted at that moment.
LEMMA ResolveInductive == IInv /\ Resolve => IInv'
<1> SUFFICES ASSUME IInv, Resolve
             PROVE  IInv'
  OBVIOUS
<1> DEFINE r == Resolution(called_pty)
<1>1. /\ UNCHANGED <<route_nodes, num_routes, received>>
      /\ result' = r.result /\ found' = r.found
  BY DEF Resolve, resolve_route
<1>2. called_pty \in CalledParties /\ RoutesOK
  BY DEF IInv, ReceiverTypeOK, CalledParties
<1>3. /\ r.found \in Nodes \cup {NULL, Fault}
      /\ r.found \in Nodes => called_pty.routing_indicator = "SSN"
      /\ called_pty.routing_indicator = "SSN" /\ called_pty.pc = 0 /\ route_nodes # <<>> =>
           r.found = route_nodes[1]
      /\ num_routes = Len(route_nodes) =>
           /\ r.result # "GT_UNRESOLVED"
           /\ r.result = "ROUTE_RESOLVED" => route_nodes # <<>> /\ r.found = route_nodes[1]
  BY <1>2, ResolutionFacts
<1> HIDE DEF r
<1>4. ReceiverTypeOK' /\ RoutesOK'
  BY <1>1, <1>3 DEF IInv, ReceiverTypeOK, RoutesOK, received
<1>5. TitleOK' /\ WholeDialogueIsItsOwn'
  BY <1>1 DEF IInv, TitleOK, WholeDialogueIsItsOwn, received
<1>6. OnlyTheFirst'
  BY <1>1, <1>3 DEF OnlyTheFirst, received
<1>7. TitleHidesPointCode'
  BY <1>1, <1>3 DEF IInv, TitleOK, TitleHidesPointCode, received
<1>8. QED
  BY <1>4, <1>5, <1>6, <1>7 DEF IInv

\* Either statement of register_route.
LEMMA RegisterInductive == IInv /\ Register => IInv'
<1> SUFFICES ASSUME IInv, Register
             PROVE  IInv'
  OBVIOUS
<1>1. /\ UNCHANGED received
      /\ result' = NotAsked /\ found' = NULL
  BY DEF Register, RegisterCount, RegisterStore, Forget
<1>2. RoutesOK
  BY DEF IInv
<1>3. RoutesOK'
  <2>1. CASE RegisterCount
    BY <1>2, <2>1 DEF RoutesOK, RegisterCount
  <2>2. CASE \E n \in Nodes : RegisterStore(n)
    <3>1. PICK n \in Nodes : RegisterStore(n)
      BY <2>2
    <3>2. /\ route_nodes' \in Seq(Nodes) /\ Len(route_nodes') = Len(route_nodes) + 1
          /\ num_routes' = num_routes /\ num_routes = Len(route_nodes) /\ num_routes < MaxRoutes
      BY <1>2, <3>1 DEF RoutesOK, RegisterStore
    <3>3. QED
      BY <1>2, <3>2, AtMostNine DEF RoutesOK
  <2>3. QED
    BY <2>1, <2>2 DEF Register
<1>4. ReceiverTypeOK'
  <2>1. num_routes' \in 0 .. Len(route_nodes') /\ Len(route_nodes') <= MaxRoutes
    BY <1>3 DEF RoutesOK
  <2>2. QED
    BY <1>1, <2>1 DEF IInv, ReceiverTypeOK, received
<1>5. TitleOK' /\ WholeDialogueIsItsOwn'
  BY <1>1 DEF IInv, TitleOK, WholeDialogueIsItsOwn, received
<1>6. OnlyTheFirst' /\ TitleHidesPointCode'
  BY <1>1, AtMostNine DEF OnlyTheFirst, TitleHidesPointCode, NotAsked
<1>7. QED
  BY <1>3, <1>4, <1>5, <1>6 DEF IInv

\* A call without an address, and a step of nobody.
LEMMA NothingInductive == IInv /\ (ResolveNothing \/ UNCHANGED vars) => IInv'
<1>1. ASSUME IInv, ResolveNothing
      PROVE  IInv'
  <2>1. /\ UNCHANGED <<route_nodes, num_routes, received>>
        /\ result' = "INVALID_PTR" /\ found' = NULL
    BY <1>1 DEF ResolveNothing, resolve_nothing
  <2>2. ReceiverTypeOK' /\ RoutesOK'
    BY <1>1, <2>1 DEF IInv, ReceiverTypeOK, RoutesOK, received
  <2>3. TitleOK' /\ WholeDialogueIsItsOwn'
    BY <1>1, <2>1 DEF IInv, TitleOK, WholeDialogueIsItsOwn, received
  <2>4. OnlyTheFirst' /\ TitleHidesPointCode'
    BY <2>1, AtMostNine DEF OnlyTheFirst, TitleHidesPointCode
  <2>5. QED
    BY <2>2, <2>3, <2>4 DEF IInv
<1>2. ASSUME IInv, UNCHANGED vars
      PROVE  IInv'
  <2>1. UNCHANGED <<route_nodes, num_routes, result, found, received>>
    BY <1>2 DEF vars, routes
  <2>2. ReceiverTypeOK' /\ RoutesOK'
    BY <1>2, <2>1 DEF IInv, ReceiverTypeOK, RoutesOK, received
  <2>3. TitleOK' /\ WholeDialogueIsItsOwn'
    BY <1>2, <2>1 DEF IInv, TitleOK, WholeDialogueIsItsOwn, received
  <2>4. OnlyTheFirst' /\ TitleHidesPointCode'
    BY <1>2, <2>1 DEF IInv, OnlyTheFirst, TitleHidesPointCode, received
  <2>5. QED
    BY <2>2, <2>3, <2>4 DEF IInv
<1>3. QED
  BY <1>1, <1>2

\* The inductive invariant holds for any nodes, addresses and payloads.
THEOREM Invariant == Spec => []IInv
<1>1. IInv /\ [Next]_vars => IInv'
  BY AnalyzeInductive, ResolveInductive, RegisterInductive, NothingInductive DEF Next
<1>2. QED
  BY <1>1, InitInductive, PTL DEF Spec

\* Every part of the sccp_params that is read into again and again keeps its type,
\* the numbers of routes theirs.
THEOREM ReceiverTypeCorrect == Spec => []ReceiverTypeOK
<1>1. IInv => ReceiverTypeOK
  BY DEF IInv
<1>2. QED
  BY <1>1, Invariant, PTL

\* resolve_route finds the first node registered or follows the empty entry, for
\* any nodes with any point codes: it never reports GT_UNRESOLVED.
THEOREM ResolvesToTheFirst == Spec => []OnlyTheFirst
<1>1. IInv => OnlyTheFirst
  BY DEF IInv
<1>2. QED
  BY <1>1, Invariant, PTL

\* A global title of twelve digits makes the first node the answer, whatever point
\* code came with it or before it (sccp.c:281).
THEOREM TitleDecides == Spec => []TitleHidesPointCode
<1>1. IInv => TitleHidesPointCode
  BY DEF IInv
<1>2. QED
  BY <1>1, Invariant, PTL

\* A dialogue read to its end has the transaction of its own message and every
\* byte of its context, although tcap_param is never cleared.
THEOREM DialogueIsItsOwn == Spec => []WholeDialogueIsItsOwn
<1>1. IInv => WholeDialogueIsItsOwn
  BY DEF IInv
<1>2. QED
  BY <1>1, Invariant, PTL

\* No message takes a presence flag back, and the error changes only with a message
\* that is not read to the end of its dialogue.
THEOREM KeepsWhatItHad == Spec => NothingTakenBack
<1> DEFINE step == /\ called_pty.pc_present => called_pty'.pc_present
                   /\ called_pty.ssn_present => called_pty'.ssn_present
                   /\ called_pty.gt_present => called_pty'.gt_present
                   /\ tcap_param'.error # tcap_param.error => read' \in {"address", "part"}
<1>1. ASSUME IInv, Analyze
      PROVE  step
  <2>1. PICK m \in Messages : sccp_analyze(m)
    BY <1>1 DEF Analyze
  <2>2. called_pty' = Addressed(called_pty, m.address)
    BY <2>1 DEF sccp_analyze
  <2>3. called_pty \in CalledParties /\ m.address \in ReadAddresses
    BY <1>1, MessageFacts DEF IInv, ReceiverTypeOK, CalledParties
  <2>4. /\ called_pty.pc_present => called_pty'.pc_present
        /\ called_pty.ssn_present => called_pty'.ssn_present
        /\ called_pty.gt_present => called_pty'.gt_present
    BY <2>2, <2>3, AddressedFacts
  <2>5. tcap_param'.error # tcap_param.error => read' \in {"address", "part"}
    BY <1>1, <2>1, AnalyzeTcap
  <2>6. QED
    BY <2>4, <2>5
<1>2. Resolve \/ ResolveNothing \/ Register \/ UNCHANGED vars => step
  <2>1. Resolve \/ ResolveNothing \/ Register \/ UNCHANGED vars => UNCHANGED received
    BY DEF Resolve, ResolveNothing, Register, vars
  <2>2. UNCHANGED received => step
    BY DEF received
  <2>3. QED
    BY <2>1, <2>2
<1>3. IInv /\ [Next]_vars => [step]_vars
  BY <1>1, <1>2 DEF Next
<1>4. QED
  BY <1>3, Invariant, PTL DEF Spec, NothingTakenBack
----------------------------------------------------------------------------
(* How far a message is read. *)

\* No message and no component has more tags than this.
MaxTags == 9

\* Accepted counts the tags that agree from the first on, and no fewer.
LEMMA AcceptedFacts ==
  ASSUME NEW S, NEW expected \in Seq(S), Len(expected) <= MaxTags,
         NEW T, NEW carried \in Seq(T)
  PROVE  LET k == Accepted(expected, carried)
         IN  /\ k \in 0 .. Len(expected)
             /\ k <= Len(carried)
             /\ \A i \in 1 .. k : carried[i] = expected[i]
             /\ \A n \in 0 .. Len(expected) :
                  n <= Len(carried) /\ (\A i \in 1 .. n : carried[i] = expected[i]) => n <= k
<1> DEFINE agrees == {n \in 0 .. Len(expected) :
                        n <= Len(carried) /\ \A i \in 1 .. n : carried[i] = expected[i]}
<1>1. Len(expected) \in 0 .. MaxTags /\ Len(carried) \in Nat
  OBVIOUS
<1>2. 0 \in agrees /\ \A n \in agrees : n \in Int /\ 0 <= n /\ n <= 9
  BY <1>1 DEF MaxTags
<1>3. \E n \in agrees : \A m \in agrees : n >= m
  <2> HIDE DEF agrees
  <2>1. SUFFICES ASSUME \A n \in agrees : \E m \in agrees : m >= n + 1
                 PROVE  FALSE
    BY <1>2
  <2>2. \E n \in agrees : n >= 2
    BY <1>2, <2>1
  <2>3. \E n \in agrees : n >= 4
    BY <1>2, <2>1, <2>2
  <2>4. \E n \in agrees : n >= 6
    BY <1>2, <2>1, <2>3
  <2>5. \E n \in agrees : n >= 8
    BY <1>2, <2>1, <2>4
  <2>6. QED
    BY <1>2, <2>1, <2>5
<1>4. Max(agrees) \in agrees /\ \A m \in agrees : Max(agrees) >= m
  BY <1>3 DEF Max
<1>5. Accepted(expected, carried) = Max(agrees)
  BY DEF Accepted
<1>6. QED
  BY <1>1, <1>4, <1>5

\* A sequence agrees with itself to its end.
LEMMA AcceptedWhole ==
  ASSUME NEW S, NEW s \in Seq(S), Len(s) <= MaxTags
  PROVE  Accepted(s, s) = Len(s)
<1>1. Len(s) \in Nat /\ Len(s) \in 0 .. Len(s)
  OBVIOUS
<1>2. Accepted(s, s) \in 0 .. Len(s)
  BY AcceptedFacts
<1>3. Len(s) <= Accepted(s, s)
  <2>1. \A n \in 0 .. Len(s) :
          n <= Len(s) /\ (\A i \in 1 .. n : s[i] = s[i]) => n <= Accepted(s, s)
    BY AcceptedFacts
  <2>2. QED
    BY <1>1, <2>1
<1>4. QED
  BY <1>1, <1>2, <1>3

\* A header of three and what stands behind it, in one sequence.
LEMMA ThreeAndFive ==
  ASSUME NEW x, NEW y, NEW z, NEW a, NEW b, NEW c, NEW d, NEW e
  PROVE  <<x, y, z>> \o <<a, b, c, d, e>> = <<x, y, z, a, b, c, d, e>>
<1> DEFINE S == {x, y, z, a, b, c, d, e}
           h == <<x, y, z>>
           t == <<a, b, c, d, e>>
           r == <<x, y, z, a, b, c, d, e>>
<1>1. h \in Seq(S) /\ Len(h) = 3 /\ h[1] = r[1] /\ h[2] = r[2] /\ h[3] = r[3]
  OBVIOUS
<1>2. t \in Seq(S) /\ Len(t) = 5
      /\ t[1] = r[4] /\ t[2] = r[5] /\ t[3] = r[6] /\ t[4] = r[7] /\ t[5] = r[8]
  OBVIOUS
<1>3. r \in Seq(S) /\ Len(r) = 8
  OBVIOUS
<1> HIDE DEF S, h, t, r
<1>4. /\ h \o t \in Seq(S) /\ Len(h \o t) = Len(h) + Len(t)
      /\ \A i \in 1 .. Len(h) + Len(t) :
           (h \o t)[i] = IF i <= Len(h) THEN h[i] ELSE t[i - Len(h)]
  BY <1>1, <1>2, ConcatProperties
<1>5. Len(h \o t) = 8 /\ \A i \in 1 .. 8 : (h \o t)[i] = r[i]
  <2> DEFINE u == h \o t
  <2>1. Len(u) = 8 /\ \A i \in 1 .. 8 : u[i] = IF i <= 3 THEN h[i] ELSE t[i - 3]
    BY <1>1, <1>2, <1>4
  <2> HIDE DEF u
  <2>2. u[1] = h[1] /\ u[2] = h[2] /\ u[3] = h[3]
    BY <2>1
  <2>3. u[4] = t[1] /\ u[5] = t[2] /\ u[6] = t[3] /\ u[7] = t[4] /\ u[8] = t[5]
    BY <2>1
  <2>4. \A i \in 1 .. 8 : i \in {1, 2, 3, 4, 5, 6, 7, 8}
    OBVIOUS
  <2>5. \A i \in 1 .. 8 : u[i] = r[i]
    BY <1>1, <1>2, <2>2, <2>3, <2>4
  <2>6. QED
    BY <2>1, <2>5 DEF u
<1>6. h \o t = r
  BY <1>3, <1>4, <1>5, SeqEqual
<1>7. QED
  BY <1>6 DEF h, t, r

\* The component of an invoke, and its opcode behind the header.
LEMMA Invoke ==
  ASSUME NEW a, NEW b, NEW c, NEW d, NEW e
  PROVE  /\ Header \o <<a, b, c, d, e>> =
              <<Tag("MAP_HDR"), Tag("INVOKE_ID"), Tag("OPCODE"), a, b, c, d, e>>
         /\ Len(Header \o <<a, b, c, d, e>>) = 8
         /\ (Header \o <<a, b, c, d, e>>)[4] = a
<1>1. Header \o <<a, b, c, d, e>> =
        <<Tag("MAP_HDR"), Tag("INVOKE_ID"), Tag("OPCODE"), a, b, c, d, e>>
  BY ThreeAndFive DEF Header
<1>2. \A x, y, z : Len(<<x, y, z, a, b, c, d, e>>) = 8 /\ <<x, y, z, a, b, c, d, e>>[4] = a
  OBVIOUS
<1>3. QED
  BY <1>1, <1>2

\* A tag list has a tag for each element.
LEMMA TagsOfEight ==
  ASSUME NEW a, NEW b, NEW c, NEW d, NEW e, NEW f, NEW g, NEW h
  PROVE  Tags(<<a, b, c, d, e, f, g, h>>) =
           <<a.tag, b.tag, c.tag, d.tag, e.tag, f.tag, g.tag, h.tag>>
  BY DEF Tags

\* The tags of the components.
TagNames == {"MAP_HDR", "INVOKE_ID", "OPCODE", "SRI", "CONSTRUCTOR", "SRI_MSISDN", "PARAMETER_2",
             "SERVICE_CENTER_ADDR", "MT", "IMSI", "MSISDN", "SMS_PDU", "MO", "SVC_CENTR_ADDR",
             "DLG_RESULT", "ASN_1_TYPE"}

\* The tags of the branches parse_map_message has.
LEMMA KnownTags ==
  /\ Tags(SriInvoke) = <<"MAP_HDR", "INVOKE_ID", "OPCODE", "SRI", "CONSTRUCTOR", "SRI_MSISDN",
                         "PARAMETER_2", "SERVICE_CENTER_ADDR">>
  /\ Tags(MtInvoke) = <<"MAP_HDR", "INVOKE_ID", "OPCODE", "MT", "CONSTRUCTOR", "IMSI", "MSISDN",
                        "SMS_PDU">>
  /\ Tags(MoInvoke) = <<"MAP_HDR", "INVOKE_ID", "OPCODE", "MO", "CONSTRUCTOR", "SVC_CENTR_ADDR",
                        "MSISDN", "SMS_PDU">>
  /\ Tags(SriResult) = <<"DLG_RESULT", "INVOKE_ID", "CONSTRUCTOR", "OPCODE", "SRI", "CONSTRUCTOR",
                         "SMS_PDU", "ASN_1_TYPE", "PARAMETER_2">>
<1>1. SriInvoke = <<Tag("MAP_HDR"), Tag("INVOKE_ID"), Tag("OPCODE"), Value("SRI", {"map_opcode"}),
                    Tag("CONSTRUCTOR"), Value("SRI_MSISDN", {"msisdn_to_HLR"}), Tag("PARAMETER_2"),
                    Value("SERVICE_CENTER_ADDR", {"service_centre_address"})>>
  BY Invoke DEF SriInvoke
<1>2. MtInvoke = <<Tag("MAP_HDR"), Tag("INVOKE_ID"), Tag("OPCODE"), Value("MT", {"map_opcode"}),
                   Tag("CONSTRUCTOR"), Value("IMSI", {"IMSI_Receiver"}),
                   Value("MSISDN", {"MSISDN_SMSC"}),
                   Value("SMS_PDU", {"MSISDN_sender", "sms_data"})>>
  BY Invoke DEF MtInvoke
<1>3. MoInvoke = <<Tag("MAP_HDR"), Tag("INVOKE_ID"), Tag("OPCODE"), Value("MO", {"map_opcode"}),
                   Tag("CONSTRUCTOR"), Value("SVC_CENTR_ADDR", {"MSISDN_SMSC"}),
                   Value("MSISDN", {"MSISDN_Sender"}),
                   Value("SMS_PDU", {"MSISDN_receiver", "sms_data"})>>
  BY Invoke DEF MoInvoke
<1>4. Tags(SriInvoke) = <<"MAP_HDR", "INVOKE_ID", "OPCODE", "SRI", "CONSTRUCTOR", "SRI_MSISDN",
                          "PARAMETER_2", "SERVICE_CENTER_ADDR">>
  BY <1>1, TagsOfEight DEF Tag, Value
<1>5. Tags(MtInvoke) = <<"MAP_HDR", "INVOKE_ID", "OPCODE", "MT", "CONSTRUCTOR", "IMSI", "MSISDN",
                         "SMS_PDU">>
  BY <1>2, TagsOfEight DEF Tag, Value
<1>6. Tags(MoInvoke) = <<"MAP_HDR", "INVOKE_ID", "OPCODE", "MO", "CONSTRUCTOR", "SVC_CENTR_ADDR",
                         "MSISDN", "SMS_PDU">>
  BY <1>3, TagsOfEight DEF Tag, Value
<1>7. Tags(SriResult) = <<"DLG_RESULT", "INVOKE_ID", "CONSTRUCTOR", "OPCODE", "SRI", "CONSTRUCTOR",
                          "SMS_PDU", "ASN_1_TYPE", "PARAMETER_2">>
  BY DEF Tags, SriResult, Tag, Value
<1>8. QED
  BY <1>4, <1>5, <1>6, <1>7

\* Every branch has eight or nine tags.
LEMMA KnownFacts ==
  ASSUME NEW b \in Known
  PROVE  /\ Tags(b) \in Seq(TagNames)
         /\ Len(b) \in 8 .. MaxTags /\ Len(Tags(b)) = Len(b)
<1>1. CASE b \in {SriInvoke, MtInvoke, MoInvoke}
  <2>1. Tags(b) \in Seq(TagNames) /\ Len(Tags(b)) = 8
    <3>1. CASE b = SriInvoke
      BY <3>1, KnownTags DEF TagNames
    <3>2. CASE b = MtInvoke
      BY <3>2, KnownTags DEF TagNames
    <3>3. CASE b = MoInvoke
      BY <3>3, KnownTags DEF TagNames
    <3>4. QED
      BY <1>1, <3>1, <3>2, <3>3
  <2>2. Len(b) = 8
    <3>1. CASE b = SriInvoke
      BY <3>1, Invoke DEF SriInvoke
    <3>2. CASE b = MtInvoke
      BY <3>2, Invoke DEF MtInvoke
    <3>3. CASE b = MoInvoke
      BY <3>3, Invoke DEF MoInvoke
    <3>4. QED
      BY <1>1, <3>1, <3>2, <3>3
  <2>3. QED
    BY <2>1, <2>2 DEF MaxTags
<1>2. CASE b = SriResult
  <2>1. Tags(b) \in Seq(TagNames) /\ Len(Tags(b)) = 9
    BY <1>2, KnownTags DEF TagNames
  <2>2. Len(b) = 9
    BY <1>2 DEF SriResult
  <2>3. QED
    BY <2>1, <2>2 DEF MaxTags
<1>3. QED
  BY <1>1, <1>2 DEF Known

\* parse_map_message takes a branch that agrees with no less than any other.
LEMMA BranchFacts ==
  ASSUME NEW T, NEW component \in Seq(T)
  PROVE  /\ Branch(component) \in Known
         /\ \A c \in Known : Accepted(Tags(c), component) <= MapAccepted(component)
         /\ MapAccepted(component) \in 0 .. Len(Branch(component))
<1> DEFINE accepted(b) == Accepted(Tags(b), component)
<1>1. \A b \in Known : accepted(b) \in 0 .. Len(b)
  BY KnownFacts, AcceptedFacts
<1>2. \A b \in Known : accepted(b) \in Nat
  BY <1>1, KnownFacts
<1> HIDE DEF accepted
<1>3. \E b \in Known : \A c \in Known : accepted(c) <= accepted(b)
  BY <1>2 DEF Known
<1>4. Branch(component) = CHOOSE b \in Known : \A c \in Known : accepted(c) <= accepted(b)
  BY DEF Branch, accepted
<1>5. /\ Branch(component) \in Known
      /\ \A c \in Known : accepted(c) <= accepted(Branch(component))
  BY <1>3, <1>4
<1>6. MapAccepted(component) = accepted(Branch(component))
  BY DEF MapAccepted, accepted
<1>7. QED
  BY <1>1, <1>5, <1>6 DEF accepted

\* The dialogue of a message: nine tags, the sixth the type of the portion.
DialogueTags == {"TX_ID", "DEST_TX_ID", "DLG_PRTN", "DLG_REQ", "DLG_AS_ID", "TAG_FIELD0",
                 "ASN1_TYPE", "ASN2_TYPE", "TAG_FIELD1", "APPLN_CNTXT_NAME", "COMP_PORTN"}

\* The expected tags of a dialogue are those its builder writes, one by one.
LEMMA DialogueFacts ==
  ASSUME NEW id \in {"TX_ID", "DEST_TX_ID"}, NEW asn \in {"ASN1_TYPE", "ASN2_TYPE"}
  PROVE  /\ <<id>> \o Portion(asn) \in Seq(DialogueTags)
         /\ Len(<<id>> \o Portion(asn)) = 9
         /\ (<<id>> \o Portion(asn))[6] = asn
<1>1. /\ Portion(asn) \in Seq(DialogueTags) /\ Len(Portion(asn)) = 8
      /\ Portion(asn)[5] = asn
  BY DEF Portion, DialogueTags
<1>2. <<id>> \in Seq(DialogueTags) /\ Len(<<id>>) = 1
  BY DEF DialogueTags
<1> DEFINE p == Portion(asn)
           h == <<id>>
<1> HIDE DEF p, h
<1>3. h \o p \in Seq(DialogueTags) /\ Len(h \o p) = 9 /\ (h \o p)[6] = p[5]
  <2>1. p \in Seq(DialogueTags) /\ Len(p) = 8 /\ h \in Seq(DialogueTags) /\ Len(h) = 1
    BY <1>1, <1>2 DEF p, h
  <2>2. /\ h \o p \in Seq(DialogueTags) /\ Len(h \o p) = Len(h) + Len(p)
        /\ \A i \in 1 .. Len(h) + Len(p) :
             (h \o p)[i] = IF i <= Len(h) THEN h[i] ELSE p[i - Len(h)]
    BY <2>1, ConcatProperties
  <2>3. QED
    BY <2>1, <2>2
<1>4. QED
  BY <1>1, <1>3 DEF p, h

\* The parser finds the dialogue of a request of the stack whole, and in that of
\* a response the type it expects of a request.
LEMMA FrameFacts ==
  ASSUME NEW type \in StackTypes
  PROVE  /\ ReadsMap(tcap_frame(type)) <=> type \in StackRequests
         /\ tcap_frame(type).component = gsm_map_frame[type]
<1> DEFINE t == tcap_frame(type)
<1>1. t.component = gsm_map_frame[type] /\ t.parts = 1
  BY DEF tcap_frame, Tcap
<1>2. CASE type \in StackRequests
  <2> DEFINE d == <<"TX_ID">> \o Portion("ASN1_TYPE")
  <2>1. t.primitive = "BEGIN" /\ t.dialogue = d /\ Expected("BEGIN") = d
    BY <1>2 DEF tcap_frame, Tcap, Expected
  <2>2. d \in Seq(DialogueTags) /\ Len(d) = 9
    BY DialogueFacts
  <2> HIDE DEF d, t
  <2>3. Accepted(d, d) = Len(d)
    <3>1. Len(d) <= MaxTags
      BY <2>2 DEF MaxTags
    <3>2. QED
      BY <2>2, <3>1, AcceptedWhole
  <2>4. QED
    BY <1>1, <1>2, <2>1, <2>3 DEF ReadsMap, WholeDialogue, OneComponent, t
<1>3. CASE type \notin StackRequests
  <2> DEFINE d == <<"DEST_TX_ID">> \o Portion("ASN1_TYPE")
             e == <<"DEST_TX_ID">> \o Portion("ASN2_TYPE")
  <2>1. t.primitive = "END" /\ t.dialogue = d /\ Expected("END") = e
    BY <1>3 DEF tcap_frame, Tcap, Expected
  <2>2. /\ d \in Seq(DialogueTags) /\ Len(d) = 9 /\ d[6] = "ASN1_TYPE"
        /\ e \in Seq(DialogueTags) /\ Len(e) = 9 /\ e[6] = "ASN2_TYPE"
    BY DialogueFacts
  <2> HIDE DEF d, e, t
  <2>3. \A i \in 1 .. Accepted(e, d) : d[i] = e[i]
    <3>1. Len(e) <= MaxTags
      BY <2>2 DEF MaxTags
    <3>2. QED
      BY <2>2, <3>1, AcceptedFacts
  <2>4. Accepted(e, d) # Len(e)
    BY <2>2, <2>3
  <2>5. QED
    BY <1>1, <1>3, <2>1, <2>4 DEF ReadsMap, WholeDialogue, t
<1>4. QED
  BY <1>1, <1>2, <1>3

\* An MT of the stack has the tag of a service centre before its PDU.
LEMMA StackMt ==
  mt_forward_req = <<"MAP_HDR", "INVOKE_ID", "OPCODE", "MT", "CONSTRUCTOR", "IMSI",
                     "SVC_CENTR_ADDR", "SMS_PDU">>
<1>1. Tags(Header) = <<"MAP_HDR", "INVOKE_ID", "OPCODE">>
  BY DEF Tags, Header, Tag
<1>2. QED
  BY <1>1, ThreeAndFive DEF mt_forward_req

\* MAP reads an SRI and an MO of the stack to their ends, an MT until its number.
LEMMA ComponentFacts ==
  /\ WholeMap(gsm_map_frame["SRI_REQ"])
  /\ WholeMap(gsm_map_frame["MO_REQ"])
  /\ ~WholeMap(gsm_map_frame["MT_REQ"])
<1> DEFINE mt == <<"MAP_HDR", "INVOKE_ID", "OPCODE", "MT", "CONSTRUCTOR", "IMSI",
                   "SVC_CENTR_ADDR", "SMS_PDU">>
<1>1. /\ gsm_map_frame["SRI_REQ"] = Tags(SriInvoke)
      /\ gsm_map_frame["MO_REQ"] = Tags(MoInvoke)
  BY DEF gsm_map_frame, mo_sri_req, mo_forward_req
<1>2. gsm_map_frame["MT_REQ"] = mt
  BY StackMt DEF gsm_map_frame
<1>3. ASSUME NEW c \in {SriInvoke, MoInvoke}
      PROVE  WholeMap(Tags(c))
  <2> DEFINE b == Branch(Tags(c))
  <2>1. c \in Known /\ Tags(c) \in Seq(TagNames) /\ Len(Tags(c)) = 8 /\ Len(c) = 8
    <3>1. CASE c = SriInvoke
      BY <3>1, KnownTags, KnownFacts DEF Known
    <3>2. CASE c = MoInvoke
      BY <3>2, KnownTags, KnownFacts DEF Known
    <3>3. QED
      BY <3>1, <3>2
  <2>2. Accepted(Tags(c), Tags(c)) = 8
    <3>1. Len(Tags(c)) <= MaxTags
      BY <2>1 DEF MaxTags
    <3>2. QED
      BY <2>1, <3>1, AcceptedWhole
  <2>3. /\ b \in Known /\ MapAccepted(Tags(c)) = Accepted(Tags(b), Tags(c))
        /\ MapAccepted(Tags(c)) >= 8
    BY <2>1, <2>2, BranchFacts DEF MapAccepted
  <2> HIDE DEF b
  <2>4. b # SriResult
    <3>1. SUFFICES ASSUME b = SriResult
                   PROVE  FALSE
      OBVIOUS
    <3>2. Tags(c)[1] = Tags(b)[1]
      BY <2>1, <2>3, KnownFacts, AcceptedFacts
    <3>3. Tags(b)[1] = "DLG_RESULT"
      BY <3>1, KnownTags
    <3>4. Tags(c)[1] = "MAP_HDR"
      BY KnownTags
    <3>5. QED
      BY <3>2, <3>3, <3>4
  <2>5. Len(b) = 8 /\ MapAccepted(Tags(c)) \in 0 .. Len(b)
    <3>1. b \in {SriInvoke, MtInvoke, MoInvoke}
      BY <2>3, <2>4 DEF Known
    <3>2. Len(Tags(b)) = 8
      <4>1. Len(Tags(SriInvoke)) = 8 /\ Len(Tags(MtInvoke)) = 8 /\ Len(Tags(MoInvoke)) = 8
        BY KnownTags
      <4>2. QED
        BY <3>1, <4>1
    <3>3. QED
      BY <2>1, <2>3, <3>2, KnownFacts, BranchFacts DEF b
  <2>6. QED
    BY <2>3, <2>5 DEF WholeMap, b
<1>4. ~WholeMap(mt)
  <2> DEFINE b == Branch(mt)
  <2>1. mt \in Seq(TagNames) /\ mt[4] = "MT" /\ mt[7] = "SVC_CENTR_ADDR"
    BY DEF TagNames
  <2> HIDE DEF mt
  <2>2. SUFFICES ASSUME WholeMap(mt)
                 PROVE  FALSE
    OBVIOUS
  <2>3. b \in Known /\ Accepted(Tags(b), mt) = Len(b) /\ Len(Tags(b)) = Len(b) /\ Len(b) >= 8
    BY <2>1, <2>2, BranchFacts, KnownFacts DEF WholeMap, MapAccepted
  <2> HIDE DEF b
  <2>4. Tags(b)[4] = "MT" /\ Tags(b)[7] = "SVC_CENTR_ADDR"
    BY <2>1, <2>3, KnownFacts, AcceptedFacts
  <2>5. /\ Tags(SriInvoke)[4] = "SRI" /\ Tags(MtInvoke)[7] = "MSISDN"
        /\ Tags(MoInvoke)[4] = "MO" /\ Tags(SriResult)[4] = "OPCODE"
    BY KnownTags
  <2>6. QED
    BY <2>3, <2>4, <2>5 DEF Known
<1>5. QED
  BY <1>1, <1>2, <1>3, <1>4

\* How far sccp_analyze gets, by what built the message.
LEMMA AnalyzeUnderstands ==
  ASSUME NEW m \in Messages, sccp_analyze(m)
  PROVE  Understood'
<1> USE DEF Message
<1>1. last'.kind = m.kind
  BY DEF sccp_analyze
<1>2. CASE m \in StackMessages
  <2>1. PICK type \in StackTypes, ssn \in Subsystems, trx \in Transactions :
               m = Message(type, "UDT", TitleAddress(ssn), tcap_frame(type), trx)
    BY <1>2 DEF StackMessages
  <2>2. /\ m.kind = type /\ m.type = "UDT"
        /\ m.tcap.map = ReadsMap(tcap_frame(type))
        /\ m.tcap.component = WholeMap(gsm_map_frame[type])
    BY <2>1, FrameFacts DEF Checked
  <2>3. ReadTcap(m.tcap, m.trx)
    BY <2>2 DEF sccp_analyze
  <2>4. CASE type \in {"SRI_REQ", "MO_REQ"}
    BY <1>1, <2>2, <2>3, <2>4, FrameFacts, ComponentFacts
       DEF ReadTcap, Understood, StackRequests
  <2>5. CASE type = "MT_REQ"
    BY <1>1, <2>2, <2>3, <2>5, FrameFacts, ComponentFacts
       DEF ReadTcap, Understood, StackRequests
  <2>6. CASE type \notin StackRequests
    BY <1>1, <2>1, <2>2, <2>3, <2>6, FrameFacts
       DEF ReadTcap, Understood, StackRequests, StackTypes, gsm_map_frame
  <2>7. QED
    BY <2>4, <2>5, <2>6 DEF StackRequests
<1>3. CASE m \in SimulatorUnitdata
  <2>1. m.kind = "simulator" /\ m.type = "UDTS"
    BY <1>3 DEF SimulatorUnitdata
  <2>2. read' = "address"
    BY <2>1 DEF sccp_analyze, NotTcap
  <2>3. QED
    BY <1>1, <2>1, <2>2 DEF Understood, StackTypes, gsm_map_frame
<1>4. CASE m \in PeerMessages
  <2>1. m.kind = "peer"
    BY <1>4 DEF PeerMessages
  <2>2. QED
    BY <1>1, <2>1 DEF Understood, StackTypes, gsm_map_frame
<1>5. QED
  BY <1>2, <1>3, <1>4 DEF Messages

\* Of what the two programs build the stack reads to the end its own SRI and MO,
\* whatever was received before and whoever else sends.
THEOREM UnderstoodAlways == Spec => []Understood
<1>1. Init => Understood
  BY DEF Init, Understood, StackTypes, gsm_map_frame
<1>2. Understood /\ [Next]_vars => Understood'
  <2>1. Resolve \/ ResolveNothing \/ Register \/ UNCHANGED vars => UNCHANGED <<last, read>>
    BY DEF Resolve, ResolveNothing, Register, vars, received
  <2>2. UNCHANGED <<last, read>> => (Understood => Understood')
    BY DEF Understood
  <2>3. Analyze => Understood'
    BY AnalyzeUnderstands DEF Analyze
  <2>4. QED
    BY <2>1, <2>2, <2>3 DEF Next
<1>3. QED
  BY <1>1, <1>2, PTL DEF Spec
===============================================================================
