------------------------- MODULE M3uaSgHandshakeProofs -------------------------
(***************************************************************************)
(* Proofs about the handshake with a signalling gateway.  The gateway only *)
(* ever moves from down to inactive to active, and a message on its way is *)
(* evidence of how far it has moved: an ASP_UPACK of not being down, an    *)
(* ASP_ACT_ACK of being active.  The inductive invariant says so of the    *)
(* streams, and of every place of the C loop what has been read to get     *)
(* there.                                                                  *)
(***************************************************************************)
EXTENDS M3uaSgHandshake, SignallingGatewayProofs

\* The places of the switch the handshake can be at.
HandshakeStates == {asp_sg_init, asp_sg_up_tx, asp_sg_up_done, asp_sg_active_tx,
                    asp_sg_DAUD_tx, asp_sg_handshake_complete}

\* What a message on a stream says of the gateway.
StreamEvidence ==
  /\ Has(toAsp, "ASP_UPACK") => sgAsp # "down"
  /\ Has(toAsp, "ASP_ACT_ACK") => sgAsp = "active"
  /\ Has(toSg, "ASP_ACT") => sgAsp # "down"
  /\ host_state = asp_sg_init => ~Has(toSg, "ASP_ACT")

\* What the place of the loop says of the gateway.
PlaceEvidence ==
  /\ host_state \in HandshakeStates
  /\ host_state = asp_sg_init => nth = 1
  /\ host_state = asp_sg_up_tx /\ nth = 2 => sgAsp # "down"
  /\ host_state \in HandshakeStates \ {asp_sg_init, asp_sg_up_tx} => sgAsp # "down"
  /\ host_state = asp_sg_active_tx /\ nth = 2 => sgAsp = "active"
  /\ host_state \in {asp_sg_DAUD_tx, asp_sg_handshake_complete} => sgAsp = "active"
  /\ sgAsp = "active" \/ Has(toSg, "ASP_ACT") =>
       host_state \in {asp_sg_active_tx, asp_sg_DAUD_tx, asp_sg_handshake_complete}

IInv == TypeOK /\ StreamEvidence /\ PlaceEvidence /\ PeerStateTruthful

----------------------------------------------------------------------------
USE DEF asp_sg_init, asp_sg_up_tx, asp_sg_up_ack_tx, asp_sg_notify_tx,
        asp_sg_up_done, asp_sg_active_tx, asp_sg_active_ack_tx, asp_sg_DAUD_tx,
        asp_sg_handshake_complete, m3ua_states

\* Sending puts one message on the stream to the gateway, or nothing.
LEMMA SendFacts ==
  ASSUME TypeOK, NEW m \in Messages, Send(m)
  PROVE  /\ toSg' \in Seq(Messages)
         /\ failed' \in 0 .. MaxSendFailures
         /\ \A type : Has(toSg', type) => Has(toSg, type) \/ m.type = type
<1>1. CASE toSg' = Append(toSg, m) /\ UNCHANGED failed
  BY <1>1, AppendHas DEF TypeOK, GatewayTypeOK
<1>2. CASE failed < MaxSendFailures /\ failed' = failed + 1 /\ UNCHANGED toSg
  BY <1>2, SendAssumption DEF TypeOK, GatewayTypeOK
<1>3. QED
  BY <1>1, <1>2 DEF Send

\* Receiving takes a message that was on the stream, or times out.
LEMMA ReceiveFacts ==
  ASSUME TypeOK, Receive
  PROVE  /\ toAsp' \in Seq(Messages)
         /\ Buffer \in Messages
         /\ Buffer.type # "MGMT_ERR" => Has(toAsp, Buffer.type)
         /\ \A type : Has(toAsp', type) => Has(toAsp, type)
<1>1. CASE toAsp = <<>>
  BY <1>1, MessagesBuilt DEF TypeOK, GatewayTypeOK, Receive, Buffer
<1>2. CASE toAsp # <<>>
  BY <1>2, TailHas DEF TypeOK, GatewayTypeOK, Receive, Buffer
<1>3. QED
  BY <1>1, <1>2

\* The loop starts with nothing sent and nothing received.
LEMMA InitInductive == Init => IInv
<1> SUFFICES ASSUME Init PROVE IInv
  OBVIOUS
<1>1. TypeOK
  BY GatewayAssumption, SendAssumption
     DEF Init, GatewayInit, HandshakeInit, TypeOK, GatewayTypeOK, Contexts
<1>2. \A type : ~Has(toSg, type) /\ ~Has(toAsp, type)
  BY EmptyHas DEF Init, GatewayInit
<1>3. QED
  BY <1>1, <1>2 DEF Init, GatewayInit, HandshakeInit, IInv, StreamEvidence,
     PlaceEvidence, PeerStateTruthful, HandshakeStates

\* Every step of the loop and of the gateway keeps the evidence true.
LEMMA StepInductive == IInv /\ [Next]_vars => IInv'
<1> SUFFICES ASSUME IInv, [Next]_vars PROVE IInv'
  OBVIOUS
<1> USE DEF IInv
<1>1. CASE SendAspUp
  <2>1. Msg("ASP_UP") \in Messages /\ Msg("ASP_UP").type = "ASP_UP"
    BY MessagesBuilt DEF MessageTypes, AspsmTypes
  <2>2. /\ toSg' \in Seq(Messages)
        /\ failed' \in 0 .. MaxSendFailures
        /\ Has(toSg', "ASP_ACT") => Has(toSg, "ASP_ACT")
    BY <1>1, <2>1, SendFacts DEF SendAspUp
  <2>3. TypeOK'
    BY <1>1, <2>2 DEF SendAspUp, TypeOK, GatewayTypeOK
  <2>4. StreamEvidence' /\ PlaceEvidence' /\ PeerStateTruthful'
    BY <1>1, <2>2 DEF SendAspUp, StreamEvidence, PlaceEvidence,
       PeerStateTruthful, HandshakeStates
  <2>5. QED
    BY <2>3, <2>4
<1>2. CASE RecvUpAck
  <2>1. /\ toAsp' \in Seq(Messages)
        /\ IsUpAck(Buffer) => Has(toAsp, "ASP_UPACK")
        /\ \A type : Has(toAsp', type) => Has(toAsp, type)
    BY <1>2, ReceiveFacts DEF RecvUpAck, IsUpAck
  <2>2. TypeOK'
    BY <1>2, <2>1 DEF RecvUpAck, TypeOK, GatewayTypeOK
  <2>3. CASE IsUpAck(Buffer)
    BY <1>2, <2>1, <2>2, <2>3 DEF RecvUpAck, StreamEvidence, PlaceEvidence,
       PeerStateTruthful, HandshakeStates
  <2>4. CASE ~IsUpAck(Buffer)
    BY <1>2, <2>1, <2>2, <2>4 DEF RecvUpAck, StreamEvidence, PlaceEvidence,
       PeerStateTruthful, HandshakeStates
  <2>5. QED
    BY <2>3, <2>4
<1>3. CASE RecvUpNotify
  <2>1. /\ toAsp' \in Seq(Messages)
        /\ Buffer \in Messages
        /\ \A type : Has(toAsp', type) => Has(toAsp, type)
    BY <1>3, ReceiveFacts DEF RecvUpNotify
  <2>2. CASE UNCHANGED <<host_state, peer_state, routing_context, failed, toSg>>
    BY <1>3, <2>1, <2>2 DEF RecvUpNotify, TypeOK, GatewayTypeOK, StreamEvidence,
       PlaceEvidence, PeerStateTruthful, HandshakeStates
  <2>3. CASE /\ peer_state' = asp_sg_notify_tx
             /\ host_state' = asp_sg_up_done
             /\ UNCHANGED <<routing_context, failed, toSg>>
    BY <1>3, <2>1, <2>3 DEF RecvUpNotify, TypeOK, GatewayTypeOK, StreamEvidence,
       PlaceEvidence, PeerStateTruthful, HandshakeStates
  <2>4. CASE /\ peer_state' = asp_sg_notify_tx
             /\ host_state' = asp_sg_active_tx
             /\ routing_context' = CollectContext(Buffer)
             /\ Send(WithContext("ASP_ACT", routing_context'))
    <3>1. routing_context' \in Contexts
      BY <2>1, <2>4 DEF CollectContext, TypeOK, Messages
    <3>2. WithContext("ASP_ACT", routing_context') \in Messages
      BY <3>1, MessagesBuilt DEF MessageTypes, AsptmTypes
    <3>3. /\ toSg' \in Seq(Messages)
          /\ failed' \in 0 .. MaxSendFailures
      BY <2>4, <3>2, SendFacts
    <3>4. TypeOK'
      BY <1>3, <2>1, <2>4, <3>1, <3>3 DEF RecvUpNotify, TypeOK, GatewayTypeOK
    <3>5. sgAsp # "down" /\ sgAsp' = sgAsp
      BY <1>3 DEF RecvUpNotify, PlaceEvidence
    <3>6. StreamEvidence' /\ PlaceEvidence' /\ PeerStateTruthful'
      BY <1>3, <2>1, <2>4, <3>5 DEF RecvUpNotify, StreamEvidence, PlaceEvidence,
         PeerStateTruthful, HandshakeStates
    <3>7. QED
      BY <3>4, <3>6
  <2>5. QED
    BY <1>3, <2>2, <2>3, <2>4 DEF RecvUpNotify
<1>4. CASE RecvActAck
  <2>1. /\ toAsp' \in Seq(Messages)
        /\ IsActAck(Buffer) => Has(toAsp, "ASP_ACT_ACK")
        /\ \A type : Has(toAsp', type) => Has(toAsp, type)
    BY <1>4, ReceiveFacts DEF RecvActAck, IsActAck
  <2>2. TypeOK'
    BY <1>4, <2>1 DEF RecvActAck, TypeOK, GatewayTypeOK
  <2>3. StreamEvidence' /\ PlaceEvidence' /\ PeerStateTruthful'
    BY <1>4, <2>1 DEF RecvActAck, StreamEvidence, PlaceEvidence,
       PeerStateTruthful, HandshakeStates
  <2>4. QED
    BY <2>2, <2>3
<1>5. CASE RecvActNotify
  <2>1. /\ toAsp' \in Seq(Messages)
        /\ \A type : Has(toAsp', type) => Has(toAsp, type)
    BY <1>5, ReceiveFacts DEF RecvActNotify
  <2>2. WithContext("DAUD", routing_context) \in Messages
        /\ WithContext("DAUD", routing_context).type = "DAUD"
    BY MessagesBuilt DEF MessageTypes, TypeOK
  <2>3. /\ toSg' \in Seq(Messages)
        /\ failed' \in 0 .. MaxSendFailures
        /\ Has(toSg', "ASP_ACT") => Has(toSg, "ASP_ACT")
    BY <1>5, <2>2, SendFacts DEF RecvActNotify, TypeOK, GatewayTypeOK
  <2>4. TypeOK'
    BY <1>5, <2>1, <2>3 DEF RecvActNotify, TypeOK, GatewayTypeOK
  <2>5. sgAsp = "active" /\ sgAsp' = sgAsp
    BY <1>5 DEF RecvActNotify, PlaceEvidence
  <2>6. StreamEvidence' /\ PlaceEvidence' /\ PeerStateTruthful'
    BY <1>5, <2>1, <2>3, <2>5 DEF RecvActNotify, StreamEvidence, PlaceEvidence,
       PeerStateTruthful, HandshakeStates
  <2>7. QED
    BY <2>4, <2>6
<1>6. CASE SgRecvUp /\ UNCHANGED node
  <2>1. /\ toSg' \in Seq(Messages)
        /\ \A t : Has(toSg', t) => Has(toSg, t)
    BY <1>6, SgTakesFacts DEF TypeOK, SgRecvUp
  <2>2. /\ toAsp' \in Seq(Messages)
        /\ sgNtfy' \in {"none", "up", "act"}
        /\ Has(toAsp', "ASP_ACT_ACK") => Has(toAsp, "ASP_ACT_ACK")
    BY <1>6, AnswerFacts DEF TypeOK, SgRecvUp, MessageTypes, AspsmTypes
  <2>3. TypeOK'
    BY <1>6, <2>1, <2>2 DEF SgRecvUp, TypeOK, GatewayTypeOK, node
  <2>4. StreamEvidence' /\ PlaceEvidence' /\ PeerStateTruthful'
    BY <1>6, <2>1, <2>2 DEF SgRecvUp, TypeOK, GatewayTypeOK, node, StreamEvidence,
       PlaceEvidence, PeerStateTruthful, HandshakeStates
  <2>5. QED
    BY <2>3, <2>4
<1>7. CASE SgRecvAct /\ UNCHANGED node
  <2>1. /\ toSg' \in Seq(Messages)
        /\ Has(toSg, "ASP_ACT")
        /\ \A t : Has(toSg', t) => Has(toSg, t)
    BY <1>7, SgTakesFacts DEF TypeOK, SgRecvAct
  <2>2. sgAsp # "down" /\ sgAsp' = "active"
    BY <1>7, <2>1 DEF SgRecvAct, StreamEvidence
  <2>3. /\ toAsp' \in Seq(Messages)
        /\ sgNtfy' \in {"none", "up", "act"}
    BY <1>7, <2>2, AnswerFacts DEF TypeOK, SgRecvAct, MessageTypes, AsptmTypes
  <2>4. TypeOK'
    BY <1>7, <2>1, <2>2, <2>3 DEF SgRecvAct, TypeOK, GatewayTypeOK, node
  <2>5. StreamEvidence' /\ PlaceEvidence' /\ PeerStateTruthful'
    BY <1>7, <2>1, <2>2 DEF SgRecvAct, node, StreamEvidence, PlaceEvidence,
       PeerStateTruthful, HandshakeStates
  <2>6. QED
    BY <2>4, <2>5
<1>8. CASE SgRecvOther /\ UNCHANGED node
  <2>1. /\ toSg' \in Seq(Messages)
        /\ \A t : Has(toSg', t) => Has(toSg, t)
    BY <1>8, SgTakesFacts DEF TypeOK, SgRecvOther
  <2>2. QED
    BY <1>8, <2>1 DEF SgRecvOther, node, TypeOK, GatewayTypeOK, StreamEvidence,
       PlaceEvidence, PeerStateTruthful, HandshakeStates
<1>9. CASE (SgNotify \/ SgHeartbeat) /\ UNCHANGED node
  <2>1. /\ GatewayTypeOK' /\ UNCHANGED <<sgAsp, toSg>>
        /\ Has(toAsp', "ASP_UPACK") => Has(toAsp, "ASP_UPACK")
        /\ Has(toAsp', "ASP_ACT_ACK") => Has(toAsp, "ASP_ACT_ACK")
    BY <1>9, SgSpeaksFacts DEF TypeOK
  <2>2. TypeOK'
    BY <1>9, <2>1 DEF TypeOK, node
  <2>3. StreamEvidence' /\ PlaceEvidence' /\ PeerStateTruthful'
    BY <1>9, <2>1 DEF node, StreamEvidence, PlaceEvidence,
       PeerStateTruthful, HandshakeStates
  <2>4. QED
    BY <2>2, <2>3
<1>10. CASE UNCHANGED vars
  BY <1>10 DEF vars, gateway, node, TypeOK, GatewayTypeOK, StreamEvidence,
     PlaceEvidence, PeerStateTruthful, HandshakeStates
<1>11. QED
  BY <1>1, <1>2, <1>3, <1>4, <1>5, <1>6, <1>7, <1>8, <1>9, <1>10
     DEF Next, HandshakeStep, Spin, Returned, GatewayStep, SgRespond

\* The inductive invariant holds of every behaviour of handshake and gateway.
THEOREM Inductive == Spec => []IInv
  BY InitInductive, StepInductive, PTL DEF Spec

\* The variables keep their types, for every gateway and any failures.
THEOREM TypeCorrect == Spec => []TypeOK
  BY Inductive, PTL DEF IInv

\* A complete handshake is one the gateway has activated: no mix of NTFYs,
\* heartbeats, timeouts and failed sends completes m3ua_sg_handshake early.
THEOREM CompleteActive == Spec => []CompleteOnlyWhenActive
<1>1. IInv => CompleteOnlyWhenActive
  BY DEF IInv, PlaceEvidence, CompleteOnlyWhenActive, Complete
<1>2. QED
  BY <1>1, Inductive, PTL

\* The node's view of the gateway never runs ahead of the gateway.
THEOREM PeerTruthful == Spec => []PeerStateTruthful
  BY Inductive, PTL DEF IInv

\* At first the gateway sees the ASP down and the handshake is not complete.
LEMMA PeeringInit == Init => Peering!Init
<1> SUFFICES ASSUME Init PROVE Peering!Init
  OBVIOUS
<1>1. sgAsp = "down"
  BY DEF Init, GatewayInit
<1>2. Complete = FALSE
  BY DEF Init, HandshakeInit, Complete
<1>3. QED
  BY <1>1, <1>2, Zenon DEF Peering!Init

\* A step that gateway or loop takes is one of M3uaPeering, or none.
LEMMA PeeringStep == IInv /\ [Next]_vars => [Peering!Next]_(Peering!peering)
<1> SUFFICES ASSUME IInv, [Next]_vars
             PROVE  [Peering!Next]_(Peering!peering)
  OBVIOUS
<1> USE DEF IInv, Peering!peering, Complete
<1>1. CASE SendAspUp \/ RecvUpAck \/ RecvUpNotify \/ RecvActAck
  BY <1>1 DEF SendAspUp, RecvUpAck, RecvUpNotify, RecvActAck
<1>2. CASE RecvActNotify
  <2>1. sgAsp = "active" /\ sgAsp' = sgAsp /\ ~Complete
    BY <1>2 DEF RecvActNotify, PlaceEvidence
  <2>2. CASE Complete'
    <3>1. Peering!Finish("asp")
      BY <2>1, <2>2 DEF Peering!Finish
    <3>2. QED
      BY <3>1 DEF Peering!Next
  <2>3. CASE ~Complete'
    BY <2>1, <2>3
  <2>4. QED
    BY <2>2, <2>3
<1>3. CASE SgRecvUp /\ UNCHANGED node
  <2>1. CASE sgAsp = "down"
    <3>1. Peering!AckUp("asp")
      BY <1>3, <2>1 DEF SgRecvUp, node, Peering!AckUp
    <3>2. QED
      BY <3>1 DEF Peering!Next
  <2>2. CASE sgAsp # "down"
    BY <1>3, <2>2 DEF SgRecvUp, node
  <2>3. QED
    BY <2>1, <2>2
<1>4. CASE SgRecvAct /\ UNCHANGED node
  <2>1. sgAsp # "down" /\ sgAsp' = "active"
    BY <1>4, SgTakesFacts DEF TypeOK, SgRecvAct, StreamEvidence
  <2>2. CASE sgAsp = "inactive"
    <3>1. Peering!AckActive("asp")
      BY <1>4, <2>1, <2>2 DEF node, Peering!AckActive
    <3>2. QED
      BY <3>1 DEF Peering!Next
  <2>3. CASE sgAsp = "active"
    BY <1>4, <2>1, <2>3 DEF node
  <2>4. QED
    BY <2>1, <2>2, <2>3 DEF TypeOK, GatewayTypeOK
<1>5. CASE (SgRecvOther \/ SgNotify \/ SgHeartbeat) /\ UNCHANGED node
  BY <1>5 DEF SgRecvOther, SgNotify, SgHeartbeat, node
<1>6. CASE UNCHANGED vars
  BY <1>6 DEF vars, gateway, node
<1>7. QED
  BY <1>1, <1>2, <1>3, <1>4, <1>5, <1>6
     DEF Next, HandshakeStep, Spin, Returned, GatewayStep, SgRespond

\* m3ua_sg_handshake with its gateway implements the abstract handshake: the
\* initial states map to initial states, every step to a step or a stutter.
THEOREM Refinement == Spec => ImplementsPeering
  BY PeeringInit, PeeringStep, Inductive, PTL DEF Spec, ImplementsPeering, Peering!Spec

----------------------------------------------------------------------------
(* Nothing is sent again. *)

UpOpen == Open("ASP_UP", "ASP_UPACK")
ActOpen == Open("ASP_ACT", "ASP_ACT_ACK")

\* One ASP_UP and one ASP_ACT at most is on its way or acknowledged, none
\* before it is sent and none once its acknowledgement has been read.
OnceOK ==
  /\ UpOpen \in 0 .. 1 /\ ActOpen \in 0 .. 1
  /\ host_state = asp_sg_init => UpOpen = 0
  /\ host_state = asp_sg_up_tx /\ peer_state = asp_sg_up_ack_tx => UpOpen = 0
  /\ host_state \in {asp_sg_init, asp_sg_up_tx, asp_sg_up_done} => ActOpen = 0
  /\ host_state = asp_sg_active_tx /\ peer_state = asp_sg_active_ack_tx => ActOpen = 0

\* Sending opens at most the request sent; receiving closes what it reads.
LEMMA ExchangeCounted ==
  ASSUME TypeOK, NEW type
  PROVE  /\ \A m \in Messages : Send(m) =>
              \/ Count(toSg', Of(type)) = Count(toSg, Of(type))
              \/ m.type = type /\ Count(toSg', Of(type)) = Count(toSg, Of(type)) + 1
         /\ Receive =>
              /\ Count(toAsp', Of(type)) \in 0 .. Count(toAsp, Of(type))
              /\ Buffer.type = type /\ type # "MGMT_ERR" =>
                   Count(toAsp, Of(type)) = Count(toAsp', Of(type)) + 1
<1>1. toSg \in Seq(Messages) /\ toAsp \in Seq(Messages)
  BY DEF TypeOK, GatewayTypeOK
<1>2. ASSUME NEW m \in Messages, Send(m)
      PROVE  \/ Count(toSg', Of(type)) = Count(toSg, Of(type))
             \/ m.type = type /\ Count(toSg', Of(type)) = Count(toSg, Of(type)) + 1
  <2>1. CASE toSg' = Append(toSg, m)
    <3>1. Count(Append(toSg, m), Of(type)) =
            IF m.type = type THEN Count(toSg, Of(type)) + 1 ELSE Count(toSg, Of(type))
      BY <1>1, OfFacts
    <3>2. QED
      BY <2>1, <3>1
  <2>2. CASE UNCHANGED toSg
    BY <2>2
  <2>3. QED
    BY <1>2, <2>1, <2>2 DEF Send
<1>3. ASSUME Receive
      PROVE  /\ Count(toAsp', Of(type)) \in 0 .. Count(toAsp, Of(type))
             /\ Buffer.type = type /\ type # "MGMT_ERR" =>
                  Count(toAsp, Of(type)) = Count(toAsp', Of(type)) + 1
  <2>1. Count(toAsp, Of(type)) \in Nat
    BY <1>1, OfFacts
  <2>2. CASE toAsp = <<>>
    BY <1>3, <2>1, <2>2, MessagesBuilt DEF Receive, Buffer
  <2>3. CASE toAsp # <<>>
    <3>1. toAsp' = Tail(toAsp) /\ Buffer = Head(toAsp) /\ toAsp' \in Seq(Messages)
      BY <1>1, <1>3, <2>3 DEF Receive, Buffer
    <3>2. Count(toAsp', Of(type)) \in Nat
      BY <3>1, OfFacts
    <3>3. Count(toAsp, Of(type)) = IF Buffer.type = type THEN Count(toAsp', Of(type)) + 1
                                   ELSE Count(toAsp', Of(type))
      BY <1>1, <2>3, <3>1, OfFacts
    <3>4. QED
      BY <2>1, <3>2, <3>3
  <2>4. QED
    BY <2>2, <2>3
<1>4. QED
  BY <1>2, <1>3

\* A step of the loop opens the request it sends, and nothing else.
LEMMA LoopOpens ==
  ASSUME IInv, OnceOK, HandshakeStep
  PROVE  OnceOK' /\ (LostPlace => LostPlace')
<1> USE DEF IInv
<1>1. /\ Count(toSg, Of("ASP_UP")) \in Nat /\ Count(toSg, Of("ASP_ACT")) \in Nat
      /\ Count(toAsp, Of("ASP_UPACK")) \in Nat /\ Count(toAsp, Of("ASP_ACT_ACK")) \in Nat
  BY OfFacts DEF TypeOK, GatewayTypeOK
<1>2. /\ UpOpen = Count(toSg, Of("ASP_UP")) + Count(toAsp, Of("ASP_UPACK"))
      /\ ActOpen = Count(toSg, Of("ASP_ACT")) + Count(toAsp, Of("ASP_ACT_ACK"))
      /\ UpOpen' = Count(toSg', Of("ASP_UP")) + Count(toAsp', Of("ASP_UPACK"))
      /\ ActOpen' = Count(toSg', Of("ASP_ACT")) + Count(toAsp', Of("ASP_ACT_ACK"))
  BY DEF UpOpen, ActOpen, Open
<1>3. CASE SendAspUp
  <2>1. Msg("ASP_UP") \in Messages /\ Msg("ASP_UP").type = "ASP_UP"
    BY MessagesBuilt DEF MessageTypes, AspsmTypes
  <2>2. UNCHANGED toAsp /\ Send(Msg("ASP_UP")) /\ host_state = asp_sg_init
        /\ host_state' = asp_sg_up_tx /\ peer_state' = asp_sg_init
    BY <1>3 DEF SendAspUp
  <2>3. /\ Count(toSg', Of("ASP_ACT")) = Count(toSg, Of("ASP_ACT"))
        /\ \/ Count(toSg', Of("ASP_UP")) = Count(toSg, Of("ASP_UP"))
           \/ Count(toSg', Of("ASP_UP")) = Count(toSg, Of("ASP_UP")) + 1
    BY <2>1, <2>2, ExchangeCounted
  <2>4. UpOpen' \in 0 .. 1 /\ ActOpen' = 0
    BY <1>1, <1>2, <2>2, <2>3 DEF OnceOK
  <2>5. QED
    BY <2>2, <2>4 DEF OnceOK, LostPlace
<1>4. CASE RecvUpAck
  <2>1. /\ host_state = asp_sg_up_tx /\ nth = 1 /\ Receive /\ UNCHANGED <<host_state, toSg>>
        /\ IF Buffer.type = "ASP_UPACK" THEN peer_state' = asp_sg_up_ack_tx
           ELSE UNCHANGED <<peer_state, nth>>
    BY <1>4 DEF RecvUpAck, IsUpAck
  <2>2. /\ Count(toAsp', Of("ASP_ACT_ACK")) \in 0 .. Count(toAsp, Of("ASP_ACT_ACK"))
        /\ Count(toAsp', Of("ASP_UPACK")) \in 0 .. Count(toAsp, Of("ASP_UPACK"))
        /\ Buffer.type = "ASP_UPACK" =>
             Count(toAsp, Of("ASP_UPACK")) = Count(toAsp', Of("ASP_UPACK")) + 1
    BY <2>1, ExchangeCounted
  <2>3. CASE Buffer.type = "ASP_UPACK"
    <3>1. UpOpen = UpOpen' + 1 /\ ActOpen' = 0 /\ UpOpen' \in Int
      BY <1>1, <1>2, <2>1, <2>2, <2>3 DEF OnceOK
    <3>2. UpOpen' = 0 /\ peer_state # asp_sg_up_ack_tx
      BY <1>1, <1>2, <2>1, <2>2, <3>1 DEF OnceOK
    <3>3. QED
      BY <2>1, <2>3, <3>1, <3>2 DEF OnceOK, LostPlace
  <2>4. CASE Buffer.type # "ASP_UPACK"
    <3>1. UpOpen' \in 0 .. UpOpen /\ ActOpen' = 0
      BY <1>1, <1>2, <2>1, <2>2 DEF OnceOK
    <3>2. QED
      BY <2>1, <2>4, <3>1 DEF OnceOK, LostPlace
  <2>5. QED
    BY <2>3, <2>4
<1>5. CASE RecvUpNotify
  <2>1. /\ host_state = asp_sg_up_tx /\ nth = 2 /\ Receive
        /\ \/ UNCHANGED <<host_state, peer_state, toSg>>
           \/ host_state' = asp_sg_up_done /\ UNCHANGED toSg
           \/ /\ host_state' = asp_sg_active_tx /\ peer_state' = asp_sg_notify_tx
              /\ routing_context' = CollectContext(Buffer)
              /\ Send(WithContext("ASP_ACT", routing_context'))
    BY <1>5 DEF RecvUpNotify
  <2>2. /\ Count(toAsp', Of("ASP_ACT_ACK")) \in 0 .. Count(toAsp, Of("ASP_ACT_ACK"))
        /\ Count(toAsp', Of("ASP_UPACK")) \in 0 .. Count(toAsp, Of("ASP_UPACK"))
    BY <2>1, ExchangeCounted
  <2>3. CASE UNCHANGED toSg /\ host_state' \in {asp_sg_up_tx, asp_sg_up_done}
             /\ (host_state' = asp_sg_up_tx => peer_state' = peer_state)
    <3>1. UpOpen' \in 0 .. UpOpen /\ ActOpen' = 0
      BY <1>1, <1>2, <2>1, <2>2, <2>3 DEF OnceOK
    <3>2. QED
      BY <2>1, <2>3, <3>1 DEF OnceOK, LostPlace
  <2>4. CASE /\ host_state' = asp_sg_active_tx /\ peer_state' = asp_sg_notify_tx
             /\ routing_context' = CollectContext(Buffer)
             /\ Send(WithContext("ASP_ACT", routing_context'))
    <3>1. routing_context' \in Contexts
      BY <2>1, <2>4, ReceiveFacts DEF CollectContext, TypeOK, Messages
    <3>2. /\ WithContext("ASP_ACT", routing_context') \in Messages
          /\ WithContext("ASP_ACT", routing_context').type = "ASP_ACT"
      BY <3>1, MessagesBuilt DEF MessageTypes, AsptmTypes
    <3>3. /\ Count(toSg', Of("ASP_UP")) = Count(toSg, Of("ASP_UP"))
          /\ \/ Count(toSg', Of("ASP_ACT")) = Count(toSg, Of("ASP_ACT"))
             \/ Count(toSg', Of("ASP_ACT")) = Count(toSg, Of("ASP_ACT")) + 1
      BY <2>4, <3>2, ExchangeCounted
    <3>4. UpOpen' \in 0 .. UpOpen /\ ActOpen' \in 0 .. 1
      BY <1>1, <1>2, <2>1, <2>2, <3>3 DEF OnceOK
    <3>5. QED
      BY <2>1, <2>4, <3>4 DEF OnceOK, LostPlace
  <2>5. QED
    BY <2>1, <2>3, <2>4
<1>6. CASE RecvActAck
  <2>1. /\ host_state = asp_sg_active_tx /\ nth = 1 /\ Receive /\ UNCHANGED <<host_state, toSg>>
        /\ IF Buffer.type = "ASP_ACT_ACK" THEN peer_state' = asp_sg_active_ack_tx
           ELSE UNCHANGED <<peer_state, nth>>
    BY <1>6 DEF RecvActAck, IsActAck
  <2>2. /\ Count(toAsp', Of("ASP_UPACK")) \in 0 .. Count(toAsp, Of("ASP_UPACK"))
        /\ Count(toAsp', Of("ASP_ACT_ACK")) \in 0 .. Count(toAsp, Of("ASP_ACT_ACK"))
        /\ Buffer.type = "ASP_ACT_ACK" =>
             Count(toAsp, Of("ASP_ACT_ACK")) = Count(toAsp', Of("ASP_ACT_ACK")) + 1
    BY <2>1, ExchangeCounted
  <2>3. UpOpen' \in 0 .. 1 /\ ActOpen' \in 0 .. ActOpen
    <3>1. UpOpen \in 0 .. 1 /\ ActOpen \in 0 .. 1
      BY DEF OnceOK
    <3>2. UpOpen' \in 0 .. UpOpen
      BY <1>1, <1>2, <2>1, <2>2
    <3>3. ActOpen' \in 0 .. ActOpen
      BY <1>1, <1>2, <2>1, <2>2
    <3>4. QED
      BY <3>1, <3>2, <3>3
  <2>4. CASE Buffer.type = "ASP_ACT_ACK"
    <3>1. ActOpen = ActOpen' + 1
      BY <1>1, <1>2, <2>1, <2>2, <2>4
    <3>2. ActOpen' = 0 /\ peer_state # asp_sg_active_ack_tx
      BY <1>1, <1>2, <2>1, <2>3, <3>1 DEF OnceOK
    <3>3. QED
      BY <2>1, <2>3, <2>4, <3>2 DEF OnceOK, LostPlace
  <2>5. CASE Buffer.type # "ASP_ACT_ACK"
    BY <2>1, <2>3, <2>5 DEF OnceOK, LostPlace
  <2>6. QED
    BY <2>4, <2>5
<1>7. CASE RecvActNotify
  <2>1. /\ host_state = asp_sg_active_tx /\ nth = 2 /\ Receive
        /\ \/ UNCHANGED <<host_state, peer_state, toSg>>
           \/ host_state' = asp_sg_handshake_complete /\ UNCHANGED toSg
           \/ host_state' = asp_sg_DAUD_tx /\ Send(WithContext("DAUD", routing_context))
    BY <1>7 DEF RecvActNotify
  <2>2. /\ Count(toAsp', Of("ASP_ACT_ACK")) \in 0 .. Count(toAsp, Of("ASP_ACT_ACK"))
        /\ Count(toAsp', Of("ASP_UPACK")) \in 0 .. Count(toAsp, Of("ASP_UPACK"))
    BY <2>1, ExchangeCounted
  <2>3. /\ Count(toSg', Of("ASP_UP")) = Count(toSg, Of("ASP_UP"))
        /\ Count(toSg', Of("ASP_ACT")) = Count(toSg, Of("ASP_ACT"))
    <3>1. /\ WithContext("DAUD", routing_context) \in Messages
          /\ WithContext("DAUD", routing_context).type = "DAUD"
      BY MessagesBuilt DEF MessageTypes, TypeOK
    <3>2. CASE UNCHANGED toSg
      BY <3>2
    <3>3. CASE Send(WithContext("DAUD", routing_context))
      BY <3>1, <3>3, ExchangeCounted
    <3>4. QED
      BY <2>1, <3>2, <3>3
  <2>4. UpOpen' \in 0 .. 1 /\ ActOpen' \in 0 .. ActOpen
    BY <1>1, <1>2, <2>2, <2>3 DEF OnceOK
  <2>5. QED
    BY <2>1, <2>4 DEF OnceOK, LostPlace
<1>8. QED
  BY <1>3, <1>4, <1>5, <1>6, <1>7 DEF HandshakeStep

\* Nor does a step of the gateway, or of nobody, open anything.
LEMMA StepOpens ==
  ASSUME IInv, OnceOK, [Next]_vars
  PROVE  OnceOK' /\ (LostPlace => LostPlace')
<1>1. CASE GatewayStep /\ UNCHANGED node
  <2>1. UpOpen' \in 0 .. UpOpen /\ ActOpen' \in 0 .. ActOpen
    BY <1>1, NothingReopens DEF GatewayStep, IInv, TypeOK, UpOpen, ActOpen
  <2>2. QED
    BY <1>1, <2>1 DEF node, OnceOK, LostPlace
<1>2. CASE UNCHANGED vars
  BY <1>2 DEF vars, gateway, node, OnceOK, LostPlace, UpOpen, ActOpen, Open
<1>3. QED
  BY <1>1, <1>2, LoopOpens DEF Next, Spin, Returned

\* Nothing is open before the loop starts.
LEMMA NothingOpen == Init => OnceOK
<1> SUFFICES ASSUME Init PROVE OnceOK
  OBVIOUS
<1>1. toSg = <<>> /\ toAsp = <<>> /\ host_state = asp_sg_init
  BY DEF Init, GatewayInit, HandshakeInit
<1>2. UpOpen = 0 /\ ActOpen = 0
  BY <1>1, CountEmpty DEF UpOpen, ActOpen, Open
<1>3. QED
  BY <1>1, <1>2 DEF OnceOK

\* One ASP_UP and one ASP_ACT, acknowledged once, in every behaviour.
THEOREM SentOnce == Spec => []OnceOK
<1>1. IInv /\ OnceOK /\ [Next]_vars => OnceOK'
  BY StepOpens
<1>2. QED
  BY <1>1, NothingOpen, Inductive, PTL DEF Spec

\* A handshake that lost its place never finds it, for every gateway: the
\* acknowledgement it waits for again has been read.
THEOREM LostForGood == Spec => LostPlaceIsForever
<1>1. IInv /\ OnceOK /\ [Next]_vars => [LostPlace => LostPlace']_vars
  BY StepOpens
<1>2. QED
  BY <1>1, Inductive, SentOnce, PTL DEF Spec, LostPlaceIsForever

----------------------------------------------------------------------------
(* The routing context of the ASP_ACT. *)

\* Until the ASP_ACT is sent, every NTFY is one that follows an ASP_UPACK.
NotifiesAssign ==
  host_state \in {asp_sg_init, asp_sg_up_tx} =>
    /\ sgNtfy # "act"
    /\ \A i \in DOMAIN toAsp : toAsp[i].type = "NTFY" =>
         toAsp[i].status = "inactive" /\ toAsp[i].rc = "assigned"

ContextOK == ActCarriesContext /\ NotifiesAssign

\* The gateway only takes from the stream towards it.
LEMMA GatewayTakes ==
  ASSUME GatewayTypeOK, GatewayStep
  PROVE  \A i \in DOMAIN toSg' : \E j \in DOMAIN toSg : toSg'[i] = toSg[j]
<1>1. CASE UNCHANGED toSg
  BY <1>1
<1>2. CASE toSg # <<>> /\ toSg' = Tail(toSg)
  <2>1. /\ DOMAIN toSg = 1 .. Len(toSg) /\ Len(toSg) \in Nat \ {0}
        /\ DOMAIN toSg' = 1 .. Len(toSg) - 1
        /\ \A i \in 1 .. Len(toSg) - 1 : toSg'[i] = toSg[i + 1]
    BY <1>2 DEF GatewayTypeOK
  <2>2. \A i \in DOMAIN toSg' : i + 1 \in DOMAIN toSg /\ toSg'[i] = toSg[i + 1]
    BY <2>1
  <2>3. QED
    BY <2>2
<1>3. QED
  BY <1>1, <1>2 DEF GatewayStep, SgRespond, SgRecvUp, SgRecvAct, SgRecvOther, SgNotify,
                    SgHeartbeat, SgTakes

\* While no ASP_ACT is open the gateway adds no NTFY but one that assigns a context.
LEMMA GatewayAssigns ==
  ASSUME UpStatuses \subseteq {"inactive"}, NtfyContexts \subseteq {"assigned"},
         IInv, OnceOK, ContextOK, GatewayStep, UNCHANGED node
  PROVE  NotifiesAssign'
<1> USE DEF IInv, ContextOK
<1> DEFINE Assigns(m) == m.type = "NTFY" => m.status = "inactive" /\ m.rc = "assigned"
<1>1. SUFFICES ASSUME host_state \in {asp_sg_init, asp_sg_up_tx}
               PROVE  sgNtfy' # "act" /\ \A i \in DOMAIN toAsp' : Assigns(toAsp'[i])
  BY DEF NotifiesAssign, node
<1>2. /\ toAsp \in Seq(Messages) /\ toSg \in Seq(Messages)
      /\ sgNtfy \in {"none", "up"}
      /\ \A i \in DOMAIN toAsp : Assigns(toAsp[i])
  BY <1>1 DEF TypeOK, GatewayTypeOK, NotifiesAssign
<1>3. ASSUME NEW s \in Seq(Messages), \A i \in DOMAIN s : Assigns(s[i]),
             NEW m \in Messages, Assigns(m)
      PROVE  \A i \in DOMAIN Append(s, m) : Assigns(Append(s, m)[i])
  <2>1. /\ DOMAIN s = 1 .. Len(s) /\ Len(s) \in Nat
        /\ DOMAIN Append(s, m) = 1 .. Len(s) + 1
        /\ Append(s, m)[Len(s) + 1] = m
        /\ \A i \in 1 .. Len(s) : Append(s, m)[i] = s[i]
    BY <1>3
  <2>2. QED
    BY <1>3, <2>1
<1>4. \A s \in UpStatuses, rc \in NtfyContexts :
         Notify(s, rc) \in Messages /\ Assigns(Notify(s, rc))
  BY DEF Notify, Messages, MessageTypes, Statuses, Contexts
<1>5. CASE SgRecvUp
  <2>1. Msg("ASP_UPACK") \in Messages /\ Assigns(Msg("ASP_UPACK"))
    BY MessagesBuilt DEF MessageTypes, AspsmTypes
  <2>2. /\ Append(toAsp, Msg("ASP_UPACK")) \in Seq(Messages)
        /\ \A i \in DOMAIN Append(toAsp, Msg("ASP_UPACK")) :
             Assigns(Append(toAsp, Msg("ASP_UPACK"))[i])
    BY <1>2, <1>3, <2>1
  <2>3. CASE Burst
    <3>1. PICK s \in UpStatuses, rc \in NtfyContexts :
                 /\ toAsp' = toAsp \o <<Msg("ASP_UPACK"), Notify(s, rc)>>
                 /\ sgNtfy' = "none"
      BY <1>5, <2>3 DEF SgRecvUp, Answer, StatusesAfter
    <3>2. toAsp' = Append(Append(toAsp, Msg("ASP_UPACK")), Notify(s, rc))
      BY <1>2, <1>4, <2>1, <3>1, ConcatTwo
    <3>3. QED
      BY <1>3, <1>4, <2>2, <3>1, <3>2
  <2>4. CASE ~Burst
    BY <1>5, <2>2, <2>4 DEF SgRecvUp, Answer
  <2>5. QED
    BY <2>3, <2>4
<1>6. CASE SgRecvAct
  <2>1. Has(toSg, "ASP_ACT")
    BY <1>6, SgTakesFacts DEF SgRecvAct, TypeOK
  <2>2. Count(toSg, Of("ASP_ACT")) \in Nat \ {0} /\ Count(toAsp, Of("ASP_ACT_ACK")) \in Nat
    BY <1>2, <2>1, OfFacts
  <2>3. ActOpen = 0
    BY <1>1 DEF OnceOK
  <2>4. QED
    BY <2>2, <2>3 DEF ActOpen, Open
<1>7. CASE SgRecvOther
  BY <1>2, <1>7 DEF SgRecvOther
<1>8. CASE SgNotify
  <2>1. PICK s \in UpStatuses, rc \in NtfyContexts : toAsp' = Append(toAsp, Notify(s, rc))
    BY <1>2, <1>8 DEF SgNotify, StatusesAfter
  <2>2. QED
    BY <1>2, <1>3, <1>4, <1>8, <2>1 DEF SgNotify
<1>9. CASE SgHeartbeat
  <2>1. Msg("ASP_HTBT") \in Messages /\ Assigns(Msg("ASP_HTBT"))
    BY MessagesBuilt DEF MessageTypes, AspsmTypes
  <2>2. QED
    BY <1>2, <1>3, <1>9, <2>1 DEF SgHeartbeat
<1>10. QED
  BY <1>5, <1>6, <1>7, <1>8, <1>9 DEF GatewayStep, SgRespond

\* Where the first NTFY says AS_INACTIVE and carries the context, so does the ASP_ACT.
LEMMA ContextStep ==
  ASSUME UpStatuses \subseteq {"inactive"}, NtfyContexts \subseteq {"assigned"},
         IInv, OnceOK, ContextOK, [Next]_vars
  PROVE  ContextOK'
<1> USE DEF IInv, ContextOK
<1>1. toSg \in Seq(Messages) /\ toAsp \in Seq(Messages)
  BY DEF TypeOK, GatewayTypeOK
<1>2. ASSUME NEW m \in Messages, Send(m), m.type = "ASP_ACT" => m.rc = "assigned"
      PROVE  ActCarriesContext'
  <2>1. CASE UNCHANGED toSg
    BY <2>1 DEF ActCarriesContext
  <2>2. CASE toSg' = Append(toSg, m)
    <3>1. /\ DOMAIN toSg = 1 .. Len(toSg) /\ Len(toSg) \in Nat
          /\ DOMAIN toSg' = 1 .. Len(toSg) + 1
          /\ toSg'[Len(toSg) + 1] = m
          /\ \A i \in 1 .. Len(toSg) : toSg'[i] = toSg[i]
      BY <1>1, <2>2
    <3>2. QED
      BY <1>2, <3>1 DEF ActCarriesContext
  <2>3. QED
    BY <1>2, <2>1, <2>2 DEF Send
<1>3. ASSUME toAsp' \in {toAsp, Tail(toAsp)}, toAsp' = Tail(toAsp) => toAsp # <<>>,
             UNCHANGED sgNtfy,
             host_state' \in {asp_sg_init, asp_sg_up_tx} => host_state \in {asp_sg_init, asp_sg_up_tx}
      PROVE  NotifiesAssign'
  <2>1. CASE toAsp' = toAsp
    BY <1>3, <2>1 DEF NotifiesAssign
  <2>2. CASE toAsp' = Tail(toAsp) /\ toAsp # <<>>
    <3>1. /\ DOMAIN toAsp = 1 .. Len(toAsp) /\ Len(toAsp) \in Nat \ {0}
          /\ DOMAIN toAsp' = 1 .. Len(toAsp) - 1
          /\ \A i \in 1 .. Len(toAsp) - 1 : toAsp'[i] = toAsp[i + 1]
      BY <1>1, <2>2
    <3>2. \A i \in DOMAIN toAsp' : i + 1 \in DOMAIN toAsp /\ toAsp'[i] = toAsp[i + 1]
      BY <3>1
    <3>3. QED
      BY <1>3, <3>2 DEF NotifiesAssign
  <2>3. QED
    BY <1>3, <2>1, <2>2
<1>4. ASSUME Receive, UNCHANGED sgNtfy,
             host_state' \in {asp_sg_init, asp_sg_up_tx} => host_state \in {asp_sg_init, asp_sg_up_tx}
      PROVE  NotifiesAssign'
  <2>1. CASE toAsp = <<>>
    <3>1. toAsp' = toAsp
      BY <1>4, <2>1 DEF Receive
    <3>2. QED
      BY <1>4, <3>1 DEF NotifiesAssign
  <2>2. CASE toAsp # <<>>
    <3>1. toAsp' = Tail(toAsp)
      BY <1>4, <2>2 DEF Receive
    <3>2. QED
      BY <1>3, <1>4, <2>2, <3>1
  <2>3. QED
    BY <2>1, <2>2
<1>5. CASE SendAspUp
  <2>1. Msg("ASP_UP") \in Messages /\ Msg("ASP_UP").type # "ASP_ACT"
    BY MessagesBuilt DEF MessageTypes, AspsmTypes
  <2>2. ActCarriesContext'
    BY <1>2, <1>5, <2>1 DEF SendAspUp
  <2>3. NotifiesAssign'
    BY <1>5 DEF SendAspUp, NotifiesAssign
  <2>4. QED
    BY <2>2, <2>3
<1>6. CASE RecvUpAck
  <2>1. ActCarriesContext'
    BY <1>6 DEF RecvUpAck, ActCarriesContext
  <2>2. NotifiesAssign'
    BY <1>4, <1>6 DEF RecvUpAck
  <2>3. QED
    BY <2>1, <2>2
<1>7. CASE RecvUpNotify
  <2>1. NotifiesAssign'
    BY <1>4, <1>7 DEF RecvUpNotify
  <2>2. CASE UNCHANGED toSg
    BY <2>1, <2>2 DEF ActCarriesContext
  <2>3. CASE IsNotify(Buffer) /\ Send(WithContext("ASP_ACT", CollectContext(Buffer)))
    <3>1. toAsp # <<>> /\ Buffer = toAsp[1] /\ 1 \in DOMAIN toAsp
      BY <1>1, <2>3, MessagesBuilt DEF Buffer, IsNotify
    <3>2. CollectContext(Buffer) = "assigned"
      BY <1>7, <2>3, <3>1 DEF RecvUpNotify, NotifiesAssign, IsNotify, CollectContext
    <3>3. WithContext("ASP_ACT", "assigned") \in Messages
          /\ WithContext("ASP_ACT", "assigned").rc = "assigned"
      BY DEF WithContext, Messages, MessageTypes, AsptmTypes, Contexts
    <3>4. ActCarriesContext'
      BY <1>2, <2>3, <3>2, <3>3
    <3>5. QED
      BY <2>1, <3>4
  <2>4. QED
    BY <1>7, <2>2, <2>3 DEF RecvUpNotify
<1>8. CASE RecvActAck
  <2>1. ActCarriesContext'
    BY <1>8 DEF RecvActAck, ActCarriesContext
  <2>2. NotifiesAssign'
    BY <1>8 DEF RecvActAck, NotifiesAssign
  <2>3. QED
    BY <2>1, <2>2
<1>9. CASE RecvActNotify
  <2>1. /\ WithContext("DAUD", routing_context) \in Messages
        /\ WithContext("DAUD", routing_context).type # "ASP_ACT"
    BY MessagesBuilt DEF MessageTypes, TypeOK
  <2>2. ActCarriesContext'
    <3>1. CASE UNCHANGED toSg
      BY <3>1 DEF ActCarriesContext
    <3>2. CASE Send(WithContext("DAUD", routing_context))
      BY <1>2, <2>1, <3>2
    <3>3. QED
      BY <1>9, <3>1, <3>2 DEF RecvActNotify
  <2>3. NotifiesAssign'
    BY <1>9 DEF RecvActNotify, NotifiesAssign
  <2>4. QED
    BY <2>2, <2>3
<1>10. CASE GatewayStep /\ UNCHANGED node
  <2>1. ActCarriesContext'
    BY <1>1, <1>10, GatewayTakes DEF ActCarriesContext, GatewayStep, TypeOK
  <2>2. NotifiesAssign'
    BY <1>10, GatewayAssigns
  <2>3. QED
    BY <2>1, <2>2
<1>11. CASE UNCHANGED vars
  <2>1. ActCarriesContext'
    BY <1>11 DEF vars, gateway, ActCarriesContext
  <2>2. NotifiesAssign'
    BY <1>11 DEF vars, gateway, node, NotifiesAssign
  <2>3. QED
    BY <2>1, <2>2
<1>12. QED
  BY <1>5, <1>6, <1>7, <1>8, <1>9, <1>10, <1>11 DEF Next, HandshakeStep, Spin, Returned

\* The ASP_ACT carries the context the gateway assigned, for every such gateway.
THEOREM ContextCarried ==
  ASSUME UpStatuses \subseteq {"inactive"}, NtfyContexts \subseteq {"assigned"}
  PROVE  Spec => []ActCarriesContext
<1>1. Init => ContextOK
  BY DEF Init, GatewayInit, ContextOK, ActCarriesContext, NotifiesAssign
<1>2. IInv /\ OnceOK /\ ContextOK /\ [Next]_vars => ContextOK'
  BY ContextStep
<1>3. ContextOK => ActCarriesContext
  BY DEF ContextOK
<1>4. QED
  BY <1>1, <1>2, <1>3, Inductive, SentOnce, PTL DEF Spec
===============================================================================
