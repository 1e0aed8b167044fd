----------------------------- MODULE M3uaNodeProofs -----------------------------
(***************************************************************************)
(* Proofs about the life of the node, for any number of signals, data      *)
(* messages and heartbeats: what the two threads can do to each other      *)
(* through the message pointer they share.                                 *)
(***************************************************************************)
EXTENDS M3uaNode, M3uaSgHandshakeProofs

USE DEF asp_sg_init, asp_sg_up_tx, asp_sg_up_ack_tx, asp_sg_notify_tx,
        asp_sg_up_done, asp_sg_active_tx, asp_sg_active_ack_tx, asp_sg_DAUD_tx,
        asp_sg_handshake_complete, asp_sg_inactive_tx, asp_sg_down_tx,
        asp_inactive_done, asp_down_ack_tx, m3ua_states

\* What as_node can be told to send once the handshake is over.
Specified == {"MGMT_ERR", "ASP_INA", "ASP_DOWN", "ASP_HBT_ACK"}

\* The requests of an ASP: the gateway sends none.
Requests == {"ASP_UP", "ASP_ACT", "ASP_INA", "ASP_DOWN"}

\* The steps of the handler.
HandlerSteps == {"leave", "build", "send", "forget", "clear", "call", "return"}

\* Where the threads are, and whether the route is registered by then.
ThreadsOK ==
  /\ pc = [t \in Threads |-> pc[t]]
  /\ pc["main"] = "handshake" => num_routes = 0 /\ pc["worker"] = "none"
  /\ pc["main"] \in {"audit", "create", "hybernate"} \cup HandlerSteps => num_routes = 1
  /\ message_type \in Specified

\* No buffer holds a request of the handshake, and nobody sends the node one.
BuffersOK ==
  /\ \A b \in Buffers : buf[b].type \notin {"ASP_UP", "ASP_ACT"}
  /\ \A type \in Requests : ~Has(toAsp, type)

\* Until the handler has set host_state, the handshake's evidence stands.
NotLeft ==
  /\ IInv
  /\ ~Has(toSg, "ASP_INA") /\ ~Has(toSg, "ASP_DOWN")
  /\ message_type \notin {"ASP_INA", "ASP_DOWN"}
  /\ pc["main"] \notin HandlerSteps \ {"leave"}
  /\ \A b \in Buffers : buf[b].type \notin {"ASP_INA", "ASP_DOWN"}
  /\ num_routes = 1 => Complete

\* The inductive invariant of the node.
NodeInv == /\ NodeTypeOK
           /\ ThreadsOK
           /\ BuffersOK
           /\ pc["main"] = "handshake" => host_state \in HandshakeStates
           /\ host_state \in HandshakeStates => NotLeft

----------------------------------------------------------------------------
\* A thread that goes somewhere leaves the other where it is.
LEMMA GotoFacts ==
  ASSUME ThreadsOK, NEW t \in Threads, NEW to, pc' = [pc EXCEPT ![t] = to]
  PROVE  /\ pc' = [s \in Threads |-> pc'[s]]
         /\ pc'["main"] = IF t = "main" THEN to ELSE pc["main"]
         /\ pc'["worker"] = IF t = "worker" THEN to ELSE pc["worker"]
  BY DEF ThreadsOK, Threads

\* The buffers of the two threads, none of which is at address zero.
LEMMA BufferFacts ==
  /\ \A t \in Threads : <<t, "send">> \in Buffers /\ <<t, "recv">> \in Buffers
  /\ NULL \notin Buffers
  /\ "main" \in Threads /\ "worker" \in Threads
<1>1. ASSUME NEW b \in Buffers PROVE NULL # b
  BY DEF Buffers, NULL
<1>2. QED
  BY <1>1 DEF Buffers, Threads

\* What is created to be sent is a message, and no request of the handshake.
LEMMA CreatedFacts ==
  ASSUME TypeOK, NEW type \in Specified
  PROVE  Created(type) \in Messages /\ Created(type).type = type
<1>1. type \in MessageTypes
  BY DEF Specified, MessageTypes, AspsmTypes, AsptmTypes
<1>2. QED
  BY <1>1, MessagesBuilt DEF Created, TypeOK

\* A message that is not a request is of no interest to the evidence.
LEMMA TypesApart ==
  /\ Specified \subseteq MessageTypes
  /\ Specified \cap {"ASP_UP", "ASP_ACT"} = {}
  /\ "MGMT_ERR" \in Specified /\ "TX_DATA" \in MessageTypes
  BY DEF Specified, MessageTypes, AspsmTypes, AsptmTypes

\* A receive leaves the rest of the stream, and in its buffer what it took.
LEMMA ReceivedFacts ==
  ASSUME TypeOK, buf \in [Buffers -> Messages], target \in [Threads -> Buffers \cup {NULL}],
         NEW t \in Threads, Received(t)
  PROVE  /\ toAsp' \in Seq(Messages)
         /\ \A type : Has(toAsp', type) => Has(toAsp, type)
         /\ buf' \in [Buffers -> Messages]
         /\ target' \in [Threads -> Buffers \cup {NULL}]
         /\ \A b \in Buffers : buf'[b] = buf[b] \/ Has(toAsp, buf'[b].type)
<1>1. toAsp \in Seq(Messages)
  BY DEF TypeOK, GatewayTypeOK
<1>2. target' \in [Threads -> Buffers \cup {NULL}]
  BY DEF Received
<1>3. CASE toAsp = <<>>
  BY <1>1, <1>2, <1>3 DEF Received
<1>4. CASE toAsp # <<>>
  <2>1. /\ toAsp' = Tail(toAsp)
        /\ toAsp' \in Seq(Messages) /\ Head(toAsp) \in Messages
        /\ Has(toAsp, Head(toAsp).type)
        /\ \A type : Has(toAsp', type) => Has(toAsp, type)
    BY <1>1, <1>4, TailHas DEF Received
  <2>2. buf' = buf \/ \E b \in Buffers : buf' = [buf EXCEPT ![b] = Head(toAsp)]
    BY <1>4 DEF Received
  <2>3. QED
    BY <1>2, <2>1, <2>2
<1>5. QED
  BY <1>3, <1>4

----------------------------------------------------------------------------
(* The steps of the threads, by what they touch. *)

\* At the start nothing is sent, received, registered or specified.
LEMMA NodeStarts == NodeInit => NodeInv
<1> SUFFICES ASSUME NodeInit PROVE NodeInv
  OBVIOUS
<1>1. IInv /\ host_state = asp_sg_init /\ toSg = <<>> /\ toAsp = <<>>
  BY InitInductive DEF NodeInit, Init, GatewayInit, HandshakeInit
<1>2. \A type : ~Has(toSg, type) /\ ~Has(toAsp, type)
  BY <1>1, EmptyHas
<1>3. \A b \in Buffers : buf[b] = NoMessage
  BY DEF NodeInit
<1>4. NodeTypeOK
  <2>1. TypeOK
    BY <1>1 DEF IInv
  <2>2. /\ buf \in [Buffers -> Messages] /\ target \in [Threads -> Buffers \cup {NULL}]
        /\ message_type \in MessageTypes
    BY MessagesBuilt DEF NodeInit, MessageTypes
  <2>3. signals \in 0 .. MaxSignals /\ sent \in 0 .. MaxData /\ delivered \in Nat
    BY NodeAssumption DEF NodeInit
  <2>4. QED
    BY <2>1, <2>2, <2>3 DEF NodeInit, NodeTypeOK
<1>5. ThreadsOK
  BY DEF NodeInit, ThreadsOK, Threads, Specified, HandlerSteps
<1>6. BuffersOK
  BY <1>2, <1>3, MessagesBuilt DEF BuffersOK
<1>7. NotLeft
  BY <1>1, <1>2, <1>3, MessagesBuilt DEF NodeInit, NotLeft, HandlerSteps
<1>8. QED
  BY <1>1, <1>4, <1>5, <1>6, <1>7 DEF NodeInv, HandshakeStates

\* A step that leaves streams, states, buffers and the message type alone.
LEMMA SameBuffers ==
  ASSUME NodeInv, UNCHANGED <<vars, message_type, buf>>, NodeTypeOK', ThreadsOK',
         pc'["main"] = "handshake" => pc["main"] = "handshake",
         pc'["main"] \in HandlerSteps \ {"leave"} => pc["main"] \in HandlerSteps \ {"leave"},
         num_routes' = 1 => num_routes = 1 \/ Complete
  PROVE  NodeInv'
<1>1. UNCHANGED <<host_state, toSg, toAsp>>
  BY DEF vars, gateway, node
<1>2. BuffersOK'
  BY <1>1 DEF NodeInv, BuffersOK
<1>3. IInv => IInv'
  BY StepInductive
<1>4. NotLeft => NotLeft'
  BY <1>1, <1>3 DEF NotLeft, Complete
<1>5. QED
  BY <1>1, <1>2, <1>4 DEF NodeInv

\* With `vars' the types of the handshake stand.
LEMMA TypesStand == ASSUME TypeOK, UNCHANGED vars PROVE TypeOK'
  BY DEF TypeOK, GatewayTypeOK, vars, gateway, node

\* smsc_connect, after the handshake: the route is registered, the worker made.
LEMMA ConnectSteps ==
  ASSUME NodeInv, RegisterRoute \/ CreateWorker
  PROVE  NodeInv'
<1>1. NodeTypeOK /\ ThreadsOK
  BY DEF NodeInv
<1>2. CASE RegisterRoute
  <2>1. /\ pc' = [s \in Threads |-> pc'[s]]
        /\ pc["main"] = "handshake" /\ pc'["main"] = "audit" /\ UNCHANGED pc["worker"]
    BY <1>1, <1>2, GotoFacts, BufferFacts DEF RegisterRoute, Goto
  <2>2. UNCHANGED <<vars, message_type, msg_ptr, buf, leaving, target, signals, sent, delivered>>
        /\ num_routes = 0 /\ num_routes' = 1 /\ Complete
    BY <1>1, <1>2, <2>1 DEF RegisterRoute, ThreadsOK, counts
  <2>3. NodeTypeOK'
    BY <1>1, <2>1, <2>2, TypesStand DEF NodeTypeOK
  <2>4. ThreadsOK'
    BY <1>1, <2>1, <2>2 DEF ThreadsOK, HandlerSteps
  <2>5. QED
    BY <2>1, <2>2, <2>3, <2>4, SameBuffers DEF HandlerSteps
<1>3. CASE CreateWorker
  <2>1. /\ pc' = [s \in Threads |-> pc'[s]]
        /\ pc["main"] = "create" /\ pc'["main"] = "hybernate" /\ pc'["worker"] = "guard"
    BY <1>3 DEF CreateWorker, Threads
  <2>2. UNCHANGED <<vars, num_routes, message_type, msg_ptr, buf, leaving, target, signals, sent,
                    delivered>>
    BY <1>3 DEF CreateWorker, counts, shared
  <2>3. NodeTypeOK'
    BY <1>1, <2>1, <2>2, TypesStand DEF NodeTypeOK
  <2>4. ThreadsOK'
    BY <1>1, <2>1, <2>2 DEF ThreadsOK, HandlerSteps
  <2>5. QED
    BY <2>1, <2>2, <2>3, <2>4, SameBuffers DEF HandlerSteps
<1>4. QED
  BY <1>2, <1>3

\* A signal takes the main thread to the handler, or out.
LEMMA SignalStep == ASSUME NodeInv, Signal PROVE NodeInv'
<1>1. NodeTypeOK /\ ThreadsOK
  BY DEF NodeInv
<1>2. UNCHANGED <<vars, num_routes, message_type, msg_ptr, buf, target, sent, delivered>>
      /\ leaving' = "ASP_INA"
  BY DEF Signal, shared
<1>3. /\ pc' = [s \in Threads |-> pc'[s]] /\ UNCHANGED pc["worker"]
      /\ pc'["main"] = IF num_routes = 0 THEN "exited" ELSE "leave"
  BY <1>1, GotoFacts, BufferFacts DEF Signal
<1>4. signals' \in 0 .. MaxSignals
  BY <1>1, NodeAssumption DEF Signal, NodeTypeOK
<1>5. NodeTypeOK'
  BY <1>1, <1>2, <1>3, <1>4, TypesStand DEF NodeTypeOK
<1>6. ThreadsOK'
  <2>1. num_routes \in 0 .. 1
    BY <1>1 DEF NodeTypeOK
  <2>2. QED
    BY <1>1, <1>2, <1>3, <2>1 DEF ThreadsOK, HandlerSteps
<1>7. QED
  BY <1>2, <1>3, <1>5, <1>6, SameBuffers DEF HandlerSteps

\* Steps of either thread that move it on, and msg_ptr or its target with it.
LEMMA SharedSteps ==
  ASSUME NodeInv, NEW t \in Threads, Forget(t) \/ Call(t)
  PROVE  NodeInv'
<1>1. NodeTypeOK /\ ThreadsOK
  BY DEF NodeInv
<1>2. UNCHANGED <<vars, num_routes, message_type, buf, leaving, signals, sent, delivered>>
  BY DEF Forget, Call, shared, counts
<1>3. /\ msg_ptr' \in Buffers \cup {NULL}
      /\ target' \in [Threads -> Buffers \cup {NULL}]
  BY <1>1 DEF Forget, Call, shared, NodeTypeOK
<1>4. PICK to \in {"clear", "return"} :
        /\ pc[t] \in {"forget", "call"} /\ pc' = [pc EXCEPT ![t] = to]
  BY DEF Forget, Call, Goto
<1>5. /\ pc' = [s \in Threads |-> pc'[s]]
      /\ pc'["main"] = IF t = "main" THEN to ELSE pc["main"]
      /\ pc'["worker"] = IF t = "worker" THEN to ELSE pc["worker"]
  BY <1>1, <1>4, GotoFacts
<1>6. NodeTypeOK'
  BY <1>1, <1>2, <1>3, <1>4, <1>5, TypesStand DEF NodeTypeOK
<1>7. ThreadsOK'
  BY <1>1, <1>2, <1>4, <1>5 DEF ThreadsOK, HandlerSteps, Threads
<1>8. QED
  BY <1>2, <1>4, <1>5, <1>6, <1>7, SameBuffers DEF HandlerSteps

\* Steps of the worker that only move it on, or end the process with it.
LEMMA WorkerMoves ==
  ASSUME NodeInv, Guard \/ Crash \/ Deliver \/ Ignore
  PROVE  NodeInv'
<1>1. NodeTypeOK /\ ThreadsOK
  BY DEF NodeInv
<1>2. UNCHANGED <<vars, num_routes, message_type, msg_ptr, buf, leaving, target, signals, sent>>
      /\ delivered' \in Nat
  BY <1>1 DEF Guard, Crash, Deliver, Ignore, shared, counts, NodeTypeOK
<1>3. CASE Crash
  <2>1. pc' = [s \in Threads |-> pc'[s]] /\ pc'["main"] = "crashed" /\ UNCHANGED pc["worker"]
    BY <1>1, <1>3, GotoFacts, BufferFacts DEF Crash
  <2>2. NodeTypeOK' /\ ThreadsOK'
    BY <1>1, <1>2, <2>1, TypesStand DEF NodeTypeOK, ThreadsOK, HandlerSteps
  <2>3. QED
    BY <1>2, <2>1, <2>2, SameBuffers DEF HandlerSteps
<1>4. CASE Guard \/ Deliver \/ Ignore
  <2>1. PICK to \in {"enter", "stopped", "guard", "clear"} :
          pc["worker"] \in {"guard", "dispatch"} /\ pc' = [pc EXCEPT !["worker"] = to]
    BY <1>4 DEF Guard, Deliver, Ignore, Goto
  <2>2. pc' = [s \in Threads |-> pc'[s]] /\ pc'["worker"] = to /\ UNCHANGED pc["main"]
    BY <1>1, <2>1, GotoFacts, BufferFacts
  <2>3. NodeTypeOK' /\ ThreadsOK'
    BY <1>1, <1>2, <2>1, <2>2, TypesStand DEF NodeTypeOK, ThreadsOK, HandlerSteps
  <2>4. QED
    BY <1>2, <2>2, <2>3, SameBuffers DEF HandlerSteps
<1>5. QED
  BY <1>3, <1>4

\* A step that leaves streams and states alone, and puts no request in a buffer
\* before the handler has set host_state.
LEMMA SameStreams ==
  ASSUME NodeInv, UNCHANGED <<vars, num_routes>>, NodeTypeOK', ThreadsOK',
         \A b \in Buffers : buf'[b] = buf[b] \/ buf'[b].type \in Specified,
         NotLeft => /\ pc'["main"] \notin HandlerSteps \ {"leave"}
                    /\ message_type' \notin {"ASP_INA", "ASP_DOWN"}
                    /\ \A b \in Buffers : buf'[b].type \notin {"ASP_INA", "ASP_DOWN"},
         pc'["main"] = "handshake" => pc["main"] = "handshake"
  PROVE  NodeInv'
<1>1. UNCHANGED <<host_state, toSg, toAsp>>
  BY DEF vars, gateway, node
<1>2. BuffersOK'
  <2>1. \A b \in Buffers : buf'[b].type \notin {"ASP_UP", "ASP_ACT"}
    BY TypesApart DEF NodeInv, BuffersOK
  <2>2. QED
    BY <1>1, <2>1 DEF NodeInv, BuffersOK
<1>3. IInv => IInv'
  BY StepInductive
<1>4. NotLeft => NotLeft'
  BY <1>1, <1>3 DEF NotLeft, Complete
<1>5. QED
  BY <1>1, <1>2, <1>4 DEF NodeInv

\* The message is created in the buffer to send from.
LEMMA BuildStep == ASSUME NodeInv, NEW t \in Threads, Build(t) PROVE NodeInv'
<1>1. NodeTypeOK /\ ThreadsOK
  BY DEF NodeInv
<1>2. UNCHANGED <<vars, num_routes, message_type, leaving, target, signals, sent, delivered>>
      /\ buf' = [buf EXCEPT ![<<t, "send">>] = Created(message_type)]
      /\ msg_ptr' = <<t, "send">>
  BY DEF Build, counts
<1>3. /\ pc' = [s \in Threads |-> pc'[s]] /\ pc[t] = "build"
      /\ pc'["main"] = IF t = "main" THEN "send" ELSE pc["main"]
      /\ pc'["worker"] = IF t = "worker" THEN "send" ELSE pc["worker"]
  BY <1>1, GotoFacts DEF Build, Goto
<1>4. /\ message_type \in Specified
      /\ Created(message_type) \in Messages /\ Created(message_type).type = message_type
  BY <1>1, CreatedFacts DEF ThreadsOK, NodeTypeOK
<1>5. <<t, "send">> \in Buffers /\ buf \in [Buffers -> Messages]
  BY <1>1, BufferFacts DEF NodeTypeOK
<1>6. /\ buf' \in [Buffers -> Messages]
      /\ \A b \in Buffers : buf'[b] = buf[b] \/ buf'[b].type = message_type
  BY <1>2, <1>4, <1>5
<1>7. NodeTypeOK'
  BY <1>1, <1>2, <1>3, <1>5, <1>6, TypesStand DEF NodeTypeOK
<1>8. ThreadsOK'
  BY <1>1, <1>2, <1>3 DEF ThreadsOK, HandlerSteps, Threads
<1>9. NotLeft => /\ pc'["main"] \notin HandlerSteps \ {"leave"}
                 /\ message_type' \notin {"ASP_INA", "ASP_DOWN"}
                 /\ \A b \in Buffers : buf'[b].type \notin {"ASP_INA", "ASP_DOWN"}
  BY <1>2, <1>3, <1>6 DEF NotLeft, HandlerSteps, Threads
<1>10. QED
  BY <1>2, <1>3, <1>4, <1>6, <1>7, <1>8, <1>9, SameStreams

\* Buffers are zeroed before a receive.
LEMMA ClearSteps ==
  ASSUME NodeInv, PrepareReceive \/ Enter \/ ClearBuffer
  PROVE  NodeInv'
<1>1. NodeTypeOK /\ ThreadsOK
  BY DEF NodeInv
<1>2. UNCHANGED <<vars, num_routes, message_type, leaving, target, signals, sent, delivered>>
  BY DEF PrepareReceive, Enter, ClearBuffer, counts
<1>3. PICK t \in Threads : /\ \/ buf' = [buf EXCEPT ![<<t, "recv">>] = NoMessage]
                              \/ buf' = [buf EXCEPT ![<<t, "send">>] = NoMessage,
                                                    ![<<t, "recv">>] = NoMessage]
                           /\ msg_ptr' \in {msg_ptr, <<t, "recv">>}
                           /\ pc[t] \in {"clear", "enter"} /\ pc' = [pc EXCEPT ![t] = "call"]
  BY BufferFacts DEF PrepareReceive, Enter, ClearBuffer, Goto
<1>4. /\ pc' = [s \in Threads |-> pc'[s]]
      /\ pc'["main"] = IF t = "main" THEN "call" ELSE pc["main"]
      /\ pc'["worker"] = IF t = "worker" THEN "call" ELSE pc["worker"]
  BY <1>1, <1>3, GotoFacts
<1>5. /\ <<t, "send">> \in Buffers /\ <<t, "recv">> \in Buffers
      /\ buf \in [Buffers -> Messages] /\ msg_ptr \in Buffers \cup {NULL}
  BY <1>1, BufferFacts DEF NodeTypeOK
<1>6. /\ buf' \in [Buffers -> Messages]
      /\ \A b \in Buffers : buf'[b] = buf[b] \/ buf'[b].type = "MGMT_ERR"
  BY <1>3, <1>5, MessagesBuilt
<1>7. NodeTypeOK'
  BY <1>1, <1>2, <1>3, <1>4, <1>5, <1>6, TypesStand DEF NodeTypeOK
<1>8. ThreadsOK'
  <2>1. (t = "main" => pc["main"] = "clear") /\ (t = "worker" => pc["worker"] # "none")
    BY <1>1, <1>3 DEF NodeTypeOK
  <2>2. QED
    BY <1>1, <1>2, <1>4, <2>1 DEF ThreadsOK, HandlerSteps, Threads
<1>9. NotLeft => /\ pc'["main"] \notin HandlerSteps \ {"leave"}
                 /\ message_type' \notin {"ASP_INA", "ASP_DOWN"}
                 /\ \A b \in Buffers : buf'[b].type \notin {"ASP_INA", "ASP_DOWN"}
  <2>1. NodeTypeOK => pc["main"] # "enter"
    BY DEF NodeTypeOK
  <2>2. QED
    BY <1>1, <1>2, <1>3, <1>4, <1>6, <2>1 DEF NotLeft, HandlerSteps, Threads
<1>10. QED
  BY <1>2, <1>4, <1>6, <1>7, <1>8, <1>9, SameStreams, TypesApart

\* The worker has a heartbeat to acknowledge.
LEMMA HeartbeatStep == ASSUME NodeInv, Heartbeat PROVE NodeInv'
<1>1. NodeTypeOK /\ ThreadsOK
  BY DEF NodeInv
<1>2. UNCHANGED <<vars, num_routes, msg_ptr, buf, leaving, target, signals, sent, delivered>>
      /\ message_type' = "ASP_HBT_ACK"
  BY DEF Heartbeat, counts
<1>3. /\ pc' = [s \in Threads |-> pc'[s]] /\ pc["worker"] = "dispatch"
      /\ pc'["worker"] = "build" /\ UNCHANGED pc["main"]
  BY <1>1, GotoFacts, BufferFacts DEF Heartbeat, Goto
<1>4. message_type' \in Specified /\ message_type' \in MessageTypes
  BY <1>2, TypesApart DEF Specified
<1>5. NodeTypeOK'
  BY <1>1, <1>2, <1>3, <1>4, TypesStand DEF NodeTypeOK
<1>6. ThreadsOK'
  BY <1>1, <1>2, <1>3, <1>4 DEF ThreadsOK, HandlerSteps
<1>7. NotLeft => /\ pc'["main"] \notin HandlerSteps \ {"leave"}
                 /\ message_type' \notin {"ASP_INA", "ASP_DOWN"}
                 /\ \A b \in Buffers : buf'[b].type \notin {"ASP_INA", "ASP_DOWN"}
  BY <1>2, <1>3 DEF NotLeft
<1>8. QED
  BY <1>2, <1>3, <1>5, <1>6, <1>7, SameStreams

\* The handler sets host_state: from here on the evidence no longer matters.
LEMMA LeaveStep == ASSUME NodeInv, Leave PROVE NodeInv'
<1>1. NodeTypeOK /\ ThreadsOK
  BY DEF NodeInv
<1>2. /\ UNCHANGED <<peer_state, nth, routing_context, failed, sgAsp, sgNtfy, beats, toSg, toAsp,
                     num_routes, msg_ptr, buf, leaving, target, signals, sent, delivered>>
      /\ message_type' = leaving
      /\ host_state' \in {asp_sg_inactive_tx, asp_sg_down_tx}
  BY DEF Leave, gateway, counts
<1>3. /\ pc' = [s \in Threads |-> pc'[s]] /\ pc["main"] = "leave"
      /\ pc'["main"] = "build" /\ UNCHANGED pc["worker"]
  BY <1>1, GotoFacts, BufferFacts DEF Leave, Goto
<1>4. message_type' \in Specified /\ message_type' \in MessageTypes
  BY <1>1, <1>2, TypesApart DEF Specified, NodeTypeOK
<1>5. TypeOK'
  BY <1>1, <1>2 DEF NodeTypeOK, TypeOK, GatewayTypeOK
<1>6. NodeTypeOK'
  BY <1>1, <1>2, <1>3, <1>4, <1>5 DEF NodeTypeOK
<1>7. ThreadsOK'
  BY <1>1, <1>2, <1>3, <1>4 DEF ThreadsOK, HandlerSteps
<1>8. BuffersOK'
  BY <1>2 DEF NodeInv, BuffersOK
<1>9. host_state' \notin HandshakeStates
  BY <1>2 DEF HandshakeStates
<1>10. QED
  BY <1>3, <1>6, <1>7, <1>8, <1>9 DEF NodeInv

----------------------------------------------------------------------------
(* The steps that touch the streams. *)

\* The handshake sends its two requests and the audit, and reads what came.
LEMMA HandshakeStreams ==
  ASSUME TypeOK, HandshakeStep
  PROVE  /\ \A type : Has(toSg', type) => Has(toSg, type) \/ type \in {"ASP_UP", "ASP_ACT", "DAUD"}
         /\ \A type : Has(toAsp', type) => Has(toAsp, type)
<1>1. CASE SendAspUp
  <2>1. Msg("ASP_UP") \in Messages /\ Msg("ASP_UP").type = "ASP_UP"
    BY MessagesBuilt DEF MessageTypes, AspsmTypes
  <2>2. QED
    BY <1>1, <2>1, SendFacts DEF SendAspUp
<1>2. CASE RecvUpAck \/ RecvActAck
  BY <1>2, ReceiveFacts DEF RecvUpAck, RecvActAck
<1>3. CASE RecvUpNotify
  <2>1. /\ Receive
        /\ \/ UNCHANGED toSg
           \/ Send(WithContext("ASP_ACT", CollectContext(Buffer)))
    BY <1>3 DEF RecvUpNotify
  <2>2. /\ Buffer \in Messages
        /\ \A type : Has(toAsp', type) => Has(toAsp, type)
    BY <2>1, ReceiveFacts
  <2>3. CollectContext(Buffer) \in Contexts
    BY <2>2 DEF CollectContext, TypeOK, Messages
  <2>4. /\ WithContext("ASP_ACT", CollectContext(Buffer)) \in Messages
        /\ WithContext("ASP_ACT", CollectContext(Buffer)).type = "ASP_ACT"
    BY <2>3, MessagesBuilt DEF MessageTypes, AsptmTypes
  <2>5. QED
    BY <2>1, <2>2, <2>4, SendFacts
<1>4. CASE RecvActNotify
  <2>1. /\ WithContext("DAUD", routing_context) \in Messages
        /\ WithContext("DAUD", routing_context).type = "DAUD"
    BY MessagesBuilt DEF MessageTypes, TypeOK
  <2>2. QED
    BY <1>4, <2>1, ReceiveFacts, SendFacts DEF RecvActNotify
<1>5. QED
  BY <1>1, <1>2, <1>3, <1>4 DEF HandshakeStep

\* The gateway takes what is there, and asks nothing of the node.
LEMMA GatewayStreams ==
  ASSUME TypeOK, SgRespond \/ SgRecvInactive \/ SgRecvDown \/ SgHeartbeat
  PROVE  /\ GatewayTypeOK'
         /\ \A type : Has(toSg', type) => Has(toSg, type)
         /\ \A type \in Requests : Has(toAsp', type) => Has(toAsp, type)
         /\ SgRecvInactive => Has(toSg, "ASP_INA")
         /\ SgRecvDown => Has(toSg, "ASP_DOWN")
<1>1. GatewayTypeOK
  BY DEF TypeOK
<1>2. CASE SgRecvInactive \/ SgRecvDown
  <2>1. PICK ack \in {"ASP_INA_ACK", "ASP_DWN_ACK"} : toAsp' = Append(toAsp, Msg(ack))
    BY <1>2 DEF SgRecvInactive, SgRecvDown
  <2>2. Msg(ack) \in Messages /\ Msg(ack).type = ack
    BY MessagesBuilt DEF MessageTypes, AspsmTypes, AsptmTypes
  <2>3. /\ toAsp' \in Seq(Messages)
        /\ \A type : Has(toAsp', type) => Has(toAsp, type) \/ type = ack
    BY <1>1, <2>1, <2>2, AppendHas DEF GatewayTypeOK
  <2>4. /\ toSg' \in Seq(Messages)
        /\ \A type : Has(toSg', type) => Has(toSg, type)
        /\ SgRecvInactive => Has(toSg, "ASP_INA")
        /\ SgRecvDown => Has(toSg, "ASP_DOWN")
    BY <1>1, <1>2, SgTakesFacts DEF SgRecvInactive, SgRecvDown
  <2>5. GatewayTypeOK'
    BY <1>1, <1>2, <2>3, <2>4 DEF SgRecvInactive, SgRecvDown, GatewayTypeOK
  <2>6. QED
    BY <2>3, <2>4, <2>5 DEF Requests
<1>3. CASE SgRecvUp
  <2>1. \A type : Has(toAsp', type) => Has(toAsp, type) \/ type = "ASP_UPACK" \/ type = "NTFY"
    BY <1>1, <1>3, AnswerFacts DEF SgRecvUp, MessageTypes, AspsmTypes
  <2>2. \A type : Has(toSg', type) => Has(toSg, type)
    BY <1>1, <1>3, SgTakesFacts DEF SgRecvUp
  <2>3. ~SgRecvInactive /\ ~SgRecvDown
    BY <1>3 DEF SgRecvUp, SgRecvInactive, SgRecvDown, SgTakes
  <2>4. QED
    BY <1>1, <1>3, <2>1, <2>2, <2>3, SgRisesFacts DEF Requests, SgRespond
<1>4. CASE SgRecvAct
  <2>1. \A type : Has(toAsp', type) => Has(toAsp, type) \/ type = "ASP_ACT_ACK" \/ type = "NTFY"
    BY <1>1, <1>4, AnswerFacts DEF SgRecvAct, MessageTypes, AsptmTypes
  <2>2. \A type : Has(toSg', type) => Has(toSg, type)
    BY <1>1, <1>4, SgTakesFacts DEF SgRecvAct
  <2>3. ~SgRecvInactive /\ ~SgRecvDown
    BY <1>4 DEF SgRecvAct, SgRecvInactive, SgRecvDown, SgTakes
  <2>4. QED
    BY <1>1, <1>4, <2>1, <2>2, <2>3, SgRisesFacts DEF Requests, SgRespond
<1>5. CASE SgRecvOther
  <2>1. UNCHANGED toAsp /\ \A type : Has(toSg', type) => Has(toSg, type)
    BY <1>1, <1>5, SgTakesFacts DEF SgRecvOther
  <2>2. ~SgRecvInactive /\ ~SgRecvDown
    BY <1>5 DEF SgRecvOther, SgRecvInactive, SgRecvDown, SgTakes
  <2>3. QED
    BY <1>1, <1>5, <2>1, <2>2, SgRisesFacts DEF SgRespond
<1>6. CASE SgNotify \/ SgHeartbeat
  <2>1. /\ GatewayTypeOK' /\ UNCHANGED <<sgAsp, toSg>>
        /\ \A type : Has(toAsp', type) => Has(toAsp, type) \/ type \in {"NTFY", "ASP_HTBT"}
    BY <1>1, <1>6, SgSpeaksFacts
  <2>2. ~SgRecvInactive /\ ~SgRecvDown
    <3>1. toSg \in Seq(Messages) /\ toSg' = toSg
      BY <1>1, <2>1 DEF GatewayTypeOK
    <3>2. toSg # <<>> => Tail(toSg) # toSg
      BY <3>1
    <3>3. QED
      BY <3>1, <3>2 DEF SgRecvInactive, SgRecvDown, SgTakes
  <2>3. QED
    BY <2>1, <2>2 DEF Requests
<1>7. QED
  BY <1>2, <1>3, <1>4, <1>5, <1>6 DEF SgRespond

\* The evidence stands when a message that asks for nothing is sent.
LEMMA EvidenceSent ==
  ASSUME IInv, NEW m \in Messages, m.type # "ASP_ACT", Send(m),
         UNCHANGED <<sgAsp, sgNtfy, beats, toAsp, host_state, peer_state, nth, routing_context>>
  PROVE  IInv'
<1>1. TypeOK
  BY DEF IInv
<1>2. /\ toSg' \in Seq(Messages) /\ failed' \in 0 .. MaxSendFailures
      /\ Has(toSg', "ASP_ACT") => Has(toSg, "ASP_ACT")
  BY <1>1, SendFacts
<1>3. TypeOK'
  BY <1>1, <1>2 DEF TypeOK, GatewayTypeOK
<1>4. QED
  BY <1>2, <1>3 DEF IInv, StreamEvidence, PlaceEvidence, PeerStateTruthful

\* And when a message is taken from the node's stream, or data put on it.
LEMMA EvidenceReceived ==
  ASSUME IInv, toAsp' \in Seq(Messages),
         \A type \in {"ASP_UPACK", "ASP_ACT_ACK"} : Has(toAsp', type) => Has(toAsp, type),
         UNCHANGED <<sgAsp, sgNtfy, beats, toSg, node>>
  PROVE  IInv'
<1>1. TypeOK'
  BY DEF IInv, TypeOK, GatewayTypeOK, node
<1>2. QED
  BY <1>1 DEF IInv, StreamEvidence, PlaceEvidence, PeerStateTruthful, node

\* The handshake, on a main thread that has done nothing else.
LEMMA HandshakeKept == ASSUME NodeInv, Handshake PROVE NodeInv'
<1>1. /\ NodeTypeOK /\ ThreadsOK /\ NotLeft /\ IInv /\ TypeOK
      /\ HandshakeStep /\ UNCHANGED <<shared, threads, counts>>
      /\ pc["main"] = "handshake" /\ num_routes = 0
  BY DEF NodeInv, Handshake, NotLeft, IInv, ThreadsOK
<1>2. IInv'
  BY <1>1, StepInductive DEF Next
<1>3. /\ \A type : Has(toSg', type) => Has(toSg, type) \/ type \in {"ASP_UP", "ASP_ACT", "DAUD"}
      /\ \A type : Has(toAsp', type) => Has(toAsp, type)
  BY <1>1, HandshakeStreams
<1>4. NodeTypeOK'
  BY <1>1, <1>2 DEF NodeTypeOK, shared, threads, counts, IInv
<1>5. ThreadsOK'
  BY <1>1 DEF ThreadsOK, shared, threads
<1>6. BuffersOK'
  BY <1>1, <1>3 DEF NodeInv, BuffersOK, shared
<1>7. NotLeft'
  BY <1>1, <1>2, <1>3 DEF NotLeft, shared, threads, HandlerSteps
<1>8. host_state' \in HandshakeStates
  BY <1>2 DEF IInv, PlaceEvidence
<1>9. QED
  BY <1>4, <1>5, <1>6, <1>7, <1>8 DEF NodeInv

\* The audit, and whatever msg_ptr points to when sctp_sendmsg looks.
LEMMA SendKept ==
  ASSUME NodeInv, NEW m \in Messages, m.type \notin {"ASP_UP", "ASP_ACT"},
         NotLeft => m.type \notin {"ASP_INA", "ASP_DOWN"},
         Send(m) \/ UNCHANGED <<toSg, failed>>,
         UNCHANGED <<host_state, peer_state, nth, routing_context, sgAsp, sgNtfy, beats, toAsp,
                     shared, leaving, target, counts>>,
         NEW t \in Threads, NEW to \in {"create", "clear", "forget"},
         IF to = "create" THEN t = "main" /\ pc["main"] = "audit"
         ELSE pc[t] = "send",
         pc' = [pc EXCEPT ![t] = to]
  PROVE  NodeInv'
<1>1. NodeTypeOK /\ ThreadsOK /\ TypeOK
  BY DEF NodeInv, NodeTypeOK
<1>2. /\ pc' = [s \in Threads |-> pc'[s]]
      /\ pc'["main"] = IF t = "main" THEN to ELSE pc["main"]
      /\ pc'["worker"] = IF t = "worker" THEN to ELSE pc["worker"]
  BY <1>1, GotoFacts
<1>3. /\ toSg' \in Seq(Messages) /\ failed' \in 0 .. MaxSendFailures
      /\ \A type : Has(toSg', type) => Has(toSg, type) \/ type = m.type
  <2>1. CASE Send(m)
    BY <1>1, <2>1, SendFacts
  <2>2. CASE UNCHANGED <<toSg, failed>>
    BY <1>1, <2>2 DEF TypeOK, GatewayTypeOK
  <2>3. QED
    BY <2>1, <2>2
<1>4. TypeOK'
  BY <1>1, <1>3 DEF TypeOK, GatewayTypeOK
<1>5. NodeTypeOK'
  BY <1>1, <1>2, <1>4 DEF NodeTypeOK, shared, counts, Threads
<1>6. ThreadsOK'
  BY <1>1, <1>2 DEF ThreadsOK, HandlerSteps, Threads, shared
<1>7. BuffersOK'
  BY DEF NodeInv, BuffersOK, shared
<1>8. NotLeft => NotLeft'
  <2>1. IInv => IInv'
    <3>1. CASE Send(m)
      BY <3>1, EvidenceSent
    <3>2. CASE UNCHANGED <<toSg, failed>>
      <4>1. UNCHANGED vars
        BY <3>2 DEF vars, gateway, node
      <4>2. QED
        BY <4>1, StepInductive
    <3>3. QED
      BY <3>1, <3>2
  <2>2. NotLeft => pc'["main"] \notin HandlerSteps \ {"leave"}
    BY <1>2 DEF NotLeft, HandlerSteps
  <2>3. QED
    BY <1>3, <2>1, <2>2 DEF NotLeft, shared, Complete
<1>9. pc'["main"] = "handshake" => pc["main"] = "handshake"
  BY <1>2
<1>10. QED
  BY <1>5, <1>6, <1>7, <1>8, <1>9 DEF NodeInv

\* The audit of smsc_connect.
LEMMA AuditKept == ASSUME NodeInv, DoAudit PROVE NodeInv'
<1>1. /\ WithContext("DAUD", routing_context) \in Messages
      /\ WithContext("DAUD", routing_context).type = "DAUD"
  BY MessagesBuilt DEF NodeInv, NodeTypeOK, TypeOK, MessageTypes
<1>2. QED
  BY <1>1, SendKept, BufferFacts DEF DoAudit, Goto

\* What is sent is what msg_ptr points to, the thread's own message or another.
LEMMA TransmitKept == ASSUME NodeInv, NEW t \in Threads, Transmit(t) PROVE NodeInv'
<1> DEFINE m == IF msg_ptr = NULL THEN NoMessage ELSE buf[msg_ptr]
           to == IF toSg' = toSg THEN "clear" ELSE "forget"
<1>1. m \in Messages /\ m.type \notin {"ASP_UP", "ASP_ACT"}
  BY MessagesBuilt DEF NodeInv, NodeTypeOK, BuffersOK
<1>2. NotLeft => m.type \notin {"ASP_INA", "ASP_DOWN"}
  BY MessagesBuilt DEF NodeInv, NodeTypeOK, NotLeft
<1>3. Send(m) \/ UNCHANGED <<toSg, failed>>
  BY DEF Transmit
<1>4. /\ UNCHANGED <<host_state, peer_state, nth, routing_context, sgAsp, sgNtfy, beats, toAsp,
                     shared, leaving, target, counts>>
      /\ pc[t] = "send" /\ pc' = [pc EXCEPT ![t] = to] /\ to \in {"clear", "forget"}
  BY DEF Transmit
<1> HIDE DEF m, to
<1>5. QED
  BY <1>1, <1>2, <1>3, <1>4, SendKept

\* A receive of the worker.
LEMMA WorkerReceiveKept == ASSUME NodeInv, WorkerReceive PROVE NodeInv'
<1>1. NodeTypeOK /\ ThreadsOK /\ TypeOK
  BY DEF NodeInv, NodeTypeOK
<1>2. /\ UNCHANGED <<node, sgAsp, sgNtfy, beats, toSg, num_routes, message_type, msg_ptr,
                     leaving, signals, sent, delivered>>
      /\ Received("worker")
  BY DEF WorkerReceive, counts
<1>3. /\ pc' = [s \in Threads |-> pc'[s]] /\ pc["worker"] = "return"
      /\ pc'["worker"] = "dispatch" /\ UNCHANGED pc["main"]
  BY <1>1, GotoFacts, BufferFacts DEF WorkerReceive, Goto
<1>4. /\ toAsp' \in Seq(Messages)
      /\ \A type : Has(toAsp', type) => Has(toAsp, type)
      /\ buf' \in [Buffers -> Messages]
      /\ target' \in [Threads -> Buffers \cup {NULL}]
      /\ \A b \in Buffers : buf'[b] = buf[b] \/ Has(toAsp, buf'[b].type)
  BY <1>1, <1>2, ReceivedFacts, BufferFacts DEF NodeTypeOK
<1>5. TypeOK'
  BY <1>1, <1>2, <1>4 DEF TypeOK, GatewayTypeOK, node
<1>6. NodeTypeOK'
  BY <1>1, <1>2, <1>3, <1>4, <1>5 DEF NodeTypeOK
<1>7. ThreadsOK'
  BY <1>1, <1>2, <1>3 DEF ThreadsOK, HandlerSteps
<1>8. BuffersOK'
  BY <1>4 DEF NodeInv, BuffersOK, Requests
<1>9. NotLeft => NotLeft'
  <2>1. IInv => IInv'
    BY <1>2, <1>4, EvidenceReceived
  <2>2. BuffersOK
    BY DEF NodeInv
  <2>3. QED
    BY <1>2, <1>3, <1>4, <2>1, <2>2 DEF NotLeft, node, Complete, BuffersOK, Requests
<1>10. UNCHANGED host_state
  BY <1>2 DEF node
<1>11. QED
  BY <1>3, <1>6, <1>7, <1>8, <1>9, <1>10 DEF NodeInv

\* A receive of the handler, whose host_state has left the handshake for good.
LEMMA ReceiveAckKept == ASSUME NodeInv, ReceiveAck PROVE NodeInv'
<1>1. NodeTypeOK /\ ThreadsOK /\ TypeOK
  BY DEF NodeInv, NodeTypeOK
<1>2. /\ UNCHANGED <<peer_state, nth, routing_context, failed, sgAsp, sgNtfy, beats, toSg,
                     num_routes, message_type, msg_ptr, signals, sent, delivered>>
      /\ Received("main") /\ leaving' = "ASP_DOWN" /\ pc["main"] = "return"
      /\ host_state' \in {asp_inactive_done, asp_down_ack_tx, host_state}
  BY DEF ReceiveAck, counts
<1>3. /\ pc' = [s \in Threads |-> pc'[s]] /\ UNCHANGED pc["worker"]
      /\ pc'["main"] \in {"leave", "exited"}
  <2>1. pc' = [pc EXCEPT !["main"] = IF leaving = "ASP_INA" THEN "leave" ELSE "exited"]
    BY DEF ReceiveAck
  <2>2. QED
    BY <1>1, <2>1, GotoFacts, BufferFacts
<1>4. /\ toAsp' \in Seq(Messages)
      /\ \A type : Has(toAsp', type) => Has(toAsp, type)
      /\ buf' \in [Buffers -> Messages]
      /\ target' \in [Threads -> Buffers \cup {NULL}]
      /\ \A b \in Buffers : buf'[b] = buf[b] \/ Has(toAsp, buf'[b].type)
  BY <1>1, <1>2, ReceivedFacts, BufferFacts DEF NodeTypeOK
<1>5. TypeOK'
  BY <1>1, <1>2, <1>4 DEF TypeOK, GatewayTypeOK
<1>6. NodeTypeOK'
  BY <1>1, <1>2, <1>3, <1>4, <1>5 DEF NodeTypeOK
<1>7. ThreadsOK'
  BY <1>1, <1>2, <1>3 DEF ThreadsOK, HandlerSteps
<1>8. BuffersOK'
  BY <1>4 DEF NodeInv, BuffersOK, Requests
<1>9. host_state' \notin HandshakeStates
  <2>1. host_state \notin HandshakeStates
    BY <1>2 DEF NodeInv, NotLeft, HandlerSteps
  <2>2. QED
    BY <1>2, <2>1 DEF HandshakeStates
<1>10. QED
  BY <1>3, <1>6, <1>7, <1>8, <1>9 DEF NodeInv

\* The gateway, and the data it sends.
LEMMA GatewayKept == ASSUME NodeInv, NodeGateway PROVE NodeInv'
<1>1. NodeTypeOK /\ ThreadsOK /\ TypeOK
  BY DEF NodeInv, NodeTypeOK
<1>2. /\ UNCHANGED <<node, shared, threads, signals, delivered>>
      /\ \/ (SgRespond \/ SgRecvInactive \/ SgRecvDown \/ SgHeartbeat) /\ UNCHANGED sent
         \/ SgData
  BY DEF NodeGateway, SgAnswer, SgBeat, SgData, counts
<1>3. /\ GatewayTypeOK'
      /\ \A type : Has(toSg', type) => Has(toSg, type)
      /\ \A type \in Requests : Has(toAsp', type) => Has(toAsp, type)
      /\ sent' \in 0 .. MaxData
      /\ NotLeft => IInv'
  <2>1. CASE (SgRespond \/ SgRecvInactive \/ SgRecvDown \/ SgHeartbeat) /\ UNCHANGED sent
    <3>1. /\ GatewayTypeOK'
          /\ \A type : Has(toSg', type) => Has(toSg, type)
          /\ \A type \in Requests : Has(toAsp', type) => Has(toAsp, type)
          /\ NotLeft => SgRespond \/ SgHeartbeat
      BY <1>1, <2>1, GatewayStreams DEF NotLeft
    <3>2. NotLeft => IInv'
      BY <1>2, <3>1, StepInductive DEF Next, GatewayStep, NotLeft
    <3>3. sent' \in 0 .. MaxData
      BY <1>1, <2>1 DEF NodeTypeOK
    <3>4. QED
      BY <3>1, <3>2, <3>3
  <2>2. CASE SgData
    <3>1. /\ Msg("TX_DATA") \in Messages /\ Msg("TX_DATA").type = "TX_DATA"
          /\ toAsp \in Seq(Messages)
      BY <1>1, MessagesBuilt DEF MessageTypes, TypeOK, GatewayTypeOK
    <3>2. /\ toAsp' \in Seq(Messages)
          /\ \A type : Has(toAsp', type) => Has(toAsp, type) \/ type = "TX_DATA"
      BY <2>2, <3>1, AppendHas DEF SgData
    <3>3. UNCHANGED <<sgAsp, sgNtfy, beats, toSg>>
      BY <2>2 DEF SgData
    <3>4. NotLeft => IInv'
      BY <1>2, <3>2, <3>3, EvidenceReceived DEF NotLeft
    <3>5. sent' \in 0 .. MaxData
      BY <1>1, <2>2, NodeAssumption DEF SgData, NodeTypeOK
    <3>6. GatewayTypeOK'
      BY <1>1, <3>2, <3>3 DEF TypeOK, GatewayTypeOK
    <3>7. QED
      BY <3>2, <3>3, <3>4, <3>5, <3>6 DEF Requests
  <2>3. QED
    BY <1>2, <2>1, <2>2
<1>4. TypeOK'
  BY <1>1, <1>2, <1>3 DEF TypeOK, node
<1>5. NodeTypeOK'
  BY <1>1, <1>2, <1>3, <1>4 DEF NodeTypeOK, shared, threads
<1>6. ThreadsOK'
  BY <1>1, <1>2 DEF ThreadsOK, shared, threads
<1>7. BuffersOK'
  BY <1>2, <1>3 DEF NodeInv, BuffersOK, shared
<1>8. NotLeft => NotLeft'
  BY <1>2, <1>3 DEF NotLeft, node, shared, threads, Complete
<1>9. UNCHANGED <<host_state, pc>>
  BY <1>2 DEF node, threads
<1>10. QED
  BY <1>5, <1>6, <1>7, <1>8, <1>9 DEF NodeInv

\* A step of nobody.
LEMMA RestKept == ASSUME NodeInv, UNCHANGED nodeVars PROVE NodeInv'
<1>1. UNCHANGED <<vars, num_routes, message_type, msg_ptr, buf, pc, leaving, target, signals,
                  sent, delivered>>
  BY DEF nodeVars, shared, threads, counts
<1>2. NodeTypeOK'
  BY <1>1, TypesStand DEF NodeInv, NodeTypeOK
<1>3. ThreadsOK'
  BY <1>1 DEF NodeInv, ThreadsOK
<1>4. QED
  BY <1>1, <1>2, <1>3, SameBuffers

\* Every step of either thread, of the gateway and of a signal keeps the invariant.
LEMMA NodeSteps == NodeInv /\ [NodeNext]_nodeVars => NodeInv'
<1> SUFFICES ASSUME NodeInv, [NodeNext]_nodeVars PROVE NodeInv'
  OBVIOUS
<1>1. CASE MainStep
  BY <1>1, BufferFacts, HandshakeKept, ConnectSteps, AuditKept, LeaveStep, ClearSteps,
     ReceiveAckKept, BuildStep, TransmitKept, SharedSteps DEF MainStep
<1>2. CASE WorkerStep
  BY <1>2, BufferFacts, WorkerMoves, ClearSteps, WorkerReceiveKept, HeartbeatStep, BuildStep,
     TransmitKept, SharedSteps DEF WorkerStep
<1>3. QED
  BY <1>1, <1>2, SignalStep, GatewayKept, RestKept DEF NodeNext, Rest

\* The invariant holds for any gateway and any number of signals, data and heartbeats.
THEOREM NodeInvariant == NodeSpec => []NodeInv
<1>1. QED
  BY NodeStarts, NodeSteps, PTL DEF NodeSpec

\* Both threads stay at a step of their code, and msg_ptr at a buffer or NULL.
THEOREM NodeTypeCorrect == NodeSpec => []NodeTypeOK
<1>1. NodeInv => NodeTypeOK
  BY DEF NodeInv
<1>2. QED
  BY <1>1, NodeInvariant, PTL

\* The node calls itself complete only while the gateway sees it active, whatever
\* the worker and the handler send.
THEOREM NodeCompleteActive == NodeSpec => []CompleteOnlyWhenActive
<1>1. NodeInv => CompleteOnlyWhenActive
  BY DEF NodeInv, NotLeft, IInv, PlaceEvidence, CompleteOnlyWhenActive, Complete, HandshakeStates
<1>2. QED
  BY <1>1, NodeInvariant, PTL

----------------------------------------------------------------------------
(* No data message is returned twice. *)

\* Between Enter and the return of m3ua_recv_data the worker may look at the
\* buffer msg_ptr points to.
Looping == {"call", "return", "dispatch", "build", "send", "forget", "clear"}

\* A data message is where the worker may look.
Held == pc["worker"] \in Looping /\ msg_ptr # NULL /\ buf[msg_ptr].type = "TX_DATA"

DataOnTheWay == Count(toAsp, Of("TX_DATA"))

\* Each data message sent is returned, on its way, where the worker may look, or
\* lost.  msg_ptr is only ever set to a buffer that has just been overwritten:
\* this is why a message left in one is not found again.
DataCounted == delivered + DataOnTheWay + (IF Held THEN 1 ELSE 0) <= sent

\* The counts are numbers.
LEMMA DataNumbers ==
  ASSUME NodeTypeOK
  PROVE  /\ DataOnTheWay \in Nat /\ delivered \in Nat /\ sent \in Nat
         /\ toAsp \in Seq(Messages)
<1>1. toAsp \in Seq(Messages)
  BY DEF NodeTypeOK, TypeOK, GatewayTypeOK
<1>2. DataOnTheWay \in Nat
  BY <1>1, OfFacts DEF DataOnTheWay
<1>3. sent \in Nat
  BY NodeAssumption DEF NodeTypeOK
<1>4. QED
  BY <1>1, <1>2, <1>3 DEF NodeTypeOK

\* So is what will be on the way.
LEMMA NextNumber ==
  ASSUME NodeTypeOK'
  PROVE  DataOnTheWay' \in Nat
<1>1. toAsp' \in Seq(Messages)
  BY DEF NodeTypeOK, TypeOK, GatewayTypeOK
<1>2. QED
  BY <1>1, OfFacts DEF DataOnTheWay

\* Less on the way and nothing new to look at keeps the sum under what was sent.
LEMMA SumShrinks ==
  ASSUME NEW d \in Nat, NEW n \in Nat, NEW n1 \in Nat, NEW h \in {0, 1}, NEW h1 \in {0, 1},
         NEW s \in Nat, n1 <= n, h1 <= h, d + n + h <= s
  PROVE  d + n1 + h1 <= s
  OBVIOUS

\* A step that shows the worker nothing new.
LEMMA NothingNew ==
  ASSUME NodeTypeOK, DataCounted, UNCHANGED <<sent, delivered>>,
         DataOnTheWay \in Nat, DataOnTheWay' \in Nat, DataOnTheWay' <= DataOnTheWay,
         Held' => Held
  PROVE  DataCounted'
<1> DEFINE h == IF Held THEN 1 ELSE 0
<1>1. delivered \in Nat /\ sent \in Nat
  BY DataNumbers
<1>2. h \in {0, 1} /\ h' \in {0, 1} /\ h' <= h
  OBVIOUS
<1>3. delivered + DataOnTheWay + h <= sent
  BY DEF DataCounted
<1> HIDE DEF h
<1>4. delivered + DataOnTheWay' + h' <= sent
  BY <1>1, <1>2, <1>3, SumShrinks
<1>5. QED
  BY <1>4 DEF DataCounted, h

\* Steps that leave the stream to the node, and every count, alone.
LEMMA StreamStands ==
  ASSUME NodeTypeOK, NodeTypeOK', DataCounted, UNCHANGED <<toAsp, sent, delivered>>,
         Held' => Held
  PROVE  DataCounted'
<1>1. DataOnTheWay' = DataOnTheWay
  BY DEF DataOnTheWay
<1>2. DataOnTheWay \in Nat
  BY DataNumbers
<1>3. DataOnTheWay' \in Nat /\ DataOnTheWay' <= DataOnTheWay
  BY <1>1, <1>2
<1>4. QED
  BY <1>2, <1>3, NothingNew

\* A receive takes a message off the stream and may show it to the worker.
LEMMA ReceiveCounted ==
  ASSUME NodeTypeOK, NodeTypeOK', DataCounted, NEW t \in Threads, Received(t),
         UNCHANGED <<sent, delivered, msg_ptr>>,
         pc'["worker"] \in Looping => pc["worker"] \in Looping
  PROVE  DataCounted'
<1>1. /\ DataOnTheWay \in Nat /\ DataOnTheWay' \in Nat /\ delivered \in Nat /\ sent \in Nat
      /\ toAsp \in Seq(Messages) /\ buf \in [Buffers -> Messages]
      /\ target[t] \in Buffers \cup {NULL}
  BY DataNumbers, NextNumber DEF NodeTypeOK
<1>2. CASE toAsp = <<>>
  <2>1. UNCHANGED <<toAsp, buf>>
    BY <1>2 DEF Received
  <2>2. Held' => Held
    BY <2>1 DEF Held
  <2>3. QED
    BY <2>1, <2>2, StreamStands
<1>3. CASE toAsp # <<>>
  <2>1. /\ toAsp' = Tail(toAsp)
        /\ buf' = buf \/ \E b \in Buffers : buf' = [buf EXCEPT ![b] = Head(toAsp)]
    BY <1>1, <1>3 DEF Received
  <2>2. DataOnTheWay = IF Head(toAsp).type = "TX_DATA" THEN DataOnTheWay' + 1 ELSE DataOnTheWay'
    BY <1>1, <1>3, <2>1, OfFacts DEF DataOnTheWay
  <2>3. \A b \in Buffers : buf'[b] = buf[b] \/ buf'[b] = Head(toAsp)
    BY <1>1, <2>1
  <2>4. msg_ptr \in Buffers \cup {NULL}
    BY DEF NodeTypeOK
  <2>5. Held' => Held \/ Head(toAsp).type = "TX_DATA"
    BY <2>3, <2>4 DEF Held
  <2>6. QED
    BY <1>1, <2>2, <2>5 DEF DataCounted
<1>4. QED
  BY <1>2, <1>3

\* msg_ptr is set to a buffer with the message to be sent, or nothing in it.
LEMMA PointerSet ==
  ASSUME NodeTypeOK, NEW b \in Buffers, NEW m \in Messages, m.type # "TX_DATA",
         buf' = [buf EXCEPT ![b] = m], msg_ptr' \in {msg_ptr, b},
         msg_ptr' = msg_ptr /\ pc'["worker"] \in Looping => pc["worker"] \in Looping
  PROVE  Held' => Held
<1>1. buf \in [Buffers -> Messages] /\ msg_ptr \in Buffers \cup {NULL}
  BY DEF NodeTypeOK
<1>2. buf'[b] = m /\ \A c \in Buffers : c # b => buf'[c] = buf[c]
  BY <1>1
<1>3. QED
  BY <1>1, <1>2 DEF Held

\* The main thread, once the handshake is over.
LEMMA MainCounted ==
  ASSUME NodeInv, NodeInv', DataCounted, MainStep, ~Handshake
  PROVE  DataCounted'
<1>1. NodeTypeOK /\ NodeTypeOK' /\ ThreadsOK
  BY DEF NodeInv
<1>2. ASSUME NEW to, pc' = [pc EXCEPT !["main"] = to]
      PROVE  UNCHANGED pc["worker"]
  BY <1>1, <1>2, GotoFacts, BufferFacts
<1>3. CASE RegisterRoute \/ DoAudit \/ Leave \/ Transmit("main") \/ Call("main")
  <2>1. UNCHANGED <<toAsp, sent, delivered, msg_ptr, buf>>
    BY <1>3 DEF RegisterRoute, DoAudit, Leave, Transmit, Call, vars, gateway, shared, counts
  <2>2. UNCHANGED pc["worker"]
    BY <1>2, <1>3 DEF RegisterRoute, DoAudit, Leave, Transmit, Call, Goto
  <2>3. Held' => Held
    BY <2>1, <2>2 DEF Held
  <2>4. QED
    BY <1>1, <2>1, <2>3, StreamStands
<1>4. CASE CreateWorker
  <2>1. UNCHANGED <<toAsp, sent, delivered>> /\ pc'["worker"] = "guard"
    BY <1>4 DEF CreateWorker, vars, gateway, counts
  <2>2. QED
    BY <1>1, <2>1, StreamStands DEF Held, Looping
<1>5. CASE Forget("main")
  <2>1. UNCHANGED <<toAsp, sent, delivered>> /\ msg_ptr' = NULL
    BY <1>5 DEF Forget, vars, gateway, counts
  <2>2. QED
    BY <1>1, <2>1, StreamStands DEF Held
<1>6. CASE Build("main")
  <2>1. /\ UNCHANGED <<toAsp, sent, delivered>>
        /\ UNCHANGED pc["worker"]
    BY <1>2, <1>6 DEF Build, Goto, vars, gateway, counts
  <2>2. \E b \in Buffers, m \in Messages :
          /\ m.type # "TX_DATA"
          /\ buf' = [buf EXCEPT ![b] = m] /\ msg_ptr' = b
    <3>1. message_type \in Specified /\ TypeOK
      BY <1>1 DEF ThreadsOK, NodeTypeOK
    <3>2. Created(message_type) \in Messages /\ Created(message_type).type # "TX_DATA"
      BY <3>1, CreatedFacts DEF Specified
    <3>3. QED
      BY <1>6, <3>2, BufferFacts DEF Build
  <2>3. Held' => Held
    BY <1>1, <2>1, <2>2, PointerSet
  <2>4. QED
    BY <1>1, <2>1, <2>3, StreamStands
<1>7. CASE ReceiveAck
  <2>1. Received("main") /\ UNCHANGED <<sent, delivered, msg_ptr>>
    BY <1>7 DEF ReceiveAck, counts
  <2>2. UNCHANGED pc["worker"]
    BY <1>2, <1>7 DEF ReceiveAck
  <2>3. QED
    BY <1>1, <2>1, <2>2, ReceiveCounted, BufferFacts
<1>8. CASE PrepareReceive
  <2>1. UNCHANGED <<toAsp, sent, delivered>> /\ UNCHANGED pc["worker"]
    BY <1>2, <1>8 DEF PrepareReceive, Goto, vars, gateway, counts
  <2> DEFINE b == <<"main", "recv">>
  <2>2. /\ buf' = [[buf EXCEPT ![<<"main", "send">>] = NoMessage] EXCEPT ![b] = NoMessage]
        /\ msg_ptr' = b
    BY <1>8 DEF PrepareReceive
  <2>3. b \in Buffers /\ [buf EXCEPT ![<<"main", "send">>] = NoMessage] \in [Buffers -> Messages]
    BY <1>1, BufferFacts, MessagesBuilt DEF NodeTypeOK
  <2> HIDE DEF b
  <2>4. buf'[msg_ptr'].type # "TX_DATA"
    BY <2>2, <2>3, MessagesBuilt
  <2>5. QED
    BY <1>1, <2>1, <2>4, StreamStands DEF Held
<1>9. QED
  BY <1>3, <1>4, <1>5, <1>6, <1>7, <1>8 DEF MainStep

\* The worker returns what it may look at, and looks no more.
LEMMA WorkerCounted ==
  ASSUME NodeInv, NodeInv', DataCounted, WorkerStep
  PROVE  DataCounted'
<1>1. NodeTypeOK /\ NodeTypeOK' /\ ThreadsOK
  BY DEF NodeInv
<1>2. ASSUME NEW from, NEW to, Goto("worker", from, to)
      PROVE  pc["worker"] = from /\ pc'["worker"] = to
  BY <1>1, <1>2, GotoFacts, BufferFacts DEF Goto
<1>3. CASE Guard \/ Heartbeat \/ Ignore \/ Call("worker")
  <2>1. UNCHANGED <<toAsp, sent, delivered, msg_ptr, buf>>
    BY <1>3 DEF Guard, Heartbeat, Ignore, Call, vars, gateway, shared, counts
  <2>2. pc'["worker"] \in Looping => pc["worker"] \in Looping
    BY <1>2, <1>3 DEF Guard, Heartbeat, Ignore, Call, Looping
  <2>3. Held' => Held
    BY <2>1, <2>2 DEF Held
  <2>4. QED
    BY <1>1, <2>1, <2>3, StreamStands
<1>4. CASE Transmit("worker")
  <2>1. UNCHANGED <<toAsp, sent, delivered, msg_ptr, buf>> /\ pc["worker"] = "send"
    BY <1>4 DEF Transmit, shared, counts
  <2>2. Held' => Held
    BY <2>1 DEF Held, Looping
  <2>3. QED
    BY <1>1, <2>1, <2>2, StreamStands
<1>5. CASE Crash
  <2>1. UNCHANGED <<toAsp, sent, delivered>> /\ msg_ptr' = NULL
    BY <1>5 DEF Crash, vars, gateway, shared, counts
  <2>2. QED
    BY <1>1, <2>1, StreamStands DEF Held
<1>6. CASE Forget("worker")
  <2>1. UNCHANGED <<toAsp, sent, delivered>> /\ msg_ptr' = NULL
    BY <1>6 DEF Forget, vars, gateway, counts
  <2>2. QED
    BY <1>1, <2>1, StreamStands DEF Held
<1>7. CASE Enter \/ ClearBuffer \/ Build("worker")
  <2>1. UNCHANGED <<toAsp, sent, delivered>>
    BY <1>7 DEF Enter, ClearBuffer, Build, vars, gateway, counts
  <2>2. \E b \in Buffers, m \in Messages :
          /\ m.type # "TX_DATA"
          /\ buf' = [buf EXCEPT ![b] = m]
          /\ msg_ptr' = b \/ (msg_ptr' = msg_ptr /\ pc["worker"] = "clear")
    <3>1. message_type \in Specified /\ TypeOK
      BY <1>1 DEF ThreadsOK, NodeTypeOK
    <3>2. Created(message_type) \in Messages /\ Created(message_type).type # "TX_DATA"
      BY <3>1, CreatedFacts DEF Specified
    <3>3. CASE Build("worker")
      BY <3>2, <3>3, BufferFacts DEF Build
    <3>4. CASE Enter \/ ClearBuffer
      BY <3>4, BufferFacts, MessagesBuilt DEF Enter, ClearBuffer, Goto
    <3>5. QED
      BY <1>7, <3>3, <3>4
  <2>3. PICK b \in Buffers, m \in Messages :
          /\ m.type # "TX_DATA"
          /\ buf' = [buf EXCEPT ![b] = m]
          /\ msg_ptr' = b \/ (msg_ptr' = msg_ptr /\ pc["worker"] = "clear")
    BY <2>2
  <2>4. buf \in [Buffers -> Messages] /\ msg_ptr \in Buffers \cup {NULL}
    BY <1>1 DEF NodeTypeOK
  <2>5. buf'[b] = m /\ \A c \in Buffers : c # b => buf'[c] = buf[c]
    BY <2>3, <2>4
  <2>6. Held' => Held
    BY <2>3, <2>4, <2>5 DEF Held, Looping
  <2>7. QED
    BY <1>1, <2>1, <2>6, StreamStands
<1>8. CASE WorkerReceive
  <2>1. Received("worker") /\ UNCHANGED <<sent, delivered, msg_ptr>> /\ pc["worker"] = "return"
    BY <1>2, <1>8 DEF WorkerReceive, counts
  <2>2. QED
    BY <1>1, <2>1, ReceiveCounted, BufferFacts DEF Looping
<1>9. CASE Deliver
  <2>1. /\ UNCHANGED <<toAsp, sent>> /\ delivered' = delivered + 1
        /\ pc["worker"] = "dispatch" /\ pc'["worker"] = "guard"
        /\ msg_ptr # NULL /\ buf[msg_ptr].type = "TX_DATA"
    BY <1>2, <1>9 DEF Deliver, vars, gateway
  <2>2. Held /\ ~Held'
    BY <2>1 DEF Held, Looping
  <2>3. DataOnTheWay' = DataOnTheWay
    BY <2>1 DEF DataOnTheWay
  <2>4. DataOnTheWay \in Nat /\ delivered \in Nat /\ sent \in Nat
    BY <1>1, DataNumbers
  <2>5. QED
    BY <2>1, <2>2, <2>3, <2>4 DEF DataCounted
<1>10. QED
  BY <1>3, <1>4, <1>5, <1>6, <1>7, <1>8, <1>9 DEF WorkerStep

\* What the gateway says of the handshake is no data.
LEMMA GatewayAddsNone ==
  ASSUME GatewayTypeOK, SgRespond \/ SgRecvInactive \/ SgRecvDown \/ SgHeartbeat
  PROVE  DataOnTheWay' = DataOnTheWay
<1>1. toAsp \in Seq(Messages)
  BY DEF GatewayTypeOK
<1>2. CASE SgRecvUp
  BY <1>2, AnswerCounted DEF SgRecvUp, DataOnTheWay, MessageTypes, AspsmTypes
<1>3. CASE SgRecvAct
  BY <1>3, AnswerCounted DEF SgRecvAct, DataOnTheWay, MessageTypes, AsptmTypes
<1>4. CASE SgRecvOther
  BY <1>4 DEF SgRecvOther, DataOnTheWay
<1>5. CASE SgRecvInactive \/ SgRecvDown \/ SgNotify \/ SgHeartbeat
  <2>1. \A ack \in {"ASP_INA_ACK", "ASP_DWN_ACK"} : Msg(ack) \in Messages /\ Msg(ack).type = ack
    BY MessagesBuilt DEF MessageTypes, AspsmTypes, AsptmTypes
  <2>2. \E m \in Messages : m.type # "TX_DATA" /\ toAsp' = Append(toAsp, m)
    BY <1>5, <2>1, SpokenMessage DEF SgRecvInactive, SgRecvDown
  <2>3. PICK m \in Messages : m.type # "TX_DATA" /\ toAsp' = Append(toAsp, m)
    BY <2>2
  <2>4. Count(Append(toAsp, m), Of("TX_DATA")) = Count(toAsp, Of("TX_DATA"))
    BY <1>1, <2>3, OfFacts
  <2>5. QED
    BY <2>3, <2>4 DEF DataOnTheWay
<1>6. QED
  BY <1>2, <1>3, <1>4, <1>5 DEF SgRespond

\* The gateway counts what it sends, and the handshake only takes.
LEMMA OthersCounted ==
  ASSUME NodeInv, NodeInv', DataCounted, Handshake \/ NodeGateway \/ Signal \/ UNCHANGED nodeVars
  PROVE  DataCounted'
<1>1. NodeTypeOK /\ NodeTypeOK' /\ ThreadsOK /\ TypeOK /\ GatewayTypeOK
  BY DEF NodeInv, NodeTypeOK, TypeOK
<1>2. /\ DataOnTheWay \in Nat /\ delivered \in Nat /\ sent \in Nat
      /\ toAsp \in Seq(Messages)
  BY <1>1, DataNumbers
<1>3. CASE Handshake
  <2>1. /\ UNCHANGED <<sent, delivered, pc>> /\ pc["worker"] = "none" /\ HandshakeStep
    BY <1>1, <1>3 DEF Handshake, ThreadsOK, counts, threads
  <2>2. DataOnTheWay' \in Nat /\ DataOnTheWay' <= DataOnTheWay
    <3>1. Receive \/ UNCHANGED toAsp
      BY <2>1 DEF HandshakeStep, SendAspUp, RecvUpAck, RecvUpNotify, RecvActAck, RecvActNotify
    <3>2. Receive => DataOnTheWay' \in 0 .. DataOnTheWay
      BY <1>1, ExchangeCounted DEF DataOnTheWay
    <3>3. UNCHANGED toAsp => DataOnTheWay' = DataOnTheWay
      BY DEF DataOnTheWay
    <3>4. QED
      BY <1>2, <3>1, <3>2, <3>3
  <2>3. ~Held'
    BY <2>1 DEF Held, Looping
  <2>4. QED
    BY <1>1, <1>2, <2>1, <2>2, <2>3, NothingNew
<1>4. CASE NodeGateway
  <2>1. UNCHANGED <<pc, msg_ptr, buf, delivered>>
    BY <1>4 DEF NodeGateway, SgAnswer, SgBeat, SgData, shared, threads, counts
  <2>2. Held' <=> Held
    BY <2>1 DEF Held
  <2>3. CASE SgData
    <3>1. Msg("TX_DATA") \in Messages /\ Msg("TX_DATA").type = "TX_DATA"
      BY MessagesBuilt DEF MessageTypes
    <3>2. DataOnTheWay' = DataOnTheWay + 1 /\ sent' = sent + 1
      BY <1>2, <2>3, <3>1, OfFacts DEF SgData, DataOnTheWay
    <3>3. QED
      BY <1>2, <2>1, <2>2, <3>2 DEF DataCounted
  <2>4. CASE SgAnswer \/ SgBeat
    <3>1. UNCHANGED sent
      BY <2>4 DEF SgAnswer, SgBeat, counts
    <3>2. DataOnTheWay' = DataOnTheWay
      BY <1>1, <2>4, GatewayAddsNone DEF SgAnswer, SgBeat
    <3>3. DataOnTheWay' \in Nat /\ DataOnTheWay' <= DataOnTheWay
      BY <1>2, <3>2
    <3>4. QED
      BY <1>1, <1>2, <2>1, <2>2, <3>1, <3>3, NothingNew
  <2>5. QED
    BY <1>4, <2>3, <2>4 DEF NodeGateway
<1>5. CASE Signal \/ UNCHANGED nodeVars
  <2>1. UNCHANGED <<toAsp, sent, delivered, msg_ptr, buf>>
    BY <1>5 DEF Signal, nodeVars, vars, gateway, shared, counts
  <2>2. UNCHANGED pc["worker"]
    <3>1. ASSUME Signal PROVE UNCHANGED pc["worker"]
      BY <1>1, <3>1, GotoFacts, BufferFacts DEF Signal
    <3>2. QED
      BY <1>5, <3>1 DEF nodeVars, threads
  <2>3. Held' => Held
    BY <2>1, <2>2 DEF Held
  <2>4. QED
    BY <1>1, <2>1, <2>3, StreamStands
<1>6. QED
  BY <1>3, <1>4, <1>5

\* m3ua_recv_data returns no data message twice, however the worker and the
\* handler share their buffers, for any number of messages and signals.
THEOREM DataReturnedOnce == NodeSpec => []DataOnce
<1>1. NodeInit => DataCounted
  <2>1. ASSUME NodeInit PROVE DataCounted
    <3>1. toAsp = <<>> /\ delivered = 0 /\ sent = 0 /\ msg_ptr = NULL
      BY <2>1 DEF NodeInit, Init, GatewayInit
    <3>2. DataOnTheWay = 0
      BY <3>1, CountEmpty DEF DataOnTheWay
    <3>3. QED
      BY <3>1, <3>2 DEF DataCounted, Held
  <2>2. QED
    BY <2>1
<1>2. NodeInv /\ NodeInv' /\ DataCounted /\ [NodeNext]_nodeVars => DataCounted'
  BY MainCounted, WorkerCounted, OthersCounted DEF NodeNext, Rest
<1>3. NodeInv /\ DataCounted => DataOnce
  <2>1. ASSUME NodeInv, DataCounted PROVE DataOnce
    <3>1. DataOnTheWay \in Nat /\ delivered \in Nat /\ sent \in Nat
      BY <2>1, DataNumbers DEF NodeInv
    <3>2. QED
      BY <2>1, <3>1 DEF DataCounted, DataOnce
  <2>2. QED
    BY <2>1
<1>4. QED
  BY <1>1, <1>2, <1>3, NodeInvariant, PTL DEF NodeSpec

----------------------------------------------------------------------------
(* The handshake leaves no message of the gateway behind. *)

\* What the gateway has still to say, or has said and the node not read: an
\* acknowledgement and a NTFY for each request, and the NTFY that is due.
Owes(s, t, due) == 2 * Count(s, Of("ASP_UP")) + 2 * Count(s, Of("ASP_ACT")) + Len(t)
                     + (IF due = "none" THEN 0 ELSE 1)

\* What the loop has still to read of an answer before it goes on.
Awaited == IF host_state \in {asp_sg_up_tx, asp_sg_active_tx} THEN 3 - nth ELSE 0

NothingOver == Owes(toSg, toAsp, sgNtfy) <= Awaited

----------------------------------------------------------------------------
(* On an idle association the handler is heard. *)

Quiet == beats = 0 /\ sent = 0

Said == sgAsp # "active" \/ Has(toSg, "ASP_INA") \/ Has(toSg, "ASP_DOWN")

\* The worker has set msg_ptr for its receive, and sets it no more: on an idle
\* association there is nothing for it to return.
EnteredSteps == {"call", "return", "dispatch", "clear"}

Entered == pc["worker"] \in EnteredSteps

\* What the handler is to send is where msg_ptr points.
Ready(type) == msg_ptr = <<"main", "send">> /\ buf[<<"main", "send">>].type = type

\* No data and no heartbeat anywhere, so the worker neither returns nor sends;
\* once the route is registered the gateway has no request left to answer.
IdleOK ==
  /\ pc["worker"] \in {"none", "guard", "enter", "stopped"} \cup EnteredSteps
  /\ \A type \in {"TX_DATA", "ASP_HTBT"} :
       ~Has(toAsp, type) /\ \A b \in Buffers : buf[b].type # type
  /\ pc["main"] = "handshake" => NothingOver
  /\ pc["main"] \in {"handshake", "audit", "create"} => leaving = "ASP_INA"
  /\ num_routes = 1 => ~Has(toSg, "ASP_UP") /\ ~Has(toSg, "ASP_ACT")

\* While the gateway has heard nothing: the handler may have lost ASP_INA to the
\* worker's Enter, but that happens once, so not ASP_DOWN too.
SilentOK ==
  /\ toAsp = <<>> /\ sgNtfy = "none"
  /\ pc["main"] # "exited"
  /\ pc["main"] = "build" => message_type = leaving
  /\ pc["main"] \in {"forget", "clear", "call", "return"} => leaving = "ASP_INA" /\ Entered
  /\ pc["main"] = "send" => Ready(leaving) \/ (leaving = "ASP_INA" /\ Entered)
  /\ leaving = "ASP_DOWN" => Entered

QuietOK == Quiet => IdleOK /\ (num_routes = 1 /\ ~Said => SilentOK)

----------------------------------------------------------------------------
(* The handshake reads what it is owed. *)

\* How what the gateway owes changes with the streams.
LEMMA OwesFacts ==
  ASSUME NEW s \in Seq(Messages), NEW t \in Seq(Messages), NEW due
  PROVE  /\ Owes(s, t, due) \in Nat
         /\ Owes(s, t, due) = 0 => /\ t = <<>> /\ due = "none"
                                   /\ ~Has(s, "ASP_UP") /\ ~Has(s, "ASP_ACT")
         /\ \A m \in Messages :
              /\ Owes(Append(s, m), t, due) = IF m.type \in {"ASP_UP", "ASP_ACT"}
                                                THEN Owes(s, t, due) + 2 ELSE Owes(s, t, due)
              /\ Owes(s, Append(t, m), due) = Owes(s, t, due) + 1
         /\ s # <<>> => Owes(s, t, due) = IF Head(s).type \in {"ASP_UP", "ASP_ACT"}
                                            THEN Owes(Tail(s), t, due) + 2
                                            ELSE Owes(Tail(s), t, due)
         /\ t # <<>> => Owes(s, t, due) = Owes(s, Tail(t), due) + 1
         /\ due # "none" => Owes(s, t, due) = Owes(s, t, "none") + 1
<1> DEFINE up == Count(s, Of("ASP_UP"))
           act == Count(s, Of("ASP_ACT"))
           n == IF due = "none" THEN 0 ELSE 1
<1>1. up \in Nat /\ act \in Nat /\ n \in {0, 1} /\ Len(t) \in Nat
  BY OfFacts
<1>2. Owes(s, t, due) = 2 * up + 2 * act + Len(t) + n
  BY DEF Owes
<1>3. Len(t) = 0 <=> t = <<>>
  OBVIOUS
<1>4. (up = 0 <=> ~Has(s, "ASP_UP")) /\ (act = 0 <=> ~Has(s, "ASP_ACT"))
  BY OfFacts
<1>5. ASSUME NEW m \in Messages
      PROVE  /\ Owes(Append(s, m), t, due) = IF m.type \in {"ASP_UP", "ASP_ACT"}
                                               THEN Owes(s, t, due) + 2 ELSE Owes(s, t, due)
             /\ Owes(s, Append(t, m), due) = Owes(s, t, due) + 1
  <2>1. /\ Count(Append(s, m), Of("ASP_UP")) = IF m.type = "ASP_UP" THEN up + 1 ELSE up
        /\ Count(Append(s, m), Of("ASP_ACT")) = IF m.type = "ASP_ACT" THEN act + 1 ELSE act
    BY OfFacts
  <2>2. Len(Append(t, m)) = Len(t) + 1
    OBVIOUS
  <2>3. Owes(s, Append(t, m), due) = 2 * up + 2 * act + (Len(t) + 1) + n
    BY <2>2 DEF Owes
  <2>4. Owes(Append(s, m), t, due) = 2 * (IF m.type = "ASP_UP" THEN up + 1 ELSE up)
          + 2 * (IF m.type = "ASP_ACT" THEN act + 1 ELSE act) + Len(t) + n
    BY <2>1 DEF Owes
  <2> HIDE DEF up, act, n
  <2>5. QED
    BY <1>1, <1>2, <2>3, <2>4
<1>6. ASSUME s # <<>>
      PROVE  Owes(s, t, due) = IF Head(s).type \in {"ASP_UP", "ASP_ACT"}
                                 THEN Owes(Tail(s), t, due) + 2 ELSE Owes(Tail(s), t, due)
  <2> DEFINE up1 == Count(Tail(s), Of("ASP_UP"))
             act1 == Count(Tail(s), Of("ASP_ACT"))
  <2>1. Tail(s) \in Seq(Messages)
    BY <1>6
  <2>2. up1 \in Nat /\ act1 \in Nat
    BY <2>1, OfFacts
  <2>3. /\ up = IF Head(s).type = "ASP_UP" THEN up1 + 1 ELSE up1
        /\ act = IF Head(s).type = "ASP_ACT" THEN act1 + 1 ELSE act1
    BY <1>6, OfFacts
  <2>4. Owes(Tail(s), t, due) = 2 * up1 + 2 * act1 + Len(t) + n
    BY DEF Owes
  <2> HIDE DEF up, act, n, up1, act1
  <2>5. QED
    BY <1>1, <1>2, <2>2, <2>3, <2>4
<1>7. t # <<>> => Owes(s, t, due) = Owes(s, Tail(t), due) + 1
  <2>1. t # <<>> => Len(t) = Len(Tail(t)) + 1 /\ Len(Tail(t)) \in Nat
    OBVIOUS
  <2>2. Owes(s, Tail(t), due) = 2 * up + 2 * act + Len(Tail(t)) + n
    BY DEF Owes
  <2> HIDE DEF up, act, n
  <2>3. QED
    BY <1>1, <1>2, <2>1, <2>2
<1>8. due # "none" => Owes(s, t, due) = Owes(s, t, "none") + 1
  <2>1. Owes(s, t, "none") = 2 * up + 2 * act + Len(t) + 0
    BY DEF Owes
  <2>2. due # "none" => n = 1
    OBVIOUS
  <2> HIDE DEF up, act, n
  <2>3. QED
    BY <1>1, <1>2, <2>1, <2>2
<1>9. n = 0 => due = "none"
  OBVIOUS
<1> HIDE DEF up, act, n
<1>10. Owes(s, t, due) \in Nat
  BY <1>1, <1>2
<1>11. Owes(s, t, due) = 0 => up = 0 /\ act = 0 /\ Len(t) = 0 /\ n = 0
  BY <1>1, <1>2
<1>12. QED
  BY <1>3, <1>4, <1>5, <1>6, <1>7, <1>8, <1>9, <1>10, <1>11

\* Answering, the gateway pays with a message for each it owes.
LEMMA GatewayOwes ==
  ASSUME GatewayTypeOK, SgRespond
  PROVE  \/ Owes(toSg', toAsp', sgNtfy') = Owes(toSg, toAsp, sgNtfy)
         \/ Owes(toSg, toAsp, sgNtfy) = Owes(toSg', toAsp', sgNtfy') + 2
<1>1. toSg \in Seq(Messages) /\ toAsp \in Seq(Messages)
  BY DEF GatewayTypeOK
<1>2. ASSUME NEW type, SgTakes(type)
      PROVE  /\ toSg' \in Seq(Messages) /\ sgNtfy = "none"
             /\ Owes(toSg, toAsp, "none") = IF type \in {"ASP_UP", "ASP_ACT"}
                                              THEN Owes(toSg', toAsp, "none") + 2
                                              ELSE Owes(toSg', toAsp, "none")
  BY <1>1, <1>2, OwesFacts DEF SgTakes
<1>3. ASSUME NEW ack \in MessageTypes, NEW after \in {"up", "act"}, Answer(ack, after),
             toSg' \in Seq(Messages)
      PROVE  Owes(toSg', toAsp', sgNtfy') = Owes(toSg', toAsp, "none") + 2
  <2>1. Msg(ack) \in Messages /\ Append(toAsp, Msg(ack)) \in Seq(Messages)
    BY <1>1, MessagesBuilt, AppendHas
  <2>2. /\ Owes(toSg', toAsp, "none") \in Nat
        /\ Owes(toSg', Append(toAsp, Msg(ack)), "none") = Owes(toSg', toAsp, "none") + 1
    BY <1>1, <1>3, <2>1, OwesFacts
  <2>3. CASE Burst
    <3>1. PICK s \in StatusesAfter(after), rc \in NtfyContexts :
                 /\ toAsp' = toAsp \o <<Msg(ack), Notify(s, rc)>>
                 /\ sgNtfy' = "none"
      BY <1>3, <2>3 DEF Answer
    <3>2. Notify(s, rc) \in Messages
      BY NotifiesAreMessages
    <3> DEFINE mid == Append(toAsp, Msg(ack))
               note == Notify(s, rc)
    <3>3. toAsp' = Append(mid, note) /\ mid \in Seq(Messages) /\ note \in Messages
      BY <1>1, <2>1, <3>1, <3>2, ConcatTwo
    <3>4. Owes(toSg', mid, "none") = Owes(toSg', toAsp, "none") + 1
      BY <2>2
    <3> HIDE DEF mid, note
    <3>5. Owes(toSg', Append(mid, note), "none") = Owes(toSg', mid, "none") + 1
      BY <1>3, <3>3, OwesFacts
    <3>6. Owes(toSg', toAsp', sgNtfy') = Owes(toSg', toAsp, "none") + 1 + 1
      BY <3>1, <3>3, <3>4, <3>5
    <3>7. QED
      BY <2>2, <3>6
  <2>4. CASE ~Burst
    <3>1. toAsp' = Append(toAsp, Msg(ack)) /\ sgNtfy' = after /\ after # "none"
      BY <1>3, <2>4 DEF Answer
    <3>2. Owes(toSg', Append(toAsp, Msg(ack)), after) =
            Owes(toSg', Append(toAsp, Msg(ack)), "none") + 1
      BY <1>3, <2>1, <3>1, OwesFacts
    <3>3. QED
      BY <2>2, <3>1, <3>2
  <2>5. QED
    BY <2>3, <2>4
<1>4. CASE SgRecvUp
  <2>1. SgTakes("ASP_UP") /\ Answer("ASP_UPACK", "up") /\ "ASP_UPACK" \in MessageTypes
    BY <1>4 DEF SgRecvUp, MessageTypes, AspsmTypes
  <2>2. QED
    BY <1>2, <1>3, <2>1
<1>5. CASE SgRecvAct
  <2>1. SgTakes("ASP_ACT") /\ "ASP_ACT_ACK" \in MessageTypes
    BY <1>5 DEF SgRecvAct, MessageTypes, AsptmTypes
  <2>2. UNCHANGED <<sgNtfy, toAsp>> \/ Answer("ASP_ACT_ACK", "act")
    BY <1>5 DEF SgRecvAct
  <2>3. QED
    BY <1>2, <1>3, <2>1, <2>2
<1>6. CASE SgRecvOther
  <2>1. /\ UNCHANGED <<sgNtfy, toAsp>>
        /\ \E type : type \notin {"ASP_UP", "ASP_ACT"} /\ SgTakes(type)
    BY <1>6 DEF SgRecvOther
  <2>2. QED
    BY <1>2, <2>1
<1>7. CASE SgNotify
  <2>1. /\ sgNtfy # "none" /\ sgNtfy' = "none" /\ toSg' = toSg
        /\ \E m \in Messages : toAsp' = Append(toAsp, m)
    BY <1>7, NotifiesAreMessages DEF SgNotify
  <2>2. PICK m \in Messages : toAsp' = Append(toAsp, m)
    BY <2>1
  <2>3. Owes(toSg, Append(toAsp, m), "none") = Owes(toSg, toAsp, "none") + 1
    BY <1>1, OwesFacts
  <2>4. Owes(toSg, toAsp, sgNtfy) = Owes(toSg, toAsp, "none") + 1
    BY <1>1, <2>1, OwesFacts
  <2>5. QED
    BY <2>1, <2>2, <2>3, <2>4
<1>8. QED
  BY <1>4, <1>5, <1>6, <1>7 DEF SgRespond

\* A receive of the loop takes one message off what is owed, or times out.
LEMMA ReceiveOwes ==
  ASSUME TypeOK, Receive, NEW due
  PROVE  /\ toAsp' \in Seq(Messages)
         /\ \/ Owes(toSg, toAsp, due) = Owes(toSg, toAsp', due) + 1
            \/ /\ Owes(toSg, toAsp', due) = Owes(toSg, toAsp, due)
               /\ Buffer.type = "MGMT_ERR"
<1>1. toSg \in Seq(Messages) /\ toAsp \in Seq(Messages)
  BY DEF TypeOK, GatewayTypeOK
<1>2. CASE toAsp = <<>>
  BY <1>1, <1>2, MessagesBuilt DEF Receive, Buffer
<1>3. CASE toAsp # <<>>
  <2>1. toAsp' = Tail(toAsp) /\ toAsp' \in Seq(Messages)
    BY <1>1, <1>3 DEF Receive
  <2>2. QED
    BY <1>1, <1>3, <2>1, OwesFacts
<1>4. QED
  BY <1>2, <1>3

\* Sending a request makes the gateway owe two messages, if it arrives.
LEMMA SendOwes ==
  ASSUME TypeOK, NEW m \in Messages, Send(m), NEW t \in Seq(Messages), NEW due
  PROVE  \/ Owes(toSg', t, due) = Owes(toSg, t, due)
         \/ /\ m.type \in {"ASP_UP", "ASP_ACT"}
            /\ Owes(toSg', t, due) = Owes(toSg, t, due) + 2
<1>1. toSg \in Seq(Messages)
  BY DEF TypeOK, GatewayTypeOK
<1>2. toSg' = Append(toSg, m) \/ toSg' = toSg
  BY DEF Send
<1>3. Owes(Append(toSg, m), t, due) = IF m.type \in {"ASP_UP", "ASP_ACT"}
                                        THEN Owes(toSg, t, due) + 2 ELSE Owes(toSg, t, due)
  BY <1>1, OwesFacts
<1>4. QED
  BY <1>2, <1>3

\* A step of the loop sends when nothing is owed, and goes on when it has read
\* both messages of an answer.
LEMMA LoopOwes ==
  ASSUME TypeOK, host_state \in HandshakeStates, host_state = asp_sg_init => nth = 1,
         NothingOver, HandshakeStep
  PROVE  NothingOver'
<1> DEFINE o == Owes(toSg, toAsp, sgNtfy)
           read == Owes(toSg, toAsp', sgNtfy)
           o1 == Owes(toSg', toAsp', sgNtfy')
<1>1. sgNtfy' = sgNtfy /\ toSg \in Seq(Messages) /\ toAsp \in Seq(Messages) /\ nth \in {1, 2}
  BY DEF HandshakeStep, SendAspUp, RecvUpAck, RecvUpNotify, RecvActAck, RecvActNotify,
         TypeOK, GatewayTypeOK
<1>2. Receive => /\ toAsp' \in Seq(Messages) /\ read \in Nat
                 /\ o = read + 1 \/ (read = o /\ Buffer.type = "MGMT_ERR")
  BY <1>1, ReceiveOwes, OwesFacts
<1>3. o \in Nat
  BY <1>1, OwesFacts
<1>4. o <= Awaited
  BY DEF NothingOver
<1>5. UNCHANGED toSg => o1 = read
  BY <1>1
<1>6. CASE SendAspUp
  <2>1. /\ host_state = asp_sg_init /\ host_state' = asp_sg_up_tx /\ nth' = nth
        /\ toAsp' = toAsp /\ Send(Msg("ASP_UP"))
    BY <1>6 DEF SendAspUp
  <2>2. Msg("ASP_UP") \in Messages
    BY MessagesBuilt DEF MessageTypes, AspsmTypes
  <2>3. Owes(toSg', toAsp, sgNtfy) = o \/ Owes(toSg', toAsp, sgNtfy) = o + 2
    BY <1>1, <2>1, <2>2, SendOwes
  <2>4. o1 = o \/ o1 = o + 2
    BY <1>1, <2>1, <2>3
  <2> HIDE DEF o, read, o1
  <2>5. o = 0 /\ Awaited' = 2
    BY <1>3, <1>4, <2>1 DEF Awaited
  <2>6. o1 <= 2
    BY <1>3, <2>4, <2>5
  <2>7. QED
    BY <2>5, <2>6 DEF NothingOver, o1
<1>7. CASE RecvUpAck \/ RecvActAck
  <2>1. /\ host_state \in {asp_sg_up_tx, asp_sg_active_tx} /\ nth = 1 /\ Receive
        /\ UNCHANGED <<host_state, toSg>>
        /\ nth' = 1 \/ (nth' = 2 /\ Buffer.type \in {"ASP_UPACK", "ASP_ACT_ACK"})
    BY <1>7 DEF RecvUpAck, RecvActAck, IsUpAck, IsActAck
  <2>2. Awaited = 2 /\ Awaited' = 3 - nth'
    BY <2>1 DEF Awaited
  <2> HIDE DEF o, read, o1
  <2>3. o1 = read
    BY <1>5, <2>1
  <2>4. read <= 3 - nth'
    BY <1>2, <1>3, <1>4, <2>1, <2>2
  <2>5. QED
    BY <2>2, <2>3, <2>4 DEF NothingOver, o1
<1>8. CASE RecvUpNotify \/ RecvActNotify
  <2>1. /\ host_state \in {asp_sg_up_tx, asp_sg_active_tx} /\ nth = 2 /\ nth' = 1 /\ Receive
        /\ \/ UNCHANGED <<host_state, toSg>>
           \/ Buffer.type = "NTFY"
    BY <1>8 DEF RecvUpNotify, RecvActNotify, IsNotify
  <2>2. Awaited = 1
    BY <2>1 DEF Awaited
  <2>3. CASE UNCHANGED <<host_state, toSg>>
    <3> HIDE DEF o, read, o1
    <3>1. o1 = read /\ Awaited' = 2
      BY <1>5, <2>1, <2>3 DEF Awaited
    <3>2. read <= 2
      BY <1>2, <1>3, <1>4, <2>1, <2>2
    <3>3. QED
      BY <3>1, <3>2 DEF NothingOver, o1
  <2>4. CASE Buffer.type = "NTFY"
    <3> HIDE DEF o, read, o1
    <3>1. read = 0
      BY <1>2, <1>3, <1>4, <2>1, <2>2, <2>4
    <3>2. CASE UNCHANGED toSg
      <4>1. o1 = 0
        BY <1>5, <3>1, <3>2
      <4>2. Awaited' \in {0, 2}
        BY <2>1 DEF Awaited
      <4>3. QED
        BY <4>1, <4>2 DEF NothingOver, o1
    <3>3. CASE /\ host_state' = asp_sg_active_tx
               /\ routing_context' = CollectContext(Buffer)
               /\ Send(WithContext("ASP_ACT", routing_context'))
      <4>1. routing_context' \in Contexts
        BY <2>1, <3>3, ReceiveFacts DEF CollectContext, TypeOK, Messages
      <4>2. WithContext("ASP_ACT", routing_context') \in Messages
        BY <4>1, MessagesBuilt DEF MessageTypes, AsptmTypes
      <4>3. /\ Owes(toSg', toAsp', sgNtfy) = Owes(toSg, toAsp', sgNtfy)
               \/ Owes(toSg', toAsp', sgNtfy) = Owes(toSg, toAsp', sgNtfy) + 2
        BY <1>2, <2>1, <3>3, <4>2, SendOwes
      <4>4. o1 = 0 \/ o1 = 2
        BY <1>1, <3>1, <4>3 DEF o1, read
      <4>5. Awaited' = 2
        BY <2>1, <3>3 DEF Awaited
      <4>6. QED
        BY <4>4, <4>5 DEF NothingOver, o1
    <3>4. CASE host_state' = asp_sg_DAUD_tx /\ Send(WithContext("DAUD", routing_context))
      <4>1. /\ WithContext("DAUD", routing_context) \in Messages
            /\ WithContext("DAUD", routing_context).type = "DAUD"
        BY MessagesBuilt DEF MessageTypes, TypeOK
      <4>2. Owes(toSg', toAsp', sgNtfy) = Owes(toSg, toAsp', sgNtfy)
        BY <1>2, <2>1, <3>4, <4>1, SendOwes
      <4>3. o1 = 0
        BY <1>1, <3>1, <4>2 DEF o1, read
      <4>4. Awaited' = 0
        BY <3>4 DEF Awaited
      <4>5. QED
        BY <4>3, <4>4 DEF NothingOver, o1
    <3>5. QED
      BY <1>8, <3>2, <3>3, <3>4 DEF RecvUpNotify, RecvActNotify
  <2>5. QED
    BY <2>1, <2>3, <2>4
<1>9. QED
  BY <1>6, <1>7, <1>8 DEF HandshakeStep

----------------------------------------------------------------------------
(* The steps on an idle association. *)

\* Steps of the threads leave the association as idle as it was.
LEMMA IdleStands ==
  ASSUME IdleOK, BuffersOK, buf \in [Buffers -> Messages],
         pc'["worker"] \in {"none", "guard", "enter", "stopped"} \cup EnteredSteps,
         \A type : Has(toAsp', type) => Has(toAsp, type),
         \A b \in Buffers : \/ buf'[b] = buf[b] \/ Has(toAsp, buf'[b].type)
                            \/ buf'[b].type \in Specified,
         \A type \in {"ASP_UP", "ASP_ACT"} : Has(toSg', type) => Has(toSg, type),
         UNCHANGED num_routes, pc'["main"] # "handshake",
         pc'["main"] \in {"audit", "create"} => leaving' = "ASP_INA"
  PROVE  IdleOK'
<1>1. \A type \in {"TX_DATA", "ASP_HTBT"} :
        ~Has(toAsp', type) /\ \A b \in Buffers : buf'[b].type # type
  BY DEF IdleOK, Specified
<1>2. QED
  BY <1>1 DEF IdleOK

\* The steps of the worker that an idle association does not lead to.
LEMMA WorkerIdle ==
  ASSUME NodeTypeOK, IdleOK
  PROVE  /\ ~Deliver /\ ~Heartbeat
         /\ ~Build("worker") /\ ~Transmit("worker") /\ ~Forget("worker")
<1>1. pc["worker"] \notin {"build", "send", "forget"}
  BY DEF IdleOK, EnteredSteps
<1>2. msg_ptr # NULL => msg_ptr \in Buffers
  BY DEF NodeTypeOK
<1>3. QED
  BY <1>1, <1>2 DEF IdleOK, Deliver, Heartbeat, Build, Transmit, Forget, Goto

\* The worker is at work only when the route is registered.
LEMMA WorkerHasRoute ==
  ASSUME NodeInv, WorkerStep
  PROVE  num_routes = 1 /\ pc["main"] \in {"audit", "create", "hybernate"} \cup HandlerSteps
<1>1. pc["worker"] # "none"
  BY DEF WorkerStep, Guard, Enter, WorkerReceive, Crash, Deliver, Heartbeat, Ignore, ClearBuffer,
         Build, Transmit, Forget, Call, Goto
<1>2. pc["main"] # "handshake" /\ ~Ended
  BY <1>1 DEF NodeInv, ThreadsOK, WorkerStep
<1>3. QED
  BY <1>2 DEF NodeInv, NodeTypeOK, ThreadsOK, Ended, HandlerSteps

\* What the worker does on an idle association: nothing but receive, which it
\* enters once.
LEMMA WorkerQuiet ==
  ASSUME NodeInv, NodeInv', IdleOK, WorkerStep
  PROVE  /\ IdleOK'
         /\ Said => Said'
         /\ SilentOK /\ ~Said => SilentOK'
<1>1. NodeTypeOK /\ NodeTypeOK' /\ ThreadsOK /\ BuffersOK /\ TypeOK
  BY DEF NodeInv, NodeTypeOK
<1>2. /\ buf \in [Buffers -> Messages] /\ leaving \in {"ASP_INA", "ASP_DOWN"}
      /\ target \in [Threads -> Buffers \cup {NULL}]
      /\ <<"worker", "recv">> \in Buffers /\ <<"main", "send">> \in Buffers
      /\ <<"worker", "recv">> # <<"main", "send">>
  BY <1>1, BufferFacts DEF NodeTypeOK
<1>3. Guard \/ Enter \/ WorkerReceive \/ Crash \/ Ignore \/ ClearBuffer \/ Call("worker")
  BY <1>1, WorkerIdle DEF WorkerStep
<1>4. /\ num_routes = 1
      /\ pc["main"] \in {"audit", "create", "hybernate"} \cup HandlerSteps
  BY WorkerHasRoute
<1>5. /\ UNCHANGED <<sgAsp, sgNtfy, toSg, num_routes, message_type, leaving>>
      /\ toAsp' = toAsp \/ WorkerReceive
  BY <1>3 DEF Guard, Enter, WorkerReceive, Crash, Ignore, ClearBuffer, Call, vars, gateway,
              shared, counts
<1>6. ASSUME NEW from, NEW to, Goto("worker", from, to)
      PROVE  pc["worker"] = from /\ pc'["worker"] = to /\ UNCHANGED pc["main"]
  BY <1>1, <1>6, GotoFacts, BufferFacts DEF Goto
<1>7. /\ UNCHANGED pc["main"] \/ pc'["main"] = "crashed"
      /\ pc'["worker"] \in {"none", "guard", "enter", "stopped"} \cup EnteredSteps
      /\ Entered => Entered'
      /\ Enter => ~Entered /\ Entered'
  <2>1. CASE Crash
    <3>1. pc'["main"] = "crashed" /\ UNCHANGED pc["worker"]
      BY <1>1, <2>1, GotoFacts, BufferFacts DEF Crash
    <3>2. ~Enter
      BY <2>1 DEF Crash, Enter, Goto
    <3>3. QED
      BY <3>1, <3>2 DEF IdleOK, Entered
  <2>2. CASE Guard \/ Enter \/ WorkerReceive \/ Ignore \/ ClearBuffer \/ Call("worker")
    BY <1>6, <2>2 DEF Guard, Enter, WorkerReceive, Ignore, ClearBuffer, Call, Entered, EnteredSteps
  <2>3. QED
    BY <1>3, <2>1, <2>2
<1>8. /\ \A type : Has(toAsp', type) => Has(toAsp, type)
      /\ \A b \in Buffers : \/ buf'[b] = buf[b] \/ Has(toAsp, buf'[b].type)
                            \/ buf'[b].type \in Specified
  <2>1. CASE WorkerReceive
    <3>1. Received("worker")
      BY <2>1 DEF WorkerReceive
    <3>2. QED
      BY <1>1, <1>2, <3>1, ReceivedFacts, BufferFacts
  <2>2. CASE Enter \/ ClearBuffer
    <3>1. buf' = [buf EXCEPT ![<<"worker", "recv">>] = NoMessage]
      BY <2>2 DEF Enter, ClearBuffer
    <3>2. \A b \in Buffers : buf'[b] = buf[b] \/ buf'[b].type = "MGMT_ERR"
      BY <1>2, <3>1, MessagesBuilt
    <3>3. QED
      BY <1>3, <1>5, <2>2, <3>2 DEF Specified, Enter, ClearBuffer, vars, gateway
  <2>3. CASE Guard \/ Crash \/ Ignore \/ Call("worker")
    BY <2>3 DEF Guard, Crash, Ignore, Call, vars, gateway, shared
  <2>4. QED
    BY <1>3, <2>1, <2>2, <2>3
<1>9. IdleOK'
  <2>1. pc'["main"] # "handshake"
    BY <1>4, <1>7 DEF HandlerSteps
  <2>2. pc'["main"] \in {"audit", "create"} => leaving' = "ASP_INA"
    BY <1>5, <1>7 DEF IdleOK
  <2>3. QED
    BY <1>1, <1>2, <1>5, <1>7, <1>8, <2>1, <2>2, IdleStands
<1>10. Said => Said'
  BY <1>5 DEF Said
<1>11. ASSUME SilentOK PROVE SilentOK'
  <2>1. /\ toAsp' = <<>> /\ sgNtfy' = "none"
        /\ buf' \in {buf, [buf EXCEPT ![<<"worker", "recv">>] = NoMessage]}
    <3>1. toAsp = <<>> /\ sgNtfy = "none"
      BY <1>11 DEF SilentOK
    <3>2. WorkerReceive => toAsp' = <<>> /\ buf' = buf
      BY <3>1 DEF WorkerReceive, Received
    <3>3. Guard \/ Crash \/ Ignore \/ Call("worker") => buf' = buf
      BY DEF Guard, Crash, Ignore, Call, shared
    <3>4. Enter \/ ClearBuffer => buf' = [buf EXCEPT ![<<"worker", "recv">>] = NoMessage]
      BY DEF Enter, ClearBuffer
    <3>5. QED
      BY <1>3, <1>5, <3>1, <3>2, <3>3, <3>4
  <2>2. buf'[<<"main", "send">>] = buf[<<"main", "send">>]
    BY <1>2, <2>1
  <2>3. pc'["main"] # "exited"
    BY <1>4, <1>7 DEF HandlerSteps
  <2>4. CASE Enter
    <3>1. /\ ~Entered /\ Entered' /\ leaving = "ASP_INA"
          /\ UNCHANGED pc["main"] \/ pc'["main"] = "crashed"
      BY <1>2, <1>7, <1>11, <2>4 DEF SilentOK
    <3>2. QED
      BY <1>5, <1>11, <2>1, <2>3, <3>1 DEF SilentOK
  <2>5. CASE ~Enter
    <3>1. msg_ptr' = msg_ptr
      BY <1>3, <2>5 DEF Guard, WorkerReceive, Crash, Ignore, ClearBuffer, Call, shared
    <3>2. Ready(leaving) => Ready(leaving)'
      BY <1>5, <2>2, <3>1 DEF Ready
    <3>3. QED
      BY <1>5, <1>7, <1>11, <2>1, <2>3, <3>2 DEF SilentOK
  <2>6. QED
    BY <2>4, <2>5
<1>12. QED
  BY <1>9, <1>10, <1>11

\* Sending takes nothing off the stream.
LEMMA SendKeeps ==
  ASSUME TypeOK, NEW m \in Messages, Send(m)
  PROVE  \A type : Has(toSg, type) => Has(toSg', type)
<1>1. toSg \in Seq(Messages)
  BY DEF TypeOK, GatewayTypeOK
<1>2. QED
  BY <1>1, AppendHas DEF Send

\* The steps of the main thread after register_route: the gateway hears of it
\* when ASP_INA or ASP_DOWN is sent, and no failed send is to blame otherwise.
LEMMA MainQuiet ==
  ASSUME MaxSendFailures = 0, NodeInv, NodeInv', IdleOK, MainStep, ~Handshake, ~RegisterRoute
  PROVE  /\ IdleOK'
         /\ Said => Said'
         /\ num_routes = 1 /\ num_routes' = 1
         /\ SilentOK /\ ~Said' => SilentOK'
<1>1. NodeTypeOK /\ NodeTypeOK' /\ ThreadsOK /\ BuffersOK /\ TypeOK
  BY DEF NodeInv, NodeTypeOK
<1>2. /\ buf \in [Buffers -> Messages] /\ leaving \in {"ASP_INA", "ASP_DOWN"}
      /\ target \in [Threads -> Buffers \cup {NULL}]
      /\ <<"main", "recv">> \in Buffers /\ <<"main", "send">> \in Buffers
      /\ <<"main", "recv">> # <<"main", "send">>
      /\ toAsp \in Seq(Messages) /\ toSg \in Seq(Messages) /\ failed = 0
  BY <1>1, BufferFacts DEF NodeTypeOK, TypeOK, GatewayTypeOK
<1>3. \/ DoAudit \/ CreateWorker \/ Leave \/ PrepareReceive \/ ReceiveAck
      \/ Build("main") \/ Transmit("main") \/ Forget("main") \/ Call("main")
  BY DEF MainStep
<1>4. ASSUME NEW to, pc' = [pc EXCEPT !["main"] = to]
      PROVE  pc'["main"] = to /\ UNCHANGED pc["worker"]
  BY <1>1, <1>4, GotoFacts, BufferFacts
<1>5. num_routes = 1 /\ num_routes' = 1
  <2>1. pc["main"] \in {"audit", "create", "hybernate"} \cup HandlerSteps
    BY <1>3 DEF DoAudit, CreateWorker, Leave, PrepareReceive, ReceiveAck, Build, Transmit,
                Forget, Call, Goto, HandlerSteps
  <2>2. UNCHANGED num_routes
    BY <1>3 DEF DoAudit, CreateWorker, Leave, PrepareReceive, ReceiveAck, Build, Transmit,
                Forget, Call, shared
  <2>3. QED
    BY <1>1, <2>1, <2>2 DEF ThreadsOK
<1>6. CASE DoAudit
  <2>1. /\ pc["main"] = "audit" /\ pc'["main"] = "create" /\ UNCHANGED pc["worker"]
        /\ UNCHANGED <<sgAsp, sgNtfy, toAsp, num_routes, message_type, msg_ptr, buf, leaving>>
        /\ Send(WithContext("DAUD", routing_context))
    BY <1>4, <1>6 DEF DoAudit, Goto, shared
  <2>2. /\ WithContext("DAUD", routing_context) \in Messages
        /\ WithContext("DAUD", routing_context).type = "DAUD"
    BY <1>1, MessagesBuilt DEF MessageTypes, TypeOK
  <2>3. \A type : Has(toSg', type) => Has(toSg, type) \/ type = "DAUD"
    BY <1>1, <2>1, <2>2, SendFacts
  <2>4. \A type : Has(toSg, type) => Has(toSg', type)
    BY <1>1, <2>1, <2>2, SendKeeps
  <2>5. IdleOK'
    BY <1>1, <1>2, <2>1, <2>3, IdleStands DEF IdleOK
  <2>6. QED
    BY <1>5, <2>1, <2>4, <2>5 DEF Said, SilentOK, Entered
<1>7. CASE CreateWorker
  <2>1. /\ pc["main"] = "create" /\ pc'["main"] = "hybernate" /\ pc'["worker"] = "guard"
        /\ UNCHANGED <<sgAsp, sgNtfy, toAsp, toSg, num_routes, message_type, msg_ptr, buf,
                       leaving>>
    BY <1>7 DEF CreateWorker, vars, gateway, shared
  <2>2. IdleOK'
    BY <1>1, <1>2, <2>1, IdleStands DEF IdleOK
  <2>3. leaving = "ASP_INA"
    BY <2>1 DEF IdleOK
  <2>4. QED
    BY <1>5, <2>1, <2>2, <2>3 DEF Said, SilentOK
<1>8. CASE Leave
  <2>1. /\ pc["main"] = "leave" /\ pc'["main"] = "build" /\ UNCHANGED pc["worker"]
        /\ UNCHANGED <<sgAsp, sgNtfy, toAsp, toSg, num_routes, msg_ptr, buf, leaving>>
        /\ message_type' = leaving
    BY <1>4, <1>8 DEF Leave, Goto, gateway
  <2>2. IdleOK'
    BY <1>1, <1>2, <2>1, IdleStands DEF IdleOK
  <2>3. QED
    BY <1>5, <2>1, <2>2 DEF Said, SilentOK, Entered
<1>9. CASE PrepareReceive
  <2>1. /\ pc["main"] = "clear" /\ pc'["main"] = "call" /\ UNCHANGED pc["worker"]
        /\ UNCHANGED <<sgAsp, sgNtfy, toAsp, toSg, num_routes, message_type, leaving>>
        /\ buf' = [buf EXCEPT ![<<"main", "send">>] = NoMessage,
                             ![<<"main", "recv">>] = NoMessage]
    BY <1>4, <1>9 DEF PrepareReceive, Goto, vars, gateway
  <2>2. \A b \in Buffers : buf'[b] = buf[b] \/ buf'[b].type \in Specified
    BY <1>2, <2>1, MessagesBuilt DEF Specified
  <2>3. IdleOK'
    BY <1>1, <1>2, <2>1, <2>2, IdleStands DEF IdleOK
  <2>4. QED
    BY <1>5, <2>1, <2>3 DEF Said, SilentOK, Entered
<1>10. CASE ReceiveAck
  <2>1. /\ pc["main"] = "return" /\ UNCHANGED pc["worker"]
        /\ pc'["main"] = IF leaving = "ASP_INA" THEN "leave" ELSE "exited"
        /\ UNCHANGED <<sgAsp, sgNtfy, toSg, num_routes, message_type>>
        /\ Received("main")
    BY <1>4, <1>10 DEF ReceiveAck
  <2>2. /\ \A type : Has(toAsp', type) => Has(toAsp, type)
        /\ \A b \in Buffers : buf'[b] = buf[b] \/ Has(toAsp, buf'[b].type)
    BY <1>1, <1>2, <2>1, ReceivedFacts, BufferFacts
  <2>3. IdleOK'
    BY <1>1, <1>2, <2>1, <2>2, IdleStands DEF IdleOK
  <2>4. toAsp = <<>> => toAsp' = <<>>
    BY <2>1 DEF Received
  <2>5. QED
    BY <1>5, <2>1, <2>3, <2>4 DEF Said, SilentOK, Entered
<1>11. CASE Build("main")
  <2>1. /\ pc["main"] = "build" /\ pc'["main"] = "send" /\ UNCHANGED pc["worker"]
        /\ UNCHANGED <<sgAsp, sgNtfy, toAsp, toSg, num_routes, message_type, leaving>>
        /\ buf' = [buf EXCEPT ![<<"main", "send">>] = Created(message_type)]
        /\ msg_ptr' = <<"main", "send">>
    BY <1>4, <1>11 DEF Build, Goto, vars, gateway
  <2>2. message_type \in Specified /\ Created(message_type).type = message_type
    BY <1>1, CreatedFacts DEF ThreadsOK
  <2>3. /\ buf'[<<"main", "send">>].type = message_type
        /\ \A b \in Buffers : buf'[b] = buf[b] \/ buf'[b].type \in Specified
    BY <1>2, <2>1, <2>2
  <2>4. IdleOK'
    BY <1>1, <1>2, <2>1, <2>3, IdleStands DEF IdleOK
  <2>5. SilentOK => Ready(leaving)'
    BY <2>1, <2>3 DEF Ready, SilentOK
  <2>6. QED
    BY <1>5, <2>1, <2>4, <2>5 DEF Said, SilentOK, Entered
<1>12. CASE Transmit("main")
  <2>1. /\ pc["main"] = "send" /\ pc'["main"] \in {"clear", "forget"} /\ UNCHANGED pc["worker"]
        /\ UNCHANGED <<sgAsp, sgNtfy, toAsp, num_routes, message_type, msg_ptr, buf, leaving>>
    <3> DEFINE to == IF toSg' = toSg THEN "clear" ELSE "forget"
    <3>1. pc["main"] = "send" /\ pc' = [pc EXCEPT !["main"] = to] /\ to \in {"clear", "forget"}
      BY <1>12 DEF Transmit
    <3> HIDE DEF to
    <3>2. pc'["main"] = to /\ UNCHANGED pc["worker"]
      BY <1>4, <3>1
    <3>3. QED
      BY <1>12, <3>1, <3>2 DEF Transmit, shared
  <2>2. \/ UNCHANGED toSg /\ msg_ptr = NULL
        \/ msg_ptr \in Buffers /\ toSg' = Append(toSg, buf[msg_ptr])
    BY <1>1, <1>2, <1>12 DEF Transmit, Send, NodeTypeOK
  <2>3. /\ \A type : Has(toSg, type) => Has(toSg', type)
        /\ \A type \in {"ASP_UP", "ASP_ACT"} : Has(toSg', type) => Has(toSg, type)
        /\ Ready(leaving) => Has(toSg', leaving)
    <3>1. CASE UNCHANGED toSg /\ msg_ptr = NULL
      BY <1>2, <3>1, BufferFacts DEF Ready
    <3>2. CASE msg_ptr \in Buffers /\ toSg' = Append(toSg, buf[msg_ptr])
      <4>1. buf[msg_ptr] \in Messages /\ buf[msg_ptr].type \notin {"ASP_UP", "ASP_ACT"}
        BY <1>1, <1>2, <3>2 DEF BuffersOK
      <4>2. \A type : Has(toSg', type) <=> Has(toSg, type) \/ buf[msg_ptr].type = type
        BY <1>2, <3>2, <4>1, AppendHas
      <4>3. QED
        BY <4>1, <4>2 DEF Ready
    <3>3. QED
      BY <2>2, <3>1, <3>2
  <2>4. IdleOK'
    BY <1>1, <1>2, <2>1, <2>3, IdleStands DEF IdleOK
  <2>5. Said => Said'
    BY <2>1, <2>3 DEF Said
  <2>6. Ready(leaving) => Said'
    BY <1>2, <2>3 DEF Said
  <2>7. QED
    BY <1>5, <2>1, <2>4, <2>5, <2>6 DEF SilentOK, Entered
<1>13. CASE Forget("main") \/ Call("main")
  <2>1. /\ pc["main"] \in {"forget", "call"} /\ pc'["main"] \in {"clear", "return"}
        /\ UNCHANGED pc["worker"]
        /\ UNCHANGED <<sgAsp, sgNtfy, toAsp, toSg, num_routes, message_type, buf, leaving>>
    BY <1>4, <1>13 DEF Forget, Call, Goto, vars, gateway, shared
  <2>2. IdleOK'
    BY <1>1, <1>2, <2>1, IdleStands DEF IdleOK
  <2>3. QED
    BY <1>5, <2>1, <2>2 DEF Said, SilentOK, Entered
<1>14. QED
  BY <1>3, <1>6, <1>7, <1>8, <1>9, <1>10, <1>11, <1>12, <1>13

\* The handshake owes and reads; the route is registered when nothing is left.
LEMMA ConnectQuiet ==
  ASSUME NodeInv, NodeInv', IdleOK, Handshake \/ RegisterRoute
  PROVE  IdleOK' /\ (num_routes' = 1 => SilentOK')
<1>1. NodeTypeOK /\ NodeTypeOK' /\ ThreadsOK /\ TypeOK /\ NotLeft /\ IInv
      /\ pc["main"] = "handshake" /\ NothingOver /\ leaving = "ASP_INA"
      /\ num_routes = 0 /\ pc["worker"] = "none" /\ host_state \in HandshakeStates
  BY DEF NodeInv, NodeTypeOK, Handshake, RegisterRoute, Goto, NotLeft, IdleOK, ThreadsOK
<1>2. CASE Handshake
  <2>1. /\ HandshakeStep /\ UNCHANGED <<num_routes, message_type, msg_ptr, buf, pc, leaving>>
    BY <1>2 DEF Handshake, shared, threads
  <2>2. \A type : Has(toAsp', type) => Has(toAsp, type)
    BY <1>1, <2>1, HandshakeStreams
  <2>3. NothingOver'
    BY <1>1, <2>1, LoopOwes DEF IInv, PlaceEvidence
  <2>4. QED
    BY <1>1, <2>1, <2>2, <2>3 DEF IdleOK
<1>3. CASE RegisterRoute
  <2>1. /\ UNCHANGED <<sgAsp, sgNtfy, toAsp, toSg, message_type, msg_ptr, buf, leaving>>
        /\ Complete
    BY <1>3 DEF RegisterRoute, vars, gateway
  <2>2. pc'["main"] = "audit" /\ UNCHANGED pc["worker"]
    BY <1>1, <1>3, GotoFacts, BufferFacts DEF RegisterRoute, Goto
  <2>3. toAsp = <<>> /\ sgNtfy = "none" /\ ~Has(toSg, "ASP_UP") /\ ~Has(toSg, "ASP_ACT")
    <3>1. toSg \in Seq(Messages) /\ toAsp \in Seq(Messages)
      BY <1>1 DEF TypeOK, GatewayTypeOK
    <3>2. Owes(toSg, toAsp, sgNtfy) \in Nat
      BY <3>1, OwesFacts
    <3>3. Awaited = 0
      BY <2>1 DEF Awaited, Complete
    <3>4. Owes(toSg, toAsp, sgNtfy) = 0
      BY <1>1, <3>2, <3>3 DEF NothingOver
    <3>5. QED
      BY <3>1, <3>4, OwesFacts
  <2>4. IdleOK'
    BY <1>1, <2>1, <2>2, <2>3 DEF IdleOK
  <2>5. SilentOK'
    BY <1>1, <2>1, <2>2, <2>3 DEF SilentOK
  <2>6. QED
    BY <2>4, <2>5
<1>4. QED
  BY <1>2, <1>3

\* Unasked, the gateway says nothing but a NTFY: no data and no heartbeat.
LEMMA GatewayAdds ==
  ASSUME GatewayTypeOK, SgRespond \/ SgRecvInactive \/ SgRecvDown
  PROVE  \A type \in {"TX_DATA", "ASP_HTBT"} : Has(toAsp', type) => Has(toAsp, type)
<1>1. toAsp \in Seq(Messages)
  BY DEF GatewayTypeOK
<1>2. CASE SgRecvUp
  BY <1>2, AnswerFacts DEF SgRecvUp, MessageTypes, AspsmTypes
<1>3. CASE SgRecvAct
  BY <1>3, AnswerFacts DEF SgRecvAct, MessageTypes, AsptmTypes
<1>4. CASE SgRecvOther
  BY <1>4 DEF SgRecvOther
<1>5. CASE SgRecvInactive \/ SgRecvDown \/ SgNotify
  <2>1. \A ack \in {"ASP_INA_ACK", "ASP_DWN_ACK"} : Msg(ack) \in Messages /\ Msg(ack).type = ack
    BY MessagesBuilt DEF MessageTypes, AspsmTypes, AsptmTypes
  <2>2. \E m \in Messages :
          m.type \in {"ASP_INA_ACK", "ASP_DWN_ACK", "NTFY"} /\ toAsp' = Append(toAsp, m)
    BY <1>5, <2>1, NotifiesAreMessages DEF SgRecvInactive, SgRecvDown, SgNotify
  <2>3. PICK m \in Messages :
          m.type \in {"ASP_INA_ACK", "ASP_DWN_ACK", "NTFY"} /\ toAsp' = Append(toAsp, m)
    BY <2>2
  <2>4. \A type : Has(toAsp', type) => Has(toAsp, type) \/ m.type = type
    BY <1>1, <2>3, AppendHas
  <2>5. QED
    BY <2>3, <2>4
<1>6. QED
  BY <1>2, <1>3, <1>4, <1>5 DEF SgRespond

\* What the gateway does not take stays on the stream.
LEMMA NotTaken ==
  ASSUME GatewayTypeOK, NEW taken, SgTakes(taken), NEW type, type # taken, Has(toSg, type)
  PROVE  Has(toSg', type)
<1>1. toSg' \in Seq(Messages) /\ toSg \in Seq(Messages)
  BY SgTakesFacts DEF GatewayTypeOK
<1>2. Count(toSg, Of(type)) = Count(toSg', Of(type))
  BY TakenUncounted
<1>3. QED
  BY <1>1, <1>2, OfFacts

\* What the gateway has heard it does not forget, and while it has heard nothing
\* it has nothing to say.
LEMMA GatewayQuiet ==
  ASSUME NodeInv, NodeInv', IdleOK, ~Ended, SgAnswer
  PROVE  /\ IdleOK'
         /\ num_routes' = 1 => num_routes = 1 /\ (Said => Said')
         /\ num_routes = 1 /\ SilentOK /\ ~Said' => SilentOK'
<1>1. TypeOK /\ GatewayTypeOK
  BY DEF NodeInv, NodeTypeOK, TypeOK
<1>2. /\ UNCHANGED <<node, num_routes, message_type, msg_ptr, buf, pc, leaving>>
      /\ SgRespond \/ SgRecvInactive \/ SgRecvDown
  BY DEF SgAnswer, shared, threads
<1>3. \A type : Has(toSg', type) => Has(toSg, type)
  BY <1>1, <1>2, GatewayStreams
<1>4. IdleOK'
  <2>1. pc["main"] = "handshake" => NothingOver'
    <3>1. ASSUME pc["main"] = "handshake" PROVE NothingOver'
      <4>1. NotLeft /\ NothingOver
        BY <3>1 DEF NodeInv, IdleOK
      <4>2. ~SgRecvInactive /\ ~SgRecvDown
        BY <1>1, <4>1, GatewayStreams DEF NotLeft
      <4>3. \/ Owes(toSg', toAsp', sgNtfy') = Owes(toSg, toAsp, sgNtfy)
            \/ Owes(toSg, toAsp, sgNtfy) = Owes(toSg', toAsp', sgNtfy') + 2
        BY <1>1, <1>2, <4>2, GatewayOwes
      <4>4. /\ toSg \in Seq(Messages) /\ toAsp \in Seq(Messages)
            /\ toSg' \in Seq(Messages) /\ toAsp' \in Seq(Messages)
        BY DEF NodeInv, NodeTypeOK, TypeOK, GatewayTypeOK
      <4>5. Owes(toSg, toAsp, sgNtfy) \in Nat /\ Owes(toSg', toAsp', sgNtfy') \in Nat
        BY <4>4, OwesFacts
      <4>6. Awaited' = Awaited /\ Awaited \in Int
        BY <1>1, <1>2 DEF Awaited, node, TypeOK
      <4>7. Owes(toSg, toAsp, sgNtfy) <= Awaited
        BY <4>1 DEF NothingOver
      <4>8. Owes(toSg', toAsp', sgNtfy') <= Awaited
        BY <4>3, <4>5, <4>6, <4>7
      <4>9. QED
        BY <4>6, <4>8 DEF NothingOver
    <3>2. QED
      BY <3>1
  <2>2. \A type \in {"TX_DATA", "ASP_HTBT"} : Has(toAsp', type) => Has(toAsp, type)
    BY <1>1, <1>2, GatewayAdds
  <2>3. QED
    BY <1>2, <1>3, <2>1, <2>2 DEF IdleOK
<1>5. num_routes = 1 => ~SgRecvUp /\ ~SgRecvAct
  BY <1>1, SgTakesFacts DEF IdleOK, SgRecvUp, SgRecvAct
<1>6. num_routes = 1 => (Said => Said')
  <2>1. CASE SgRecvInactive \/ SgRecvDown
    BY <2>1 DEF Said, SgRecvInactive, SgRecvDown
  <2>2. CASE SgRecvOther
    <3>1. /\ UNCHANGED sgAsp
          /\ \E type : type \notin {"ASP_INA", "ASP_DOWN"} /\ SgTakes(type)
      BY <2>2 DEF SgRecvOther
    <3>2. QED
      BY <1>1, <3>1, NotTaken DEF Said
  <2>3. CASE SgNotify
    BY <2>3 DEF SgNotify, Said
  <2>4. QED
    BY <1>2, <1>5, <2>1, <2>2, <2>3 DEF SgRespond
<1>7. ASSUME num_routes = 1, SilentOK, ~Said' PROVE SilentOK'
  <2>1. SgRecvOther
    <3>1. ~Has(toSg, "ASP_INA") /\ ~Has(toSg, "ASP_DOWN")
      BY <1>6, <1>7 DEF Said
    <3>2. ~SgRecvInactive /\ ~SgRecvDown
      BY <1>1, <3>1, SgTakesFacts DEF SgRecvInactive, SgRecvDown
    <3>3. ~SgNotify
      BY <1>7 DEF SgNotify, SilentOK
    <3>4. QED
      BY <1>2, <1>5, <1>7, <3>2, <3>3 DEF SgRespond
  <2>2. toAsp' = <<>> /\ sgNtfy' = "none"
    BY <1>7, <2>1 DEF SgRecvOther, SilentOK
  <2>3. QED
    BY <1>2, <1>7, <2>2 DEF SilentOK, Ready, Entered
<1>8. QED
  BY <1>2, <1>4, <1>6, <1>7

\* A signal interrupts the handler and starts it over, with a worker that has
\* entered where it was.
LEMMA SignalQuiet ==
  ASSUME NodeInv, NodeInv', IdleOK, Signal
  PROVE  /\ IdleOK'
         /\ num_routes' = num_routes /\ (Said => Said')
         /\ num_routes = 1 /\ SilentOK => SilentOK'
<1>1. NodeTypeOK /\ ThreadsOK /\ BuffersOK /\ num_routes \in 0 .. 1
  BY DEF NodeInv, NodeTypeOK
<1>2. /\ UNCHANGED <<sgAsp, sgNtfy, toAsp, toSg, num_routes, message_type, msg_ptr, buf>>
      /\ leaving' = "ASP_INA"
  BY DEF Signal, vars, gateway, shared
<1>3. /\ pc'["main"] = IF num_routes = 0 THEN "exited" ELSE "leave"
      /\ UNCHANGED pc["worker"]
  BY <1>1, GotoFacts, BufferFacts DEF Signal
<1>4. IdleOK'
  BY <1>2, <1>3 DEF IdleOK
<1>5. QED
  BY <1>2, <1>3, <1>4 DEF Said, SilentOK

\* On an association without data and heartbeats, and only there, it stays so.
LEMMA QuietBefore ==
  ASSUME NodeTypeOK, [NodeNext]_nodeVars, Quiet'
  PROVE  Quiet /\ ~SgBeat /\ ~SgData
<1>1. beats \in Nat /\ sent \in Nat
  BY NodeAssumption, GatewayAssumption DEF NodeTypeOK, TypeOK, GatewayTypeOK
<1>2. ~SgBeat /\ ~SgData
  BY <1>1 DEF SgBeat, SgHeartbeat, SgData, Quiet
<1>3. CASE MainStep
  <2>1. UNCHANGED <<beats, sent>>
    BY <1>3 DEF MainStep, Handshake, HandshakeStep, SendAspUp, RecvUpAck, RecvUpNotify, RecvActAck,
         RecvActNotify, RegisterRoute, DoAudit, CreateWorker, Leave, PrepareReceive, ReceiveAck,
         Build, Transmit, Forget, Call, vars, gateway, counts
  <2>2. QED
    BY <1>2, <2>1 DEF Quiet
<1>4. CASE WorkerStep
  <2>1. UNCHANGED <<beats, sent>>
    BY <1>4 DEF WorkerStep, Guard, Enter, WorkerReceive, Crash, Deliver, Heartbeat, Ignore,
         ClearBuffer, Build, Transmit, Forget, Call, vars, gateway, counts
  <2>2. QED
    BY <1>2, <2>1 DEF Quiet
<1>5. CASE NodeGateway
  <2>1. UNCHANGED <<beats, sent>>
    BY <1>2, <1>5 DEF NodeGateway, SgAnswer, SgRespond, SgRecvUp, SgRecvAct, SgRecvOther, SgNotify,
         SgRecvInactive, SgRecvDown, counts
  <2>2. QED
    BY <1>2, <2>1 DEF Quiet
<1>6. CASE Signal \/ UNCHANGED nodeVars
  BY <1>2, <1>6 DEF Signal, nodeVars, vars, gateway, counts, Quiet
<1>7. QED
  BY <1>3, <1>4, <1>5, <1>6 DEF NodeNext, Rest

\* Every step on an idle association.
LEMMA QuietStep ==
  ASSUME MaxSendFailures = 0, NodeInv, NodeInv', QuietOK, [NodeNext]_nodeVars
  PROVE  QuietOK'
<1> SUFFICES ASSUME Quiet' PROVE IdleOK' /\ (num_routes' = 1 /\ ~Said' => SilentOK')
  BY DEF QuietOK
<1>1. Quiet /\ ~SgBeat /\ ~SgData
  BY QuietBefore DEF NodeInv
<1>2. IdleOK /\ (num_routes = 1 /\ ~Said => SilentOK)
  BY <1>1 DEF QuietOK
<1>3. CASE Handshake \/ RegisterRoute
  BY <1>2, <1>3, ConnectQuiet
<1>4. CASE MainStep /\ ~Handshake /\ ~RegisterRoute
  BY <1>2, <1>4, MainQuiet
<1>5. CASE WorkerStep
  <2>1. num_routes = 1
    BY <1>5, WorkerHasRoute
  <2>2. QED
    BY <1>2, <1>5, <2>1, WorkerQuiet
<1>6. CASE Signal
  BY <1>2, <1>6, SignalQuiet
<1>7. CASE NodeGateway
  BY <1>1, <1>2, <1>7, GatewayQuiet DEF NodeGateway
<1>8. CASE UNCHANGED nodeVars
  BY <1>2, <1>8 DEF nodeVars, vars, gateway, node, shared, threads, IdleOK, SilentOK, Said,
                    NothingOver, Awaited, Ready, Entered
<1>9. QED
  BY <1>3, <1>4, <1>5, <1>6, <1>7, <1>8 DEF NodeNext, Rest

\* At the start nothing is owed.
LEMMA QuietStarts == NodeInit => QuietOK
<1> SUFFICES ASSUME NodeInit PROVE QuietOK
  OBVIOUS
<1>1. /\ toSg = <<>> /\ toAsp = <<>> /\ sgNtfy = "none" /\ host_state = asp_sg_init
      /\ num_routes = 0 /\ leaving = "ASP_INA" /\ pc["worker"] = "none"
      /\ \A b \in Buffers : buf[b] = NoMessage
  BY DEF NodeInit, Init, GatewayInit, HandshakeInit
<1>2. Owes(toSg, toAsp, sgNtfy) = 0 /\ Awaited = 0
  BY <1>1, CountEmpty DEF Owes, Awaited
<1>3. \A type : ~Has(toAsp, type) /\ ~Has(toSg, type)
  BY <1>1, EmptyHas
<1>4. IdleOK
  BY <1>1, <1>2, <1>3, MessagesBuilt DEF IdleOK, NothingOver
<1>5. QED
  BY <1>1, <1>4 DEF QuietOK

\* A node with a route that exits on an idle association has told the gateway,
\* for any number of signals, wherever they interrupt shed_connections; as long
\* as sctp_sendmsg does not fail, for which nothing in the code makes up.
THEOREM GoodbyeSaid == ASSUME MaxSendFailures = 0 PROVE NodeSpec => []SaysGoodbye
<1>1. NodeInv /\ NodeInv' /\ QuietOK /\ [NodeNext]_nodeVars => QuietOK'
  BY QuietStep
<1>2. NodeInv /\ QuietOK => SaysGoodbye
  BY DEF QuietOK, Quiet, SilentOK, Said, SaysGoodbye
<1>3. QED
  BY <1>1, <1>2, QuietStarts, NodeInvariant, PTL DEF NodeSpec
===============================================================================
