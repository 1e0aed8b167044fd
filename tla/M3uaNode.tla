-------------------------------- MODULE M3uaNode --------------------------------
(***************************************************************************)
(* The life of the process towards a signalling gateway: smsc_connect runs *)
(* the handshake, registers the route and audits; th_process_sccp_msg, the *)
(* worker, receives data from then on; a signal makes the main thread shed *)
(* its connections and exit.                                               *)
(*                                                                         *)
(* Worker and handler share one m3ua_as without a lock: its msg_ptr says   *)
(* which buffer the next send or receive uses, and each of them sets it    *)
(* and reads it again later.  A step here is one access to a shared field. *)
(* The handshake and the audit run before the worker and are taken whole.  *)
(***************************************************************************)
EXTENDS M3uaSgHandshake

CONSTANTS MaxData,     \* data messages the gateway sends
          MaxSignals   \* signals: the handler never returns, so more nest

ASSUME NodeAssumption == MaxData \in Nat /\ MaxSignals \in Nat

Threads == {"main", "worker"}

\* Each thread has a buffer on its stack to send from and one to receive in.
\* m3ua_send_inact and m3ua_send_aspdwn have theirs at the same addresses.
Buffers == Threads \X {"send", "recv"}

NULL == <<>>

VARIABLES
  pc,            \* pc[t]: the step of the C code thread t is at
  leaving,       \* what the handler is sending: first ASP_INA, then ASP_DOWN
  num_routes,    \* route_logic.c: num_routes
  message_type,  \* as_node->message_class and message_type
  msg_ptr,       \* as_node->msg_ptr
  buf,           \* what the buffers hold
  target,        \* target[t]: the buffer t handed to the sctp_recvmsg it is in
  signals,       \* signals delivered
  sent,          \* data messages the gateway sent
  delivered      \* data messages m3ua_recv_data returned

shared == <<num_routes, message_type, msg_ptr, buf>>
threads == <<pc, leaving, target>>
counts == <<signals, sent, delivered>>
nodeVars == <<vars, shared, threads, counts>>

NodeInit == /\ Init
            /\ pc = [main |-> "handshake", worker |-> "none"]
            /\ leaving = "ASP_INA"
            /\ num_routes = 0
            /\ message_type = "MGMT_ERR"
            /\ msg_ptr = NULL
            /\ buf = [b \in Buffers |-> NoMessage]
            /\ target = [t \in Threads |-> NULL]
            /\ signals = 0 /\ sent = 0 /\ delivered = 0

Goto(t, from, to) == pc[t] = from /\ pc' = [pc EXCEPT ![t] = to]

\* exit, or a signal nobody handles, ends both threads.
Ended == pc["main"] \in {"exited", "crashed"}
----------------------------------------------------------------------------
(* smsc_connect and smsc_rear_init, on the main thread. *)

Handshake == /\ pc["main"] = "handshake"
             /\ HandshakeStep
             /\ UNCHANGED <<shared, threads, counts>>

\* A mutant: the count goes up before and after the entry is written.
RegisterTwice == /\ Goto("main", "handshake", "audit")
                 /\ Complete
                 /\ num_routes' = num_routes + 2
                 /\ UNCHANGED <<vars, message_type, msg_ptr, buf, leaving, target, counts>>

\* m3ua_handshake has returned: register_route.
RegisterRoute == /\ Goto("main", "handshake", "audit")
                 /\ Complete
                 /\ num_routes' = num_routes + 1
                 /\ UNCHANGED <<vars, message_type, msg_ptr, buf, leaving, target, counts>>

DoAudit == /\ Goto("main", "audit", "create")
           /\ Send(WithContext("DAUD", routing_context))
           /\ UNCHANGED <<host_state, peer_state, nth, routing_context, sgAsp, sgNtfy,
                          beats, toAsp, shared, leaving, target, counts>>

\* pthread_create, and hybernate_main.
CreateWorker == /\ pc["main"] = "create"
                /\ pc' = [main |-> "hybernate", worker |-> "guard"]
                /\ UNCHANGED <<vars, shared, leaving, target, counts>>
----------------------------------------------------------------------------
(* Sending and receiving through as_node, step by step. *)

\* create_m3ua_msg: ASPTM messages carry the routing context.
Created(type) == IF type \in AsptmTypes THEN WithContext(type, routing_context) ELSE Msg(type)

\* It is created from the type as_node says, and msg_ptr set to the result.
Build(t) == /\ Goto(t, "build", "send")
            /\ buf' = [buf EXCEPT ![<<t, "send">>] = Created(message_type)]
            /\ msg_ptr' = <<t, "send">>
            /\ UNCHANGED <<vars, num_routes, message_type, leaving, target, counts>>

\* sctp_sendmsg: of what msg_ptr points to now; a NULL fails with EFAULT.
Transmit(t) == /\ pc[t] = "send"
               /\ IF msg_ptr = NULL THEN UNCHANGED <<toSg, failed>>
                  ELSE Send(buf[msg_ptr])
               /\ pc' = [pc EXCEPT ![t] = IF toSg' = toSg THEN "clear" ELSE "forget"]
               /\ UNCHANGED <<host_state, peer_state, nth, routing_context, sgAsp, sgNtfy,
                              beats, toAsp, shared, leaving, target, counts>>

\* m3ua_send, after a success.
Forget(t) == /\ Goto(t, "forget", "clear")
             /\ msg_ptr' = NULL
             /\ UNCHANGED <<vars, num_routes, message_type, buf, leaving, target, counts>>

\* m3ua_recv: sctp_recvmsg gets the msg_ptr of now and blocks.
Call(t) == /\ Goto(t, "call", "return")
           /\ target' = [target EXCEPT ![t] = msg_ptr]
           /\ UNCHANGED <<vars, shared, leaving, counts>>

\* It comes back: with a message; with EFAULT, and the message is gone; or
\* after the 60 seconds, with nothing.
Received(t) == /\ toAsp' = IF toAsp = <<>> THEN toAsp ELSE Tail(toAsp)
               /\ buf' = IF toAsp = <<>> \/ target[t] = NULL THEN buf
                         ELSE [buf EXCEPT ![target[t]] = Head(toAsp)]
               /\ target' = [target EXCEPT ![t] = NULL]
----------------------------------------------------------------------------
(* The handler: shed_connections, m3ua_send_inact, m3ua_send_aspdwn. *)

\* A signal interrupts the main thread, wherever it is: with no route in the
\* table the loop has nothing to do.
Signal == /\ ~Ended
          /\ signals < MaxSignals
          /\ signals' = signals + 1
          /\ pc' = [pc EXCEPT !["main"] = IF num_routes = 0 THEN "exited" ELSE "leave"]
          /\ leaving' = "ASP_INA"
          /\ UNCHANGED <<vars, shared, target, sent, delivered>>

\* A mutant: host_state is left alone.
LeaveQuietly == /\ Goto("main", "leave", "build")
                /\ message_type' = leaving
                /\ UNCHANGED <<vars, num_routes, msg_ptr, buf, leaving, target, counts>>

\* The state goes first, then the message is specified.
Leave == /\ Goto("main", "leave", "build")
         /\ host_state' = IF leaving = "ASP_INA" THEN asp_sg_inactive_tx ELSE asp_sg_down_tx
         /\ message_type' = leaving
         /\ UNCHANGED <<peer_state, nth, routing_context, failed, gateway,
                        num_routes, msg_ptr, buf, leaving, target, counts>>

\* The handler clears both of its buffers before it waits for the answer.
PrepareReceive == /\ Goto("main", "clear", "call")
                  /\ buf' = [buf EXCEPT ![<<"main", "send">>] = NoMessage,
                                       ![<<"main", "recv">>] = NoMessage]
                  /\ msg_ptr' = <<"main", "recv">>
                  /\ UNCHANGED <<vars, num_routes, message_type, leaving, target, counts>>

\* A mutant: the handler waits until it gets the acknowledgement.
InsistOnAck == /\ pc["main"] = "return"
               /\ toAsp # <<>>
               /\ Received("main")
               /\ IF buf'[<<"main", "recv">>].type \in {"ASP_INA_ACK", "ASP_DWN_ACK"}
                    THEN /\ pc' = [pc EXCEPT !["main"] =
                                     IF leaving = "ASP_INA" THEN "leave" ELSE "exited"]
                         /\ leaving' = "ASP_DOWN"
                    ELSE /\ pc' = [pc EXCEPT !["main"] = "call"]
                         /\ UNCHANGED leaving
               /\ UNCHANGED <<host_state, peer_state, nth, routing_context, failed, sgAsp,
                              sgNtfy, beats, toSg, num_routes, message_type, msg_ptr,
                              counts>>

\* A mutant: without an acknowledgement the rest is skipped.
GiveUpWithoutAck ==
  /\ pc["main"] = "return"
  /\ Received("main")
  /\ pc' = [pc EXCEPT !["main"] =
              IF leaving = "ASP_INA" /\ buf'[<<"main", "recv">>].type = "ASP_INA_ACK"
                THEN "leave" ELSE "exited"]
  /\ leaving' = "ASP_DOWN"
  /\ UNCHANGED <<host_state, peer_state, nth, routing_context, failed, sgAsp, sgNtfy, beats,
                 toSg, num_routes, message_type, msg_ptr, counts>>

\* One receive, one look at the buffer, and on, whatever it holds.
ReceiveAck ==
  /\ pc["main"] = "return"
  /\ Received("main")
  /\ LET ack == buf'[<<"main", "recv">>].type
     IN  host_state' = IF leaving = "ASP_INA" /\ ack = "ASP_INA_ACK" THEN asp_inactive_done
                       ELSE IF leaving = "ASP_DOWN" /\ ack = "ASP_DWN_ACK" THEN asp_down_ack_tx
                       ELSE host_state
  /\ pc' = [pc EXCEPT !["main"] = IF leaving = "ASP_INA" THEN "leave" ELSE "exited"]
  /\ leaving' = "ASP_DOWN"
  /\ UNCHANGED <<peer_state, nth, routing_context, failed, sgAsp, sgNtfy, beats, toSg,
                 num_routes, message_type, msg_ptr, counts>>
----------------------------------------------------------------------------
(* The worker: th_process_sccp_msg, m3ua_recv_data, m3ua_aspsm_hdlr. *)

\* while (local_as->host_state.sg_state == asp_sg_handshake_complete)
Guard == /\ Goto("worker", "guard", IF Complete THEN "enter" ELSE "stopped")
         /\ UNCHANGED <<vars, shared, leaving, target, counts>>

Enter == /\ Goto("worker", "enter", "call")
         /\ buf' = [buf EXCEPT ![<<"worker", "recv">>] = NoMessage]
         /\ msg_ptr' = <<"worker", "recv">>
         /\ UNCHANGED <<vars, num_routes, message_type, leaving, target, counts>>

WorkerReceive == /\ Goto("worker", "return", "dispatch")
                 /\ Received("worker")
                 /\ UNCHANGED <<node, sgAsp, sgNtfy, beats, toSg, num_routes, message_type,
                                msg_ptr, leaving, counts>>

\* switch (as_node->msg_ptr[MESSAGE_CLASS_POS])
Crash == /\ pc["worker"] = "dispatch"
         /\ msg_ptr = NULL
         /\ pc' = [pc EXCEPT !["main"] = "crashed"]
         /\ UNCHANGED <<vars, shared, leaving, target, counts>>

\* A mutant: the case for data falls through, nothing is returned.
DropData == /\ msg_ptr # NULL
            /\ buf[msg_ptr].type = "TX_DATA"
            /\ Goto("worker", "dispatch", "clear")
            /\ UNCHANGED <<vars, shared, leaving, target, counts>>

\* A mutant: the worker looks at the buffer again before it receives.
DeliverTwice == /\ msg_ptr # NULL
                /\ buf[msg_ptr].type = "TX_DATA"
                /\ Goto("worker", "dispatch", "dispatch")
                /\ delivered' = delivered + 1
                /\ delivered < MaxData + 1
                /\ UNCHANGED <<vars, shared, leaving, target, signals, sent>>

Deliver == /\ msg_ptr # NULL
           /\ buf[msg_ptr].type = "TX_DATA"
           /\ Goto("worker", "dispatch", "guard")
           /\ delivered' = delivered + 1
           /\ UNCHANGED <<vars, shared, leaving, target, signals, sent>>

Heartbeat == /\ msg_ptr # NULL
             /\ buf[msg_ptr].type = "ASP_HTBT"
             /\ Goto("worker", "dispatch", "build")
             /\ message_type' = "ASP_HBT_ACK"
             /\ UNCHANGED <<vars, num_routes, msg_ptr, buf, leaving, target, counts>>

Ignore == /\ msg_ptr # NULL
          /\ buf[msg_ptr].type \notin {"TX_DATA", "ASP_HTBT"}
          /\ Goto("worker", "dispatch", "clear")
          /\ UNCHANGED <<vars, shared, leaving, target, counts>>

\* memset (recv_msg_data), and round the loop with the msg_ptr as it is.
ClearBuffer == /\ Goto("worker", "clear", "call")
               /\ buf' = [buf EXCEPT ![<<"worker", "recv">>] = NoMessage]
               /\ UNCHANGED <<vars, num_routes, message_type, msg_ptr, leaving, target, counts>>
----------------------------------------------------------------------------
MainStep == /\ ~Ended
            /\ \/ Handshake \/ RegisterRoute \/ DoAudit \/ CreateWorker
               \/ Leave \/ PrepareReceive \/ ReceiveAck
               \/ Build("main") \/ Transmit("main") \/ Forget("main") \/ Call("main")

WorkerStep == /\ ~Ended
              /\ \/ Guard \/ Enter \/ WorkerReceive \/ Crash \/ Deliver \/ Heartbeat \/ Ignore
                 \/ ClearBuffer
                 \/ Build("worker") \/ Transmit("worker") \/ Forget("worker") \/ Call("worker")

\* The gateway sends data to an ASP it sees active.
SgData == /\ sgAsp = "active"
          /\ sgNtfy = "none"
          /\ sent < MaxData
          /\ sent' = sent + 1
          /\ toAsp' = Append(toAsp, Msg("TX_DATA"))
          /\ UNCHANGED <<node, sgAsp, sgNtfy, beats, toSg, shared, threads, signals, delivered>>

\* What the gateway owes the node.
SgAnswer == /\ SgRespond \/ SgRecvInactive \/ SgRecvDown
            /\ UNCHANGED <<node, shared, threads, counts>>

SgBeat == SgHeartbeat /\ UNCHANGED <<node, shared, threads, counts>>

\* Once the process has ended the gateway is of no interest.
NodeGateway == ~Ended /\ (SgAnswer \/ SgBeat \/ SgData)

\* The process has ended, or waits for a message that need not come.
Rest == UNCHANGED nodeVars

NodeNext == MainStep \/ WorkerStep \/ Signal \/ NodeGateway \/ Rest

NodeSpec == NodeInit /\ [][NodeNext]_nodeVars

\* The scheduler runs both threads, every receive ends within 60 seconds, and
\* the gateway answers.
NodeFairSpec == /\ NodeSpec
                /\ WF_nodeVars(MainStep)
                /\ WF_nodeVars(WorkerStep)
                /\ WF_nodeVars(~Ended /\ SgAnswer)
----------------------------------------------------------------------------
(* Properties. *)

\* Both threads are at a step of their code, msg_ptr points to a buffer or is
\* NULL, and the route table has the one entry smsc_connect registers.
NodeTypeOK == /\ TypeOK
              /\ pc["main"] \in {"handshake", "audit", "create", "hybernate", "leave", "build",
                                 "send", "forget", "clear", "call", "return", "exited",
                                 "crashed"}
              /\ pc["worker"] \in {"none", "guard", "enter", "call", "return", "dispatch",
                                   "build", "send", "forget", "clear", "stopped"}
              /\ leaving \in {"ASP_INA", "ASP_DOWN"}
              /\ num_routes \in 0 .. 1
              /\ message_type \in MessageTypes
              /\ msg_ptr \in Buffers \cup {NULL}
              /\ buf \in [Buffers -> Messages]
              /\ target \in [Threads -> Buffers \cup {NULL}]
              /\ signals \in 0 .. MaxSignals
              /\ sent \in 0 .. MaxData
              /\ delivered \in Nat

\* A node with a route that exits on an idle association does not leave the
\* gateway thinking it active: the worker, entering its receive between two
\* steps of the handler, can spoil one of ASP_INA and ASP_DOWN, not both.
\* With messages arriving it can: they land in the buffer the handler sends.
SaysGoodbye == pc["main"] = "exited" /\ num_routes = 1 /\ beats = 0 /\ sent = 0 =>
                 sgAsp # "active" \/ Has(toSg, "ASP_INA") \/ Has(toSg, "ASP_DOWN")

\* However the threads share their buffers, no data message is returned twice.
DataOnce == delivered <= sent

\* Data the gateway sent is returned by m3ua_recv_data, as long as no signal
\* and no heartbeat comes.
DataReachesWorker ==
  \A n \in 1 .. MaxData : sent = n ~> delivered >= n \/ signals > 0 \/ beats > 0

\* A signal ends the node: an acknowledgement the worker took from the handler
\* costs it a timeout, not its exit.
SignalEndsNode == signals > 0 ~> Ended

\* m3ua_nodes.c:251 gives m3ua_aspsm_hdlr the purpose "To handle received
\* ASPSM message"; with the node at work and no signal, it survives them.
HeartbeatIsHandled == pc["main"] = "crashed" => signals > 0

\* route_logic.h:26 has shed_connections "close all connection when handling a
\* signal": a node that exited has told the gateway that it is down.
SignalClosesConnections ==
  pc["main"] = "exited" => sgAsp = "down" \/ Has(toSg, "ASP_DOWN")
===============================================================================
