---------------------------- MODULE M3uaSgHandshake ----------------------------
(***************************************************************************)
(* m3ua_sg_handshake: the stack, as an ASP, brings up its association with *)
(* a signalling gateway.  The C function is one loop over a switch on      *)
(* host_state; a case that receives does so once or twice, so `nth' says   *)
(* which of its two receives the case has reached.  A receive returns      *)
(* the next message of the control stream or, after the 60 seconds of      *)
(* set_recv_timeout, nothing: the buffer is then still zero.               *)
(***************************************************************************)
EXTENDS SignallingGateway

CONSTANT MaxSendFailures   \* sends that return -1, which nobody looks at

ASSUME SendAssumption == MaxSendFailures \in Nat

VARIABLES
  host_state,        \* as_node->host_state.sg_state
  peer_state,        \* as_node->peer_state.sg_state
  nth,               \* which of its receives the case is at
  routing_context,   \* as_node->routing_context
  failed             \* sends that failed so far

node == <<host_state, peer_state, nth, routing_context, failed>>
vars == <<gateway, node>>

\* as_node comes from malloc: its routing context and peer state are whatever
\* the memory held, and the first pass of the loop sets the peer state.
HandshakeInit == /\ host_state = asp_sg_init
                 /\ peer_state \in m3ua_states
                 /\ nth = 1
                 /\ routing_context = "garbage"
                 /\ failed = 0

\* m3ua_send on CONTROL_STREAM.  Its result is not checked.
Send(m) == \/ /\ toSg' = Append(toSg, m)
              /\ UNCHANGED failed
           \/ /\ failed < MaxSendFailures
              /\ failed' = failed + 1
              /\ UNCHANGED toSg

\* m3ua_recv, looped while it returns 0: what the zeroed buffer holds after it.
Buffer == IF toAsp = <<>> THEN NoMessage ELSE Head(toAsp)

Receive == toAsp' = IF toAsp = <<>> THEN toAsp ELSE Tail(toAsp)
----------------------------------------------------------------------------
(* The tests on a received buffer, and the slips a mutant makes in them. *)

AnyAspsm(m) == m.type \in AspsmTypes \cup {"MGMT_ERR"}

UpAckIsNotify(m) == m.type = "NTFY"

IsUpAck(m) == m.type = "ASP_UPACK"

IsActAck(m) == m.type = "ASP_ACT_ACK"

IsNotify(m) == m.type = "NTFY"

SaysActive(m) == m.status = "active"

\* Collect the routing context: only from a NTFY that says AS_INACTIVE and
\* has the parameter where it is looked for.
KeepContext(m) == routing_context

CollectContext(m) ==
  IF m.status = "inactive" /\ m.rc # "none" THEN m.rc ELSE routing_context
----------------------------------------------------------------------------
(* The cases of the switch. *)

\* case asp_sg_init
SendAspUp ==
  /\ host_state = asp_sg_init
  /\ Send(Msg("ASP_UP"))
  /\ host_state' = asp_sg_up_tx
  /\ peer_state' = asp_sg_init
  /\ UNCHANGED <<nth, routing_context, sgAsp, sgNtfy, beats, toAsp>>

\* case asp_sg_up_tx, first receive: anything but an ASP_UPACK is dropped.
RecvUpAck ==
  /\ host_state = asp_sg_up_tx
  /\ nth = 1
  /\ Receive
  /\ IF IsUpAck(Buffer)
       THEN /\ peer_state' = asp_sg_up_ack_tx
            /\ nth' = 2
       ELSE UNCHANGED <<peer_state, nth>>
  /\ UNCHANGED <<host_state, routing_context, failed, sgAsp, sgNtfy, beats, toSg>>

\* A mutant: an AS that is active already needs no ASP_ACT.
RecvUpNotifySkipsAct ==
  /\ host_state = asp_sg_up_tx
  /\ nth = 2
  /\ nth' = 1
  /\ Receive
  /\ peer_state' = IF IsNotify(Buffer) THEN asp_sg_notify_tx ELSE peer_state
  /\ host_state' = IF IsNotify(Buffer) /\ SaysActive(Buffer)
                     THEN asp_sg_handshake_complete ELSE host_state
  /\ UNCHANGED <<routing_context, failed, toSg, sgAsp, sgNtfy, beats>>

\* A mutant: the ASP_UP is sent again when the NTFY did not come.
RecvUpNotifyRetries ==
  /\ host_state = asp_sg_up_tx
  /\ nth = 2
  /\ nth' = 1
  /\ Receive
  /\ ~IsNotify(Buffer)
  /\ Send(Msg("ASP_UP"))
  /\ UNCHANGED <<host_state, peer_state, routing_context, sgAsp, sgNtfy, beats>>

\* case asp_sg_up_tx, second receive: a NTFY with a status is followed by the
\* ASP_ACT; after any other message the case starts over.
RecvUpNotify ==
  /\ host_state = asp_sg_up_tx
  /\ nth = 2
  /\ nth' = 1
  /\ Receive
  /\ \/ /\ ~IsNotify(Buffer)
        /\ UNCHANGED <<host_state, peer_state, routing_context, failed, toSg>>
     \/ /\ IsNotify(Buffer)
        /\ Buffer.status = "untagged"
        /\ peer_state' = asp_sg_notify_tx
        /\ host_state' = asp_sg_up_done
        /\ UNCHANGED <<routing_context, failed, toSg>>
     \/ /\ IsNotify(Buffer)
        /\ Buffer.status # "untagged"
        /\ peer_state' = asp_sg_notify_tx
        /\ host_state' = asp_sg_active_tx
        /\ routing_context' = CollectContext(Buffer)
        /\ Send(WithContext("ASP_ACT", routing_context'))
  /\ UNCHANGED <<sgAsp, sgNtfy, beats>>

\* case asp_sg_active_tx, first receive.
RecvActAck ==
  /\ host_state = asp_sg_active_tx
  /\ nth = 1
  /\ Receive
  /\ IF IsActAck(Buffer)
       THEN /\ peer_state' = asp_sg_active_ack_tx
            /\ nth' = 2
       ELSE UNCHANGED <<peer_state, nth>>
  /\ UNCHANGED <<host_state, routing_context, failed, sgAsp, sgNtfy, beats, toSg>>

\* case asp_sg_active_tx, second receive: the NTFY must say AS_ACTIVE, any
\* other is answered with an audit and a state the switch has no way out of.
RecvActNotify ==
  /\ host_state = asp_sg_active_tx
  /\ nth = 2
  /\ nth' = 1
  /\ Receive
  /\ \/ /\ ~IsNotify(Buffer)
        /\ UNCHANGED <<host_state, peer_state, failed, toSg>>
     \/ /\ IsNotify(Buffer)
        /\ SaysActive(Buffer)
        /\ peer_state' = asp_sg_handshake_complete
        /\ host_state' = asp_sg_handshake_complete
        /\ UNCHANGED <<failed, toSg>>
     \/ /\ IsNotify(Buffer)
        /\ ~SaysActive(Buffer)
        /\ peer_state' = asp_sg_notify_tx
        /\ host_state' = asp_sg_DAUD_tx
        /\ Send(WithContext("DAUD", routing_context))
  /\ UNCHANGED <<routing_context, sgAsp, sgNtfy, beats>>

\* The default case: the loop spins.
Spinning == host_state \in {asp_sg_up_done, asp_sg_DAUD_tx}

Spin == Spinning /\ UNCHANGED vars

HandshakeStep == SendAspUp \/ RecvUpAck \/ RecvUpNotify \/ RecvActAck \/ RecvActNotify
----------------------------------------------------------------------------
Complete == host_state = asp_sg_handshake_complete

\* m3ua_sg_handshake has returned.
Returned == Complete /\ UNCHANGED vars

Init == GatewayInit /\ HandshakeInit

GatewayStep == SgRespond \/ SgHeartbeat

Next == \/ HandshakeStep
        \/ Spin
        \/ Returned
        \/ GatewayStep /\ UNCHANGED node

Spec == Init /\ [][Next]_vars

\* The stack runs on, and reads what has arrived; the gateway answers what it
\* got and sends the NTFY it owes.  Nothing makes a receive time out.
Fairness == /\ WF_vars(SendAspUp)
            /\ WF_vars(toAsp # <<>> /\ HandshakeStep)
            /\ WF_vars(SgRespond /\ UNCHANGED node)

FairSpec == Spec /\ Fairness
----------------------------------------------------------------------------
(* Properties. *)

\* The states stay within the union the two enumerations share, the streams
\* carry messages, the context is one of the three the code can hold.
TypeOK == /\ GatewayTypeOK
          /\ host_state \in m3ua_states
          /\ peer_state \in m3ua_states
          /\ nth \in {1, 2}
          /\ routing_context \in Contexts
          /\ failed \in 0 .. MaxSendFailures

\* The handshake is complete only while the gateway sees the ASP active,
\* whatever NTFYs, heartbeats, timeouts and failed sends came in between.
CompleteOnlyWhenActive == Complete => sgAsp = "active"

\* Once the loop has run, what the node says of the gateway never runs ahead
\* of what the gateway did, no ASP_ACT is on its way to a gateway that sees
\* the ASP down, and the gateway sees active only an ASP that asked for it.
PeerStateTruthful ==
  /\ host_state # asp_sg_init =>
       /\ peer_state \in {asp_sg_up_ack_tx, asp_sg_notify_tx} => sgAsp # "down"
       /\ peer_state \in {asp_sg_active_ack_tx, asp_sg_handshake_complete}
            => sgAsp = "active"
  /\ Has(toSg, "ASP_ACT") => sgAsp # "down"
  /\ sgAsp = "active" => host_state \in {asp_sg_active_tx, asp_sg_DAUD_tx,
                                         asp_sg_handshake_complete}

\* Every ASP_ACT carries the routing context the gateway assigned.  It holds
\* while each first NTFY says AS_INACTIVE and carries a context.
ActCarriesContext ==
  \A i \in DOMAIN toSg : toSg[i].type = "ASP_ACT" => toSg[i].rc = "assigned"

\* The acknowledgement was read and the message after it was not the NTFY: the
\* case is back at its first receive, waiting for the acknowledgement again.
LostPlace == /\ nth = 1
             /\ \/ host_state = asp_sg_up_tx /\ peer_state = asp_sg_up_ack_tx
                \/ host_state = asp_sg_active_tx /\ peer_state = asp_sg_active_ack_tx

\* Nothing is sent again, so a handshake that lost its place never finds it:
\* a NTFY one timeout too late, or behind a heartbeat, costs the association.
LostPlaceIsForever == [][LostPlace => LostPlace']_vars

\* Under any gateway the handshake comes to rest: it completes, loses its
\* place, or spins in a state the switch does not handle.  It is never left
\* waiting for a message that the gateway owes it.
HandshakeSettles == <>(Complete \/ LostPlace \/ Spinning \/ failed > 0)

\* With a gateway that sends each NTFY right behind its acknowledgement, and no
\* failed send, the handshake completes, however often the receive of an
\* acknowledgement times out or returns a heartbeat first.
HandshakeCompletes == <>Complete

\* M3uaPeering for one end: its peer is the gateway.
Peering == INSTANCE M3uaPeering
             WITH Ends <- {"asp"},
                  seen <- [e \in {"asp"} |-> sgAsp],
                  finished <- [e \in {"asp"} |-> Complete]

\* The gateway sees the ASP come up one step at a time, and the ASP finishes
\* once, while it is seen active: m3ua_sg_handshake keeps M3uaPeering's promise.
ImplementsPeering == Peering!Spec
===============================================================================
