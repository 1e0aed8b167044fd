------------------------------- MODULE SmsClient -------------------------------
(***************************************************************************)
(* The simulator as client.  It introduces itself to a signalling gateway  *)
(* (do_sg_handshake) and then asks for the route of one receiver (SRI),    *)
(* submits one message to it (MO) and begins again.  No answer is compared *)
(* with the request it answers, and nothing has a timeout.                 *)
(***************************************************************************)
EXTENDS SignallingGateway, SmsCommon

CONSTANT MaxAttempts   \* how often the client tries to send an SRI

ASSUME ClientAssumption == MaxAttempts \in Nat

VARIABLES
  at,           \* the receive or send it is at
  message,      \* m3ua_message, which the handshake never clears
  context,      \* routing_context
  complete,     \* it has logged "Handshake Complete with peer"
  DA_MSISDN,    \* the receiver get_receiver found
  trx_id_SRI,   \* SRIs attempted
  trx_id_MO,    \* MOs sent
  clientDb,     \* msqlHandle
  asked,        \* history: the trx_id and the receiver of every SRI sent
  toNet,        \* data towards the network
  toClient,     \* data from the network
  lost          \* the association is lost

session == <<at, message, context, complete>>
transaction == <<DA_MSISDN, trx_id_SRI, trx_id_MO, clientDb, asked>>
client == <<session, transaction>>

ClientInit == /\ at = "connect" /\ message = NoMessage /\ context = "none"
              /\ complete = FALSE /\ DA_MSISDN = NoReceiver
              /\ trx_id_SRI = 0 /\ trx_id_MO = 0 /\ asked = <<>>
              /\ clientDb \in {"ready", "null"}
              /\ toNet = <<>> /\ toClient = <<>> /\ lost = FALSE

-------------------------------------------------------------------------------
(* The client's handshake. *)

\* Writing to an association that is lost raises SIGPIPE: simSigHandle exits.
SendOn(channel, packet, next) == IF lost THEN at' = "exited" /\ UNCHANGED channel
                                 ELSE at' = next /\ channel' = Append(channel, packet)

HandshakeFrame == UNCHANGED <<transaction, sgAsp, sgNtfy, beats, toNet, toClient, dbFailures>>

Connect == /\ at = "connect"
           /\ SendOn(toSg, Msg("ASP_UP"), "first")
           /\ UNCHANGED <<message, context, complete, toAsp>>
           /\ HandshakeFrame

\* sctp_recvmsg: blocks, or returns at once and leaves the buffer as it is.
Arrived == IF lost THEN message ELSE Head(toAsp)
MayReceive == lost \/ toAsp # <<>>
Receive == toAsp' = IF lost THEN toAsp ELSE Tail(toAsp)

\* main: whatever comes first is taken for the acknowledgement of the ASP_UP.
RecvFirst == /\ at = "first" /\ MayReceive /\ Receive
             /\ message' = Arrived
             /\ at' = "top"
             /\ UNCHANGED <<context, complete, toSg>>
             /\ HandshakeFrame

Collected == IF Arrived.status = "inactive" /\ Arrived.rc # "none" THEN Arrived.rc ELSE context

\* A mutant: the handshake is over when the ASP_ACT is out.
RecvTopCompletes == /\ at = "top" /\ MayReceive /\ Receive
                    /\ IF Arrived.type = "NTFY"
                         THEN /\ context' = Collected
                              /\ message' = WithContext("ASP_ACT", context')
                              /\ SendOn(toSg, message', "idle")
                              /\ complete' = ~lost
                         ELSE /\ message' = Arrived
                              /\ UNCHANGED <<at, context, complete, toSg>>
                    /\ HandshakeFrame

\* The ASP_ACT is built in the buffer the NTFY came in.
RecvTop == /\ at = "top" /\ MayReceive /\ Receive
           /\ IF Arrived.type = "NTFY"
                THEN /\ context' = Collected
                     /\ message' = WithContext("ASP_ACT", context')
                     /\ SendOn(toSg, message', "act")
                ELSE /\ message' = Arrived
                     /\ UNCHANGED <<at, context, toSg>>
           /\ UNCHANGED complete
           /\ HandshakeFrame

RecvActAck == /\ at = "act" /\ MayReceive /\ Receive
              /\ message' = Arrived
              /\ at' = IF Arrived.type = "ASP_ACT_ACK" THEN "notify" ELSE "top"
              /\ UNCHANGED <<context, complete, toSg>>
              /\ HandshakeFrame

\* A mutant: anything but AS_ACTIVE goes back one receive.
RecvNotifyWaitsAck == /\ at = "notify" /\ MayReceive /\ Receive
                      /\ IF Arrived.type = "NTFY" /\ Arrived.status = "active"
                           THEN /\ message' = WithContext("DAUD", context)
                                /\ SendOn(toSg, message', "idle")
                                /\ complete' = ~lost
                           ELSE /\ message' = Arrived
                                /\ at' = "act"
                                /\ UNCHANGED <<complete, toSg>>
                      /\ UNCHANGED context
                      /\ HandshakeFrame

\* Anything but AS_ACTIVE: back to the top, waiting for another NTFY.
RecvNotify == /\ at = "notify" /\ MayReceive /\ Receive
              /\ IF Arrived.type = "NTFY" /\ Arrived.status = "active"
                   THEN /\ message' = WithContext("DAUD", context)
                        /\ SendOn(toSg, message', "idle")
                        /\ complete' = ~lost
                   ELSE /\ message' = Arrived
                        /\ at' = "top"
                        /\ UNCHANGED <<complete, toSg>>
              /\ UNCHANGED context
              /\ HandshakeFrame

Handshake == Connect \/ RecvFirst \/ RecvTop \/ RecvActAck \/ RecvNotify

-------------------------------------------------------------------------------
(* The client's transactions. *)

TransactionFrame == UNCHANGED <<message, context, complete, gateway>>

\* A mutant: get_receiver fetches every result set of its CALL.
SendSriFetches ==
  /\ at = "idle" /\ trx_id_SRI < MaxAttempts
  /\ trx_id_SRI' = trx_id_SRI + 1
  /\ clientDb = "ready"
  /\ \E r \in Receivers :
       /\ DA_MSISDN' = r
       /\ asked' = IF lost THEN asked ELSE Append(asked, [trx |-> trx_id_SRI', receiver |-> r])
       /\ SendOn(toNet, Packet("SRI_NA", trx_id_SRI', r), "wait")
  /\ UNCHANGED <<trx_id_MO, toClient, clientDb, dbFailures>>
  /\ TransactionFrame

(***************************************************************************)
(* m3ua_send_SRI.  get_receiver ignores whether its CALL succeeded, and    *)
(* leaves the second result set of the CALL behind.  Without a receiver    *)
(* there is no SRI, and the loop tries again under the next trx_id.  The   *)
(* SRI is the one message with a network appearance before its data, which *)
(* moves the TCAP in it by eight bytes: "SRI_NA".                          *)
(***************************************************************************)
SendSri ==
  /\ at = "idle" /\ trx_id_SRI < MaxAttempts
  /\ trx_id_SRI' = trx_id_SRI + 1
  /\ \E query \in gsmsc_tcap_query(clientDb, dbFailures) :
       /\ dbFailures' = query.failures
       /\ clientDb' = IF query.ok THEN "pending" ELSE query.handle
       /\ \/ query.handle = "null" /\ at' = "exited"    \* mysql_store_result (NULL)
             /\ UNCHANGED <<DA_MSISDN, asked, toNet>>
          \/ query.handle # "null"                     \* no row, or no result
             /\ DA_MSISDN' = NoReceiver
             /\ UNCHANGED <<at, asked, toNet>>
          \/ query.ok /\ \E r \in Receivers :
               /\ DA_MSISDN' = r
               /\ asked' = IF lost THEN asked
                           ELSE Append(asked, [trx |-> trx_id_SRI', receiver |-> r])
               /\ SendOn(toNet, Packet("SRI_NA", trx_id_SRI', r), "wait")
  /\ UNCHANGED <<trx_id_MO, toClient>>
  /\ TransactionFrame

\* A mutant: the inner loop ends with the first END.
RecvSriAckBreaks == /\ at = "wait" /\ toClient # <<>> /\ Head(toClient).type = "SRI_ACK"
                    /\ toClient' = Tail(toClient)
                    /\ trx_id_MO' = trx_id_MO + 1
                    /\ SendOn(toNet, Packet("MO", trx_id_MO', DA_MSISDN), "idle")
                    /\ UNCHANGED <<DA_MSISDN, trx_id_SRI, clientDb, asked, dbFailures>>
                    /\ TransactionFrame

\* A mutant: without an IMSI there is no message.
RecvSriAckNeedsImsi == /\ at = "wait" /\ toClient # <<>> /\ Head(toClient).type = "SRI_ACK"
                       /\ toClient' = Tail(toClient)
                       /\ UNCHANGED <<at, transaction, toNet, dbFailures>>
                       /\ TransactionFrame

\* A mutant: the caller counts the MO as well.
RecvSriAckCounts == /\ at = "wait" /\ toClient # <<>> /\ Head(toClient).type = "SRI_ACK"
                    /\ toClient' = Tail(toClient)
                    /\ trx_id_MO' = trx_id_MO + 2
                    /\ SendOn(toNet, Packet("MO", trx_id_MO', DA_MSISDN), "wait")
                    /\ UNCHANGED <<DA_MSISDN, trx_id_SRI, clientDb, asked, dbFailures>>
                    /\ TransactionFrame

\* parse_sri_ack_packet finds no IMSI: the message goes to the receiver asked for.
RecvSriAck == /\ at = "wait" /\ toClient # <<>> /\ Head(toClient).type = "SRI_ACK"
              /\ toClient' = Tail(toClient)
              /\ trx_id_MO' = trx_id_MO + 1
              /\ SendOn(toNet, Packet("MO", trx_id_MO', DA_MSISDN), "wait")
              /\ UNCHANGED <<DA_MSISDN, trx_id_SRI, clientDb, asked, dbFailures>>
              /\ TransactionFrame

\* Any END without an opcode ends the inner loop.
RecvMoAck == /\ at = "wait" /\ toClient # <<>> /\ Head(toClient).type \in {"MO_ACK", "END"}
             /\ toClient' = Tail(toClient)
             /\ at' = "idle"
             /\ UNCHANGED <<DA_MSISDN, trx_id_SRI, trx_id_MO, clientDb, asked, toNet, dbFailures>>
             /\ TransactionFrame

\* A mutant: a message with a zero at [121] is an END.
RecvControlEnds == /\ at = "wait" /\ toAsp # <<>>
                   /\ toAsp' = Tail(toAsp)
                   /\ at' = "idle"
                   /\ UNCHANGED <<message, context, complete, transaction, sgAsp, sgNtfy, beats,
                                  toSg, toNet, toClient, dbFailures>>

\* Management and heartbeat messages that come in between are read and dropped.
RecvControl == /\ at = "wait" /\ toAsp # <<>>
               /\ toAsp' = Tail(toAsp)
               /\ UNCHANGED <<client, sgAsp, sgNtfy, beats, toSg, toNet, toClient, dbFailures>>

ClientStep == Handshake \/ SendSri \/ RecvSriAck \/ RecvMoAck \/ RecvControl
===============================================================================
