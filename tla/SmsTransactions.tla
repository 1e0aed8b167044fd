---------------------------- MODULE SmsTransactions ----------------------------
(***************************************************************************)
(* A simulated client and a simulated server, joined by a network.  The    *)
(* client is an ASP of the signalling gateway; the network behind it takes *)
(* each request to the node that serves it and each answer back.           *)
(***************************************************************************)
EXTENDS SmsClient, SmsServer, FiniteSets

CONSTANTS
  MaxLosses,   \* whether the client's association may be lost
  MaxStrays    \* messages of other nodes for the server

ASSUME SmsAssumption == /\ MaxLosses \in 0 .. 1
                        /\ MaxStrays \in Nat

VARIABLE strays   \* messages of other nodes sent so far

carried == <<toNet, toClient, toServer, fromServer>>
vars == <<gateway, client, server, carried, dbFailures, lost, strays>>

Init == /\ GatewayInit
        /\ ClientInit
        /\ ServerInit
        /\ dbFailures = 0 /\ strays = 0

-------------------------------------------------------------------------------
(* The network, and what goes wrong. *)

NetworkFrame == UNCHANGED <<gateway, client, server, dbFailures, lost, strays>>

\* What becomes of a request on its way: a node that hands a message on may
\* write its M3UA header anew, without the network appearance, or leave it.
Relayed(packet) == IF packet.type = "SRI_NA" THEN {packet, [packet EXCEPT !.type = "SRI"]}
                   ELSE {packet}

\* The request of an active ASP is delivered; another HLR may answer an SRI.
Deliver == /\ toNet # <<>> /\ sgAsp = "active"
           /\ toNet' = Tail(toNet)
           /\ \/ /\ \E packet \in Relayed(Head(toNet)) : toServer' = Append(toServer, packet)
                 /\ UNCHANGED toClient
              \/ /\ Head(toNet).type = "SRI_NA"
                 /\ toClient' = Append(toClient, [Head(toNet) EXCEPT !.type = "SRI_ACK"])
                 /\ UNCHANGED toServer
           /\ UNCHANGED fromServer
           /\ NetworkFrame

\* trx 0 is a stray's: its answer goes elsewhere.
Return == /\ fromServer # <<>> /\ ~lost
          /\ fromServer' = Tail(fromServer)
          /\ toClient' = IF Head(fromServer).trx = 0 THEN toClient
                         ELSE Append(toClient, Head(fromServer))
          /\ UNCHANGED <<toNet, toServer>>
          /\ NetworkFrame

\* Other nodes submit a message or report on the one being delivered; one
\* after the other, and between the messages of the client.
Stray == /\ strays < MaxStrays /\ serving /\ toServer = <<>>
         /\ strays' = strays + 1
         /\ \E type \in {"MT", "CONTINUE", "END"} :
              toServer' = Append(toServer, Packet(type, 0, NoReceiver))
         /\ UNCHANGED <<gateway, client, server, toNet, toClient, fromServer, dbFailures, lost>>

\* The client's association ends: nothing gets through in either direction.
Lose == /\ MaxLosses > 0 /\ ~lost /\ at # "connect"
        /\ lost' = TRUE
        /\ toSg' = <<>> /\ toAsp' = <<>> /\ toNet' = <<>> /\ toClient' = <<>>
        /\ UNCHANGED <<sgAsp, sgNtfy, beats, client, server, toServer, fromServer,
                       dbFailures, strays>>

Client == ClientStep /\ UNCHANGED <<server, toServer, fromServer, lost, strays>>

Server == ServerStep /\ UNCHANGED <<gateway, client, toNet, toClient, lost, strays>>

Gateway == /\ ~lost
           /\ SgRespond \/ SgHeartbeat
           /\ UNCHANGED <<client, server, carried, dbFailures, lost, strays>>

Next == Client \/ Server \/ Gateway \/ Deliver \/ Return \/ Stray \/ Lose

Spec == Init /\ [][Next]_vars

(***************************************************************************)
(* Every process runs when it can, and the network and the gateway behind  *)
(* it do their work.  Heartbeats, strays and faults need not happen, and   *)
(* a failure of the database is a choice of the step it happens in.        *)
(***************************************************************************)
FairSpec == /\ Spec
            /\ WF_vars(Client) /\ WF_vars(Server)
            /\ WF_vars(Gateway) /\ WF_vars(Deliver) /\ WF_vars(Return)

-------------------------------------------------------------------------------
Packets == [type : {"SRI_NA", "SRI", "MO", "MT", "CONTINUE", "END", "SRI_ACK", "MO_ACK"},
            trx : Nat, receiver : Receivers \cup {NoReceiver}]

SmsTypeOK ==
  /\ GatewayTypeOK
  /\ at \in {"connect", "first", "top", "act", "notify", "idle", "wait", "exited"}
  /\ message \in Messages /\ context \in Contexts
  /\ complete \in BOOLEAN /\ serving \in BOOLEAN /\ lost \in BOOLEAN
  /\ DA_MSISDN \in Receivers \cup {NoReceiver}
  /\ trx_id_SRI \in 0 .. MaxAttempts /\ trx_id_MO \in 0 .. trx_id_SRI
  /\ asked \in Seq([trx : Nat, receiver : Receivers])
  /\ clientDb \in Handles /\ serverDb \in {"null", "ready"}
  /\ sent_sms \subseteq [opcode : 0 .. 2, trx : Nat, receiver : Receivers \cup {NoReceiver}]
  /\ process \in {2, 3, 4}
  /\ \A channel \in {toNet, toClient, toServer, fromServer} : channel \in Seq(Packets)
  /\ dbFailures \in 0 .. MaxDbFailures /\ strays \in 0 .. MaxStrays

\* The messages of the client's transactions that are on their way.
Own(channel) == Cardinality({i \in DOMAIN channel : channel[i].trx > 0})
Underway == Own(toNet) + Own(toServer) + Own(fromServer) + Own(toClient)

(***************************************************************************)
(* Although no answer is compared with the request it answers, none can be *)
(* taken for another's: while the client waits one message of its          *)
(* transaction is on its way at most, and when it begins a new one none is *)
(* left.                                                                   *)
(***************************************************************************)
OneTransaction == /\ Underway <= 1
                  /\ at = "idle" => Underway = 0

(***************************************************************************)
(* The message goes to the receiver its route was asked for, although      *)
(* DA_MSISDN is a global that the next get_receiver overwrites: the nth MO *)
(* submitted or stored is for the receiver of the nth SRI sent.            *)
(***************************************************************************)
MoReachesAsked ==
  /\ \A channel \in {toNet, toServer} : \A i \in DOMAIN channel :
       channel[i].type = "MO" => channel[i].receiver = asked[channel[i].trx].receiver
  /\ \A row \in sent_sms : row.opcode = 2 => row.receiver = asked[row.trx].receiver

(***************************************************************************)
(* No two attempts in a row send an SRI: the CALL of the first leaves a    *)
(* result set behind, the statement of the next fails on it, and only the  *)
(* connection opened then works again.                                     *)
(***************************************************************************)
EveryOtherAttempt == \A i \in 1 .. Len(asked) - 1 : asked[i + 1].trx > asked[i].trx + 1

Mos(channel) == Cardinality({i \in DOMAIN channel : channel[i].type = "MO"})

(***************************************************************************)
(* The server acknowledges an MO whose INSERT failed, but each message it  *)
(* loses that way is paid for by a failure of its own: the MOs that were   *)
(* served are stored, but for one per failed statement or connection and   *)
(* one for a server that started without a connection.                     *)
(***************************************************************************)
EachLossHasItsFailure ==
  serving /\ ~lost =>
    trx_id_MO - Mos(toNet) - Mos(toServer)
      <= Cardinality({row \in sent_sms : row.opcode = 2}) + dbFailures + 1

(***************************************************************************)
(* A delivery is never recorded as reported: the gate of parse_message     *)
(* drops the CONTINUE that would make process 3, and the END updates rows  *)
(* in 3 only.                                                              *)
(***************************************************************************)
NeverReported == process # 4

\* The client with its gateway as a handshake of one end.
Peering == INSTANCE M3uaPeering WITH
             Ends <- {"client"},
             seen <- [e \in {"client"} |-> sgAsp],
             finished <- [e \in {"client"} |-> complete]

(***************************************************************************)
(* do_sg_handshake keeps the promise of every handshake of this system: it *)
(* finishes once, and only while the gateway sees the client active,       *)
(* whatever it reads first and whenever the association is lost.           *)
(***************************************************************************)
ClientImplementsPeering == Peering!Spec

(***************************************************************************)
(* The handshake ends, completed or with the association lost: the one     *)
(* loop picks up any later NTFY, so a heartbeat at any point of it costs   *)
(* another round and no more.                                              *)
(***************************************************************************)
ClientCompletes == <>(complete \/ lost)

\* The server is at an SRI it will not recognise.
PassedOver == \E i \in DOMAIN toServer : toServer[i].type = "SRI_NA"

(***************************************************************************)
(* A request on its way is answered, and the client gets to its next       *)
(* transaction, unless the server crashed, the association was lost, or    *)
(* the network handed on the SRI as the client writes it, which the server *)
(* passes over.                                                            *)
(***************************************************************************)
RequestIsAnswered == (Own(toNet) > 0) ~> (at = "idle" \/ ~serving \/ lost \/ PassedOver)

\* The client waits, and nothing that could become an answer is under way.
Unanswerable ==
  /\ at = "wait"
  /\ Own(toNet) + Own(toClient) + Own(fromServer) = 0
  /\ serving => \A i \in DOMAIN toServer :
                  toServer[i].trx > 0 => toServer[i].type = "SRI_NA"

(***************************************************************************)
(* A transaction that lost its way stays lost: once the server crashed on  *)
(* it, passed it over or the association took it along, no later step of   *)
(* anybody ends the client's wait, and it asks for nothing more.           *)
(***************************************************************************)
SilenceLasts ==
  [][Unanswerable => Unanswerable' /\ UNCHANGED <<trx_id_SRI, trx_id_MO>>]_vars
===============================================================================
