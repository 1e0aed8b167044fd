--------------------------- MODULE SignallingGateway ---------------------------
(***************************************************************************)
(* The signalling gateway the stack connects to, and the SCTP association  *)
(* between them.  The gateway is not in the repository: it is modelled     *)
(* from the messages m3ua_sg_handshake, m3ua_send_inact, m3ua_send_aspdwn  *)
(* and m3ua_recv_data send it and wait for.  All of these travel on        *)
(* CONTROL_STREAM, which SCTP delivers complete and in order.              *)
(***************************************************************************)
EXTENDS M3uaCommon

CONSTANTS
  Burst,         \* the gateway sends an ACK and its NTFY back to back
  UpStatuses,    \* what the NTFY that follows an ASP_UPACK may say
  ActStatuses,   \* what the NTFY that follows an ASP_ACT_ACK may say
  NtfyContexts,  \* the routing context a NTFY may carry
  MaxBeats       \* how many heartbeats the gateway sends: bounds the model

ASSUME GatewayAssumption ==
  /\ Burst \in BOOLEAN
  /\ UpStatuses \subseteq Statuses
  /\ ActStatuses \subseteq Statuses
  /\ NtfyContexts \subseteq {"assigned", "none"}
  /\ MaxBeats \in Nat

VARIABLES
  sgAsp,    \* how the gateway sees the ASP: "down", "inactive" or "active"
  sgNtfy,   \* the NTFY the gateway still has to send: after which ACK
  beats,    \* heartbeats sent so far
  toSg,     \* the control stream towards the gateway
  toAsp     \* the control stream towards the stack

gateway == <<sgAsp, sgNtfy, beats, toSg, toAsp>>

GatewayInit == /\ sgAsp = "down"
               /\ sgNtfy = "none"
               /\ beats = 0
               /\ toSg = <<>>
               /\ toAsp = <<>>

GatewayTypeOK == /\ sgAsp \in {"down", "inactive", "active"}
                 /\ sgNtfy \in {"none", "up", "act"}
                 /\ beats \in 0 .. MaxBeats
                 /\ toSg \in Seq(Messages)
                 /\ toAsp \in Seq(Messages)

StatusesAfter(ack) == IF ack = "up" THEN UpStatuses ELSE ActStatuses

\* The gateway answers with ack, and with the NTFY at once or later.
Answer(ack, after) ==
  IF Burst
    THEN \E s \in StatusesAfter(after), rc \in NtfyContexts :
           /\ toAsp' = toAsp \o <<Msg(ack), Notify(s, rc)>>
           /\ sgNtfy' = "none"
    ELSE /\ toAsp' = Append(toAsp, Msg(ack))
         /\ sgNtfy' = after

SgTakes(type) == /\ toSg # <<>>
                 /\ Head(toSg).type = type
                 /\ sgNtfy = "none"
                 /\ toSg' = Tail(toSg)

SgRecvUp == /\ SgTakes("ASP_UP")
            /\ sgAsp' = IF sgAsp = "down" THEN "inactive" ELSE sgAsp
            /\ Answer("ASP_UPACK", "up")
            /\ UNCHANGED beats

\* An ASP_ACT of an ASP that is down is out of order: no acknowledgement.
SgRecvAct == /\ SgTakes("ASP_ACT")
             /\ IF sgAsp = "down"
                  THEN UNCHANGED <<sgAsp, sgNtfy, toAsp>>
                  ELSE /\ sgAsp' = "active"
                       /\ Answer("ASP_ACT_ACK", "act")
             /\ UNCHANGED beats

\* An audit, an acknowledged heartbeat, anything that is no request of an ASP.
SgRecvOther ==
  /\ \E type \in MessageTypes \ {"ASP_UP", "ASP_ACT", "ASP_INA", "ASP_DOWN"} : SgTakes(type)
  /\ UNCHANGED <<sgAsp, sgNtfy, beats, toAsp>>

\* The ASP leaves: it is acknowledged at once, no code waits for a NTFY here.
SgRecvInactive == /\ SgTakes("ASP_INA")
                  /\ sgAsp' = IF sgAsp = "active" THEN "inactive" ELSE sgAsp
                  /\ toAsp' = Append(toAsp, Msg("ASP_INA_ACK"))
                  /\ UNCHANGED <<sgNtfy, beats>>

SgRecvDown == /\ SgTakes("ASP_DOWN")
              /\ sgAsp' = "down"
              /\ toAsp' = Append(toAsp, Msg("ASP_DWN_ACK"))
              /\ UNCHANGED <<sgNtfy, beats>>

SgNotify == /\ sgNtfy # "none"
            /\ \E s \in StatusesAfter(sgNtfy), rc \in NtfyContexts :
                 toAsp' = Append(toAsp, Notify(s, rc))
            /\ sgNtfy' = "none"
            /\ UNCHANGED <<sgAsp, beats, toSg>>

\* A heartbeat may come at any time once the association is up.
SgHeartbeat == /\ beats < MaxBeats
               /\ beats' = beats + 1
               /\ toAsp' = Append(toAsp, Msg("ASP_HTBT"))
               /\ UNCHANGED <<sgAsp, sgNtfy, toSg>>

SgRespond == SgRecvUp \/ SgRecvAct \/ SgRecvOther \/ SgNotify
===============================================================================
