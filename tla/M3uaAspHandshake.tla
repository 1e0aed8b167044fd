---------------------------- MODULE M3uaAspHandshake ----------------------------
(***************************************************************************)
(* Two ASPs bring up their association: the stack runs m3ua_asp_handshake, *)
(* the simulator, as the server, do_asp_handshake.  Both are in the        *)
(* repository, and they are written differently: the stack reads messages  *)
(* two at a time and drops what its case does not expect, the simulator    *)
(* answers each message as it comes, from the buffer it came in.           *)
(***************************************************************************)
EXTENDS M3uaCommon

VARIABLES
  host_state,  \* the stack: as_node->host_state.asp_state
  peer_state,  \* the stack: as_node->peer_state.asp_state
  nth,         \* the stack: which of its two receives the case is at
  simHost,     \* the simulator: host_state
  simPeer,     \* the simulator: peer_state
  toStack,     \* the control stream towards the stack
  toSim        \* the control stream towards the simulator

stack == <<host_state, peer_state, nth>>
simulator == <<simHost, simPeer>>
vars == <<stack, simulator, toStack, toSim>>

\* as_node comes from malloc and m3ua_asp_handshake sets host_state only, so
\* the peer state is what the memory held.  The simulator's are globals.
Init == /\ host_state = asp_init
        /\ peer_state \in m3ua_states
        /\ nth = 1
        /\ simHost = asp_init
        /\ simPeer = asp_init
        /\ toStack = <<>>
        /\ toSim = <<>>
----------------------------------------------------------------------------
(* The stack: the cases of the switch. *)

Complete == host_state = asp_handshake_complete

\* What the stack sends, with the routing context nothing here ever sets.
Out(type) == WithContext(type, IF type \in AsptmTypes THEN "garbage" ELSE "none")

\* A receive times out after 60 seconds and leaves the zeroed buffer.
Buffer == IF toStack = <<>> THEN NoMessage ELSE Head(toStack)

Receive == toStack' = IF toStack = <<>> THEN toStack ELSE Tail(toStack)

\* Two receives, whatever the first brought: it may set the state the next
\* pass of the loop switches on, and the second receive still follows.
InCase(state, done) == \/ nth = 1 /\ host_state = state
                       \/ nth = 2 /\ host_state \in {state, done}

\* case asp_init
SendAspUp == /\ host_state = asp_init
             /\ host_state' = asp_up_tx
             /\ toSim' = Append(toSim, Out("ASP_UP"))
             /\ UNCHANGED <<peer_state, nth, simulator, toStack>>

\* case asp_up_tx
RecvUp == /\ InCase(asp_up_tx, asp_up_done)
          /\ Receive
          /\ nth' = 3 - nth
          /\ peer_state' = IF Buffer.type = "ASP_UP" THEN asp_up_tx ELSE peer_state
          /\ host_state' = IF Buffer.type = "ASP_UPACK" THEN asp_up_done ELSE host_state
          /\ UNCHANGED <<simulator, toSim>>

\* A mutant: the peer's ASP_UP is never acknowledged.
SendActUnacked == /\ host_state = asp_up_done
                  /\ nth = 1
                  /\ host_state' = asp_active_tx
                  /\ toSim' = Append(toSim, Out("ASP_ACT"))
                  /\ UNCHANGED <<peer_state, nth, simulator, toStack>>

\* case asp_up_done
SendAct == /\ host_state = asp_up_done
           /\ nth = 1
           /\ host_state' = asp_active_tx
           /\ toSim' = toSim \o (IF peer_state = asp_up_tx
                                   THEN <<Out("ASP_UPACK")>> ELSE <<>>)
                             \o <<Out("ASP_ACT")>>
           /\ UNCHANGED <<peer_state, nth, simulator, toStack>>

\* A mutant: the peer's ASP_ACT is taken for the acknowledgement of our own.
RecvActOrAck == /\ InCase(asp_active_tx, asp_active_done)
                /\ Receive
                /\ nth' = 3 - nth
                /\ peer_state' = IF Buffer.type = "ASP_ACT" THEN asp_active_tx ELSE peer_state
                /\ host_state' = IF Buffer.type \in {"ASP_ACT", "ASP_ACT_ACK"}
                                   THEN asp_active_done ELSE host_state
                /\ UNCHANGED <<simulator, toSim>>

\* case asp_active_tx
RecvAct == /\ InCase(asp_active_tx, asp_active_done)
           /\ Receive
           /\ nth' = 3 - nth
           /\ peer_state' = IF Buffer.type = "ASP_ACT" THEN asp_active_tx ELSE peer_state
           /\ host_state' = IF Buffer.type = "ASP_ACT_ACK" THEN asp_active_done ELSE host_state
           /\ UNCHANGED <<simulator, toSim>>

\* case asp_active_done
SendActAck == /\ host_state = asp_active_done
              /\ nth = 1
              /\ host_state' = asp_handshake_complete
              /\ toSim' = IF peer_state = asp_active_tx
                            THEN Append(toSim, Out("ASP_ACT_ACK")) ELSE toSim
              /\ UNCHANGED <<peer_state, nth, simulator, toStack>>

StackStep == SendAspUp \/ RecvUp \/ SendAct \/ RecvAct \/ SendActAck
----------------------------------------------------------------------------
(* The simulator: its loop. *)

SimDoneHalfway == simHost = asp_active_ack_tx \/ simPeer = asp_active_ack_tx

SimDone == simHost = asp_active_ack_tx /\ simPeer = asp_active_ack_tx

\* The server accepts the association and sends its own ASP_UP.
SimAccept == /\ simHost = asp_init
             /\ simHost' = asp_up_tx
             /\ toStack' = Append(toStack, Msg("ASP_UP"))
             /\ UNCHANGED <<stack, simPeer, toSim>>

\* The top of the loop: our ASP_UP was acknowledged.
SimSendAct == /\ simHost = asp_up_ack_tx
              /\ simHost' = asp_active_tx
              /\ toStack' = Append(toStack, Msg("ASP_ACT"))
              /\ UNCHANGED <<stack, simPeer, toSim>>

SimTakes(type) == /\ simHost \notin {asp_init, asp_up_ack_tx}
                  /\ ~SimDone
                  /\ toSim # <<>>
                  /\ Head(toSim).type = type
                  /\ toSim' = Tail(toSim)

\* The answer is built in the buffer the ASP_UP came in, so the next test, a
\* plain `if', finds an ASP_UPACK there and takes it for the peer's.
SimRecvUp == /\ SimTakes("ASP_UP")
             /\ simPeer' = asp_up_ack_tx
             /\ simHost' = asp_up_ack_tx
             /\ toStack' = Append(toStack, Msg("ASP_UPACK"))
             /\ UNCHANGED stack

SimRecvUpAck == /\ SimTakes("ASP_UPACK")
                /\ simHost' = asp_up_ack_tx
                /\ UNCHANGED <<stack, simPeer, toStack>>

SimRecvAct == /\ SimTakes("ASP_ACT")
              /\ simPeer' = asp_active_ack_tx
              /\ toStack' = Append(toStack, Msg("ASP_ACT_ACK"))
              /\ UNCHANGED <<stack, simHost>>

SimRecvActAck == /\ SimTakes("ASP_ACT_ACK")
                 /\ simHost' = asp_active_ack_tx
                 /\ UNCHANGED <<stack, simPeer, toStack>>

SimStep == \/ SimAccept \/ SimSendAct
           \/ SimRecvUp \/ SimRecvUpAck \/ SimRecvAct \/ SimRecvActAck
----------------------------------------------------------------------------
\* Both functions have returned.
Returned == Complete /\ SimDone /\ UNCHANGED vars

Next == StackStep \/ SimStep \/ Returned

Spec == Init /\ [][Next]_vars

\* Each end runs on.  The stack's receives end within the 60 seconds of
\* set_recv_timeout; the simulator's block until a message arrives.
FairSpec == Spec /\ WF_vars(StackStep) /\ WF_vars(SimStep)
----------------------------------------------------------------------------
(* Properties. *)

\* Both programs keep their states within the enumeration m3ua_asp_states.
TypeOK == /\ host_state \in m3ua_states
          /\ peer_state \in m3ua_states
          /\ nth \in {1, 2}
          /\ simHost \in m3ua_states
          /\ simPeer \in m3ua_states
          /\ toStack \in Seq(Messages)
          /\ toSim \in Seq(Messages)

\* However the timeouts shift the pairs the stack reads in, and whatever
\* message that makes it drop, both ends complete.
BothComplete == <>[](Complete /\ SimDone)

\* An end that finished has read all there was: no message of the handshake is
\* left for the audit and the worker, or for the simulator's TCAP parser.
NothingLeftBehind == /\ Complete => toStack = <<>>
                     /\ SimDone => toSim = <<>>

\* docs/m3ua_states.txt lists the states in order: "4) asp up ack received",
\* then "6) asp active sent".  The simulator is past the fourth when the stack
\* has sent the ASP_UPACK, that is, has left asp_up_done.
ActiveOnlyAfterUpAck ==
  simHost = asp_active_tx => host_state \in {asp_active_tx, asp_active_done,
                                             asp_handshake_complete}

\* How each end sees the other.  The stack has taken the peer's ASP_UP for
\* good when it leaves asp_up_tx, before that its peer_state may be garbage.
Seen == [e \in {"stack", "sim"} |->
          LET state == IF e = "stack" THEN simPeer
                       ELSE IF host_state \in {asp_init, asp_up_tx} THEN asp_init
                       ELSE peer_state
          IN  IF state \in {asp_active_tx, asp_active_ack_tx} THEN "active"
              ELSE IF state \in {asp_up_tx, asp_up_ack_tx} THEN "inactive"
              ELSE "down"]

\* M3uaPeering for two ends, each the peer of the other.
Peering == INSTANCE M3uaPeering
             WITH Ends <- {"stack", "sim"},
                  seen <- Seen,
                  finished <- [e \in {"stack", "sim"} |->
                                 IF e = "stack" THEN Complete ELSE SimDone]

\* Each end is seen by the other one step at a time, and finishes once, while
\* the other sees it active: the two loops keep M3uaPeering's promise together.
ImplementsPeering == Peering!Spec
===============================================================================
