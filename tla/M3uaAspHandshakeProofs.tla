------------------------ MODULE M3uaAspHandshakeProofs ------------------------
(***************************************************************************)
(* Theorems about the handshake of two ASPs.  There are no parameters: the *)
(* handshake is short, and what makes it correct is that each end's place  *)
(* in its loop and the messages under way determine each other.  Handshake *)
(* says how, phase by phase; the phases follow the stack's host_state.     *)
(***************************************************************************)
EXTENDS M3uaAspHandshake, SequenceTheorems, TLAPS

USE DEF asp_init, asp_up_tx, asp_up_ack_tx, asp_up_done, asp_active_tx,
        asp_active_ack_tx, asp_active_done, asp_handshake_complete

\* What the simulator sends.
up == Msg("ASP_UP")
upAck == Msg("ASP_UPACK")
act == Msg("ASP_ACT")
actAck == Msg("ASP_ACT_ACK")

\* What the stack sends.
outUp == Out("ASP_UP")
outUpAck == Out("ASP_UPACK")
outAct == Out("ASP_ACT")
outActAck == Out("ASP_ACT_ACK")

\* The simulator may or may not have been accepted, and its ASP_UP read.
Introduced == /\ simPeer = asp_init
              /\ \/ simHost = asp_init /\ toStack = <<>>
                 \/ simHost = asp_up_tx /\ toStack = <<up>>
                 \/ /\ simHost = asp_up_tx /\ toStack = <<>>
                    /\ host_state = asp_up_tx /\ peer_state = asp_up_tx

\* Nothing sent; the stack's ASP_UP under way.
Idle == host_state = asp_init /\ nth = 1 /\ toSim = <<>> /\ Introduced
UpSent == host_state = asp_up_tx /\ toSim = <<outUp>> /\ Introduced

\* The ASP_UPACK is on its way, and the simulator's own ASP_UP before it
\* unless it was read; the ASP_ACT may be behind it.
UpAcked == /\ host_state = asp_up_tx
           /\ toSim = <<>>
           /\ simPeer = asp_up_ack_tx
           /\ \/ /\ simHost = asp_up_ack_tx
                 /\ toStack \in {<<up, upAck>>, <<upAck>>}
              \/ /\ simHost = asp_active_tx
                 /\ toStack \in {<<up, upAck, act>>, <<upAck, act>>}
           /\ toStack \in {<<upAck>>, <<upAck, act>>} => peer_state = asp_up_tx

\* The ASP_UPACK was read.  An ASP_ACT read in the second receive is lost.
UpDone == /\ host_state = asp_up_done
          /\ peer_state = asp_up_tx
          /\ toSim = <<>>
          /\ simPeer = asp_up_ack_tx
          /\ \/ simHost = asp_up_ack_tx /\ toStack = <<>>
             \/ simHost = asp_active_tx /\ toStack \in {<<>>, <<act>>}

\* The stack's ASP_ACT is under way, behind its ASP_UPACK, which makes the
\* simulator send an ASP_ACT, be it the second.  So one ASP_ACT is yet to come
\* or there to be read, unless the stack has seen one.
ActSent == /\ host_state = asp_active_tx
           /\ peer_state \in {asp_up_tx, asp_active_tx}
           /\ simPeer = asp_up_ack_tx
           /\ \/ /\ toSim = <<outUpAck, outAct>>
                 /\ \/ simHost = asp_up_ack_tx /\ toStack = <<>>
                    \/ simHost = asp_active_tx /\ toStack \in {<<>>, <<act>>}
              \/ /\ toSim = <<outAct>>
                 /\ \/ simHost = asp_up_ack_tx /\ toStack \in {<<>>, <<act>>}
                    \/ simHost = asp_active_tx /\ toStack \in {<<act>>, <<act, act>>}
                    \/ /\ simHost = asp_active_tx /\ toStack = <<>>
                       /\ peer_state = asp_active_tx

\* The ASP_ACT_ACK comes behind every ASP_ACT.
ActAcked == /\ host_state = asp_active_tx
            /\ peer_state \in {asp_up_tx, asp_active_tx}
            /\ toSim = <<>>
            /\ simPeer = asp_active_ack_tx
            /\ simHost = asp_active_tx
            /\ \/ toStack \in {<<act, act, actAck>>, <<act, actAck>>}
               \/ toStack = <<actAck>> /\ peer_state = asp_active_tx

\* All was read: the stack has seen the peer active, and acknowledges it.
ActDone == /\ host_state = asp_active_done
           /\ peer_state = asp_active_tx
           /\ toStack = <<>>
           /\ toSim = <<>>
           /\ simPeer = asp_active_ack_tx
           /\ simHost = asp_active_tx

AllSent == /\ Complete
           /\ nth = 1
           /\ peer_state = asp_active_tx
           /\ toStack = <<>>
           /\ simPeer = asp_active_ack_tx
           /\ \/ simHost = asp_active_tx /\ toSim = <<outActAck>>
              \/ simHost = asp_active_ack_tx /\ toSim = <<>>

\* The inductive invariant.
Handshake == /\ peer_state \in m3ua_states
             /\ nth \in {1, 2}
             /\ \/ Idle \/ UpSent \/ UpAcked \/ UpDone
                \/ ActSent \/ ActAcked \/ ActDone \/ AllSent
----------------------------------------------------------------------------
\* The messages of the handshake are messages, told apart by their types.
LEMMA Sent ==
  /\ {up, upAck, act, actAck, outUp, outUpAck, outAct, outActAck} \subseteq Messages
  /\ up.type = "ASP_UP" /\ outUp.type = "ASP_UP"
  /\ upAck.type = "ASP_UPACK" /\ outUpAck.type = "ASP_UPACK"
  /\ act.type = "ASP_ACT" /\ outAct.type = "ASP_ACT"
  /\ actAck.type = "ASP_ACT_ACK" /\ outActAck.type = "ASP_ACT_ACK"
  /\ NoMessage.type = "MGMT_ERR"
BY DEF up, upAck, act, actAck, outUp, outUpAck, outAct, outActAck, Out, Msg,
       WithContext, NoMessage, Messages, MessageTypes, AspsmTypes, AsptmTypes,
       Statuses, Contexts

\* What a receive takes from a stream of one, two or three messages.
LEMMA Taken ==
  ASSUME NEW a, NEW b, NEW c
  PROVE  /\ <<a>> # <<>> /\ Head(<<a>>) = a /\ Tail(<<a>>) = <<>>
         /\ <<a, b>> # <<>> /\ Head(<<a, b>>) = a /\ Tail(<<a, b>>) = <<b>>
         /\ <<a, b, c>> # <<>> /\ Head(<<a, b, c>>) = a /\ Tail(<<a, b, c>>) = <<b, c>>
OBVIOUS

\* What a stream is after a send.
LEMMA Added ==
  ASSUME NEW a, NEW b, NEW c
  PROVE  /\ Append(<<>>, a) = <<a>>
         /\ Append(<<a>>, b) = <<a, b>>
         /\ Append(<<a, b>>, c) = <<a, b, c>>
         /\ <<>> \o <<a>> \o <<b>> = <<a, b>>
<1> DEFINE S == {a, b, c}
<1>1. /\ a \in S /\ b \in S /\ c \in S
      /\ <<a>> \in Seq(S) /\ <<a, b>> \in Seq(S) /\ <<a, b, c>> \in Seq(S)
  OBVIOUS
<1> HIDE DEF S
<1>2. Append(<<>>, a) = <<a>>
  OBVIOUS
<1>3. Append(<<a>>, b) = <<a, b>>
  <2> DEFINE s == Append(<<a>>, b)
               t == <<a, b>>
  <2>1. /\ s \in Seq(S)
        /\ Len(s) = 2
        /\ s[1] = a /\ s[2] = b
    BY <1>1, AppendProperties
  <2>2. Len(t) = 2 /\ t[1] = a /\ t[2] = b
    OBVIOUS
  <2>3. t \in Seq(S)
    BY <1>1
  <2>4. \A i \in 1 .. 2 : i \in {1, 2}
    OBVIOUS
  <2> HIDE DEF s, t
  <2>5. \A i \in 1 .. Len(s) : s[i] = t[i]
    BY <2>1, <2>2, <2>4
  <2>6. s = t
    BY <2>1, <2>2, <2>3, <2>5, SeqEqual
  <2> QED
    BY <2>6 DEF s, t
<1>4. Append(<<a, b>>, c) = <<a, b, c>>
  <2> DEFINE s == Append(<<a, b>>, c)
               t == <<a, b, c>>
  <2>1. /\ s \in Seq(S)
        /\ Len(s) = 3
        /\ s[1] = a /\ s[2] = b
        /\ s[3] = c
    BY <1>1, AppendProperties
  <2>2. Len(t) = 3 /\ t[1] = a /\ t[2] = b /\ t[3] = c
    OBVIOUS
  <2>3. t \in Seq(S)
    BY <1>1
  <2>4. \A i \in 1 .. 3 : i \in {1, 2, 3}
    OBVIOUS
  <2> HIDE DEF s, t
  <2>5. \A i \in 1 .. Len(s) : s[i] = t[i]
    BY <2>1, <2>2, <2>4
  <2>6. s = t
    BY <2>1, <2>2, <2>3, <2>5, SeqEqual
  <2> QED
    BY <2>6 DEF s, t
<1>5. <<>> \o <<a>> = <<a>>
  BY <1>1, ConcatEmptySeq
<1>6. <<a>> \o <<b>> = Append(<<a>>, b)
  BY <1>1, AppendIsConcat
<1> QED
  BY <1>2, <1>3, <1>4, <1>5, <1>6

\* The handshake begins idle.
LEMMA InitHandshake == Init => Handshake
BY DEF Init, Handshake, Idle, Introduced, m3ua_states

\* The stack sends its ASP_UP: the phase is Idle and becomes UpSent.
LEMMA SendAspUpKeeps == Handshake /\ SendAspUp => Handshake'
<1> SUFFICES ASSUME Handshake, SendAspUp
             PROVE  Handshake'
  OBVIOUS
<1>1. Idle
  BY DEF Handshake, SendAspUp, UpSent, UpAcked, UpDone, ActSent, ActAcked, ActDone,
         AllSent, Complete
<1>2. toSim' = <<outUp>>
  BY <1>1, Added DEF Idle, SendAspUp, outUp
<1> QED
  BY <1>1, <1>2 DEF Handshake, SendAspUp, Idle, UpSent, Introduced, simulator

\* A receive of the first pair: the ASP_UP, the ASP_UPACK or nothing is read;
\* after the ASP_UPACK the second receive may read and lose the ASP_ACT.
LEMMA RecvUpKeeps == Handshake /\ RecvUp => Handshake'
<1> SUFFICES ASSUME Handshake, RecvUp
             PROVE  Handshake'
  OBVIOUS
<1>1. UpSent \/ UpAcked \/ UpDone
  BY DEF Handshake, RecvUp, InCase, Idle, ActSent, ActAcked, ActDone, AllSent, Complete
<1>2. nth' \in {1, 2}
  BY DEF Handshake, RecvUp
<1>3. peer_state' \in m3ua_states
  BY DEF Handshake, RecvUp, m3ua_states
<1>4. CASE UpSent
  <2>1. CASE toStack = <<>>
    <3>1. toStack' = <<>> /\ UNCHANGED <<host_state, peer_state>>
      BY <1>4, <2>1, Sent DEF UpSent, RecvUp, Receive, Buffer
    <3> QED
      BY <1>2, <1>3, <1>4, <2>1, <3>1, Taken
         DEF Handshake, UpSent, Introduced, RecvUp, simulator
  <2>2. CASE toStack = <<up>>
    <3>1. toStack' = <<>> /\ peer_state' = asp_up_tx /\ UNCHANGED host_state
      BY <1>4, <2>2, Sent, Taken DEF UpSent, RecvUp, Receive, Buffer
    <3> QED
      BY <1>2, <1>3, <1>4, <2>2, <3>1, Taken
         DEF Handshake, UpSent, Introduced, RecvUp, simulator
  <2> QED
    BY <1>4, <2>1, <2>2 DEF UpSent, Introduced
<1>5. CASE UpAcked
  <2>1. CASE simHost = asp_up_ack_tx /\ toStack = <<up, upAck>>
    <3>1. toStack' = <<upAck>> /\ peer_state' = asp_up_tx /\ UNCHANGED host_state
      BY <1>5, <2>1, Sent, Taken DEF UpAcked, RecvUp, Receive, Buffer
    <3> QED
      BY <1>2, <1>3, <1>5, <2>1, <3>1 DEF Handshake, UpAcked, RecvUp, simulator
  <2>2. CASE simHost = asp_active_tx /\ toStack = <<up, upAck, act>>
    <3>1. toStack' = <<upAck, act>> /\ peer_state' = asp_up_tx /\ UNCHANGED host_state
      BY <1>5, <2>2, Sent, Taken DEF UpAcked, RecvUp, Receive, Buffer
    <3> QED
      BY <1>2, <1>3, <1>5, <2>2, <3>1 DEF Handshake, UpAcked, RecvUp, simulator
  <2>3. CASE simHost = asp_up_ack_tx /\ toStack = <<upAck>>
    <3>1. toStack' = <<>> /\ host_state' = asp_up_done /\ peer_state' = asp_up_tx
      BY <1>5, <2>3, Sent, Taken DEF UpAcked, RecvUp, Receive, Buffer
    <3> QED
      BY <1>2, <1>3, <1>5, <2>3, <3>1 DEF Handshake, UpAcked, UpDone, RecvUp, simulator
  <2>4. CASE simHost = asp_active_tx /\ toStack = <<upAck, act>>
    <3>1. toStack' = <<act>> /\ host_state' = asp_up_done /\ peer_state' = asp_up_tx
      BY <1>5, <2>4, Sent, Taken DEF UpAcked, RecvUp, Receive, Buffer
    <3> QED
      BY <1>2, <1>3, <1>5, <2>4, <3>1 DEF Handshake, UpAcked, UpDone, RecvUp, simulator
  <2> QED
    BY <1>5, <2>1, <2>2, <2>3, <2>4 DEF UpAcked
<1>6. CASE UpDone
  <2>1. toStack' = <<>> /\ UNCHANGED <<host_state, peer_state>>
    BY <1>6, Sent, Taken DEF UpDone, RecvUp, Receive, Buffer
  <2> QED
    BY <1>2, <1>3, <1>6, <2>1 DEF Handshake, UpDone, RecvUp, simulator
<1> QED
  BY <1>1, <1>4, <1>5, <1>6

\* The ASP_UPACK and the ASP_ACT go out together: the stack has read the
\* simulator's ASP_UP by then.
LEMMA SendActKeeps == Handshake /\ SendAct => Handshake'
<1> SUFFICES ASSUME Handshake, SendAct
             PROVE  Handshake'
  OBVIOUS
<1>1. UpDone
  BY DEF Handshake, SendAct, Idle, UpSent, UpAcked, ActSent, ActAcked, ActDone,
         AllSent, Complete
<1>2. toSim' = <<outUpAck, outAct>>
  BY <1>1, Added DEF UpDone, SendAct, outUpAck, outAct
<1> QED
  BY <1>1, <1>2 DEF Handshake, SendAct, UpDone, ActSent, simulator, m3ua_states

\* A receive of the second pair.  The ASP_ACT_ACK is the last message, so that
\* an ASP_ACT was read before it.
LEMMA RecvActKeeps == Handshake /\ RecvAct => Handshake'
<1> SUFFICES ASSUME Handshake, RecvAct
             PROVE  Handshake'
  OBVIOUS
<1>1. ActSent \/ ActAcked \/ ActDone
  BY DEF Handshake, RecvAct, InCase, Idle, UpSent, UpAcked, UpDone, AllSent, Complete
<1>2. nth' \in {1, 2}
  BY DEF Handshake, RecvAct
<1>3. peer_state' \in m3ua_states
  BY DEF Handshake, RecvAct, m3ua_states
<1>4. CASE ActSent
  <2>1. CASE toStack = <<>>
    <3>1. toStack' = <<>> /\ UNCHANGED <<host_state, peer_state>>
      BY <1>4, <2>1, Sent DEF ActSent, RecvAct, Receive, Buffer
    <3> QED
      BY <1>2, <1>3, <1>4, <2>1, <3>1, Taken DEF Handshake, ActSent, RecvAct, simulator
  <2>2. CASE toStack = <<act>>
    <3>1. toStack' = <<>> /\ peer_state' = asp_active_tx /\ UNCHANGED host_state
      BY <1>4, <2>2, Sent, Taken DEF ActSent, RecvAct, Receive, Buffer
    <3> QED
      BY <1>2, <1>3, <1>4, <2>2, <3>1, Taken DEF Handshake, ActSent, RecvAct, simulator
  <2>3. CASE toStack = <<act, act>>
    <3>1. toStack' = <<act>> /\ peer_state' = asp_active_tx /\ UNCHANGED host_state
      BY <1>4, <2>3, Sent, Taken DEF ActSent, RecvAct, Receive, Buffer
    <3>2. simHost = asp_active_tx /\ toSim = <<outAct>>
      <4>1. <<act, act>> # <<>> /\ <<act, act>> # <<act>>
        OBVIOUS
      <4> QED
        BY <1>4, <2>3, <4>1 DEF ActSent
    <3> QED
      BY <1>2, <1>3, <1>4, <3>1, <3>2 DEF Handshake, ActSent, RecvAct, simulator
  <2> QED
    BY <1>4, <2>1, <2>2, <2>3 DEF ActSent
<1>5. CASE ActAcked
  <2>1. CASE toStack = <<act, act, actAck>>
    <3>1. toStack' = <<act, actAck>> /\ peer_state' = asp_active_tx /\ UNCHANGED host_state
      BY <1>5, <2>1, Sent, Taken DEF ActAcked, RecvAct, Receive, Buffer
    <3> QED
      BY <1>2, <1>3, <1>5, <3>1 DEF Handshake, ActAcked, RecvAct, simulator
  <2>2. CASE toStack = <<act, actAck>>
    <3>1. toStack' = <<actAck>> /\ peer_state' = asp_active_tx /\ UNCHANGED host_state
      BY <1>5, <2>2, Sent, Taken DEF ActAcked, RecvAct, Receive, Buffer
    <3> QED
      BY <1>2, <1>3, <1>5, <3>1 DEF Handshake, ActAcked, RecvAct, simulator
  <2>3. CASE toStack = <<actAck>> /\ peer_state = asp_active_tx
    <3>1. /\ toStack' = <<>>
          /\ peer_state' = asp_active_tx
          /\ host_state' = asp_active_done
      BY <1>5, <2>3, Sent, Taken DEF ActAcked, RecvAct, Receive, Buffer
    <3> QED
      BY <1>2, <1>3, <1>5, <3>1 DEF Handshake, ActAcked, ActDone, RecvAct, simulator
  <2> QED
    BY <1>5, <2>1, <2>2, <2>3 DEF ActAcked
<1>6. CASE ActDone
  <2>1. toStack' = <<>> /\ UNCHANGED <<host_state, peer_state>>
    BY <1>6, Sent DEF ActDone, RecvAct, Receive, Buffer
  <2> QED
    BY <1>2, <1>3, <1>6, <2>1 DEF Handshake, ActDone, RecvAct, simulator
<1> QED
  BY <1>1, <1>4, <1>5, <1>6

\* The stack is done, with an ASP_ACT_ACK for the ASP_ACT it has read.
LEMMA SendActAckKeeps == Handshake /\ SendActAck => Handshake'
<1> SUFFICES ASSUME Handshake, SendActAck
             PROVE  Handshake'
  OBVIOUS
<1>1. ActDone
  BY DEF Handshake, SendActAck, Idle, UpSent, UpAcked, UpDone, ActSent, ActAcked,
         AllSent, Complete
<1>2. toSim' = <<outActAck>>
  BY <1>1, Added DEF ActDone, SendActAck, outActAck
<1> QED
  BY <1>1, <1>2 DEF Handshake, SendActAck, ActDone, AllSent, Complete, simulator

\* The server accepts the association and introduces itself.
LEMMA SimAcceptKeeps == Handshake /\ SimAccept => Handshake'
<1> SUFFICES ASSUME Handshake, SimAccept
             PROVE  Handshake'
  OBVIOUS
<1>1. Idle \/ UpSent
  BY DEF Handshake, SimAccept, UpAcked, UpDone, ActSent, ActAcked, ActDone, AllSent
<1>2. toStack = <<>>
  BY <1>1 DEF Idle, UpSent, Introduced, SimAccept
<1>3. toStack' = <<up>>
  BY <1>2, Added DEF SimAccept, up
<1> QED
  BY <1>1, <1>3 DEF Handshake, SimAccept, Idle, UpSent, Introduced, stack

\* The simulator's ASP_ACT follows what it has sent; sent again, it is the
\* second one, for the ASP_UPACK of the stack.
LEMMA SimSendActKeeps == Handshake /\ SimSendAct => Handshake'
<1> SUFFICES ASSUME Handshake, SimSendAct
             PROVE  Handshake'
  OBVIOUS
<1>1. UpAcked \/ UpDone \/ ActSent
  BY DEF Handshake, SimSendAct, Idle, UpSent, Introduced, ActAcked, ActDone, AllSent
<1>2. CASE UpAcked
  <2>1. CASE toStack = <<up, upAck>>
    <3>1. toStack' = <<up, upAck, act>>
      BY <2>1, Added DEF SimSendAct, act
    <3>2. toStack' \notin {<<upAck>>, <<upAck, act>>}
      <4>1. <<up, upAck, act>> # <<upAck>> /\ <<up, upAck, act>> # <<upAck, act>>
        OBVIOUS
      <4> QED
        BY <3>1, <4>1
    <3> QED
      BY <1>2, <3>1, <3>2 DEF Handshake, SimSendAct, UpAcked, stack
  <2>2. CASE toStack = <<upAck>>
    <3>1. toStack' = <<upAck, act>>
      BY <2>2, Added DEF SimSendAct, act
    <3> QED
      BY <1>2, <2>2, <3>1 DEF Handshake, SimSendAct, UpAcked, stack
  <2> QED
    BY <1>2, <2>1, <2>2 DEF UpAcked, SimSendAct
<1>3. CASE UpDone
  <2>1. toStack = <<>>
    BY <1>3 DEF UpDone, SimSendAct
  <2>2. toStack' = <<act>>
    BY <2>1, Added DEF SimSendAct, act
  <2> QED
    BY <1>3, <2>2 DEF Handshake, SimSendAct, UpDone, stack
<1>4. CASE ActSent
  <2>1. CASE toStack = <<>>
    <3>1. toStack' = <<act>>
      BY <2>1, Added DEF SimSendAct, act
    <3> QED
      BY <1>4, <3>1 DEF Handshake, SimSendAct, ActSent, stack
  <2>2. CASE toStack = <<act>>
    <3>1. toStack' = <<act, act>>
      BY <2>2, Added DEF SimSendAct, act
    <3>2. toSim = <<outAct>>
      BY <1>4, <2>2, Taken DEF ActSent, SimSendAct
    <3> QED
      BY <1>4, <3>1, <3>2 DEF Handshake, SimSendAct, ActSent, stack
  <2> QED
    BY <1>4, <2>1, <2>2 DEF ActSent, SimSendAct
<1> QED
  BY <1>1, <1>2, <1>3, <1>4

\* The stack's ASP_UP is acknowledged, and the acknowledgement, still in the
\* buffer, taken for the stack's.
LEMMA SimRecvUpKeeps == Handshake /\ SimRecvUp => Handshake'
<1> SUFFICES ASSUME Handshake, SimRecvUp
             PROVE  Handshake'
  OBVIOUS
<1>1. UpSent
  BY Sent, Taken DEF Handshake, SimRecvUp, SimTakes, Idle, UpAcked, UpDone, ActSent,
                     ActAcked, ActDone, AllSent
<1>2. toSim' = <<>> /\ simHost = asp_up_tx
  BY <1>1, Taken DEF UpSent, Introduced, SimRecvUp, SimTakes
<1>3. CASE toStack = <<up>>
  <2>1. toStack' = <<up, upAck>>
    BY <1>3, Added DEF SimRecvUp, upAck
  <2>2. toStack' \notin {<<upAck>>, <<upAck, act>>}
    <3>1. up # upAck
      BY Sent
    <3>2. <<up, upAck>> # <<upAck>> /\ <<up, upAck>> # <<upAck, act>>
      BY <3>1
    <3> QED
      BY <2>1, <3>2
  <2> QED
    BY <1>1, <1>2, <2>1, <2>2 DEF Handshake, SimRecvUp, UpSent, UpAcked, stack
<1>4. CASE toStack = <<>> /\ peer_state = asp_up_tx
  <2>1. toStack' = <<upAck>>
    BY <1>4, Added DEF SimRecvUp, upAck
  <2> QED
    BY <1>1, <1>2, <1>4, <2>1 DEF Handshake, SimRecvUp, UpSent, UpAcked, stack
<1> QED
  BY <1>1, <1>2, <1>3, <1>4 DEF UpSent, Introduced

\* The stack's ASP_UPACK sets the simulator back to where it sends an ASP_ACT.
LEMMA SimRecvUpAckKeeps == Handshake /\ SimRecvUpAck => Handshake'
<1> SUFFICES ASSUME Handshake, SimRecvUpAck
             PROVE  Handshake'
  OBVIOUS
<1>1. ActSent /\ toSim = <<outUpAck, outAct>>
  BY Sent, Taken DEF Handshake, SimRecvUpAck, SimTakes, Idle, UpSent, UpAcked, UpDone,
                     ActSent, ActAcked, ActDone, AllSent
<1>2. toSim' = <<outAct>>
  BY <1>1, Taken DEF SimRecvUpAck, SimTakes
<1>3. toStack \in {<<>>, <<act>>}
  <2>1. <<outUpAck, outAct>> # <<outAct>>
    OBVIOUS
  <2> QED
    BY <1>1, <2>1 DEF ActSent
<1> QED
  BY <1>1, <1>2, <1>3 DEF Handshake, SimRecvUpAck, ActSent, stack

\* The simulator has sent its second ASP_ACT when it acknowledges the stack's.
LEMMA SimRecvActKeeps == Handshake /\ SimRecvAct => Handshake'
<1> SUFFICES ASSUME Handshake, SimRecvAct
             PROVE  Handshake'
  OBVIOUS
<1>1. ActSent /\ toSim = <<outAct>>
  BY Sent, Taken DEF Handshake, SimRecvAct, SimTakes, Idle, UpSent, UpAcked, UpDone,
                     ActSent, ActAcked, ActDone, AllSent
<1>2. toSim' = <<>>
  BY <1>1, Taken DEF SimRecvAct, SimTakes
<1>3. /\ simHost = asp_active_tx
      /\ \/ toStack \in {<<act>>, <<act, act>>}
         \/ toStack = <<>> /\ peer_state = asp_active_tx
  <2>1. <<outUpAck, outAct>> # <<outAct>>
    OBVIOUS
  <2> QED
    BY <1>1, <2>1 DEF ActSent, SimRecvAct, SimTakes
<1>4. CASE toStack = <<act>>
  <2>1. toStack' = <<act, actAck>>
    BY <1>4, Added DEF SimRecvAct, actAck
  <2> QED
    BY <1>1, <1>2, <1>3, <2>1 DEF Handshake, SimRecvAct, ActSent, ActAcked, stack
<1>5. CASE toStack = <<act, act>>
  <2>1. toStack' = <<act, act, actAck>>
    BY <1>5, Added DEF SimRecvAct, actAck
  <2> QED
    BY <1>1, <1>2, <1>3, <2>1 DEF Handshake, SimRecvAct, ActSent, ActAcked, stack
<1>6. CASE toStack = <<>> /\ peer_state = asp_active_tx
  <2>1. toStack' = <<actAck>>
    BY <1>6, Added DEF SimRecvAct, actAck
  <2> QED
    BY <1>1, <1>2, <1>3, <1>6, <2>1 DEF Handshake, SimRecvAct, ActSent, ActAcked, stack
<1> QED
  BY <1>3, <1>4, <1>5, <1>6

\* The last message of all.
LEMMA SimRecvActAckKeeps == Handshake /\ SimRecvActAck => Handshake'
<1> SUFFICES ASSUME Handshake, SimRecvActAck
             PROVE  Handshake'
  OBVIOUS
<1>1. AllSent /\ toSim = <<outActAck>>
  BY Sent, Taken DEF Handshake, SimRecvActAck, SimTakes, Idle, UpSent, UpAcked, UpDone,
                     ActSent, ActAcked, ActDone, AllSent
<1>2. toSim' = <<>>
  BY <1>1, Taken DEF SimRecvActAck, SimTakes
<1> QED
  BY <1>1, <1>2 DEF Handshake, SimRecvActAck, AllSent, Complete, stack

\* Every step keeps the phases.
LEMMA StepHandshake == Handshake /\ [Next]_vars => Handshake'
<1> SUFFICES ASSUME Handshake, [Next]_vars
             PROVE  Handshake'
  OBVIOUS
<1>1. CASE StackStep
  BY <1>1, SendAspUpKeeps, RecvUpKeeps, SendActKeeps, RecvActKeeps, SendActAckKeeps
     DEF StackStep
<1>2. CASE SimStep
  BY <1>2, SimAcceptKeeps, SimSendActKeeps, SimRecvUpKeeps, SimRecvUpAckKeeps,
     SimRecvActKeeps, SimRecvActAckKeeps DEF SimStep
<1>3. CASE UNCHANGED vars
  BY <1>3 DEF Handshake, Idle, UpSent, Introduced, UpAcked, UpDone, ActSent, ActAcked,
              ActDone, AllSent, Complete, vars, stack, simulator
<1> QED
  BY <1>1, <1>2, <1>3 DEF Next, Returned

\* Where the two ends are and what is under way determine each other.
THEOREM AspPhases == Spec => []Handshake
BY InitHandshake, StepHandshake, PTL DEF Spec

\* Both programs keep their states within m3ua_asp_states, and nothing but
\* messages is on the streams.
THEOREM AspTypeCorrect == Spec => []TypeOK
<1>1. Handshake => TypeOK
  <2> SUFFICES ASSUME Handshake
               PROVE  TypeOK
    OBVIOUS
  <2>1. \A m1, m2, m3 \in Messages : /\ <<>> \in Seq(Messages)
                                     /\ <<m1>> \in Seq(Messages)
                                     /\ <<m1, m2>> \in Seq(Messages)
                                     /\ <<m1, m2, m3>> \in Seq(Messages)
    OBVIOUS
  <2>2. toStack \in Seq(Messages) /\ toSim \in Seq(Messages)
    BY <2>1, Sent DEF Handshake, Idle, UpSent, Introduced, UpAcked, UpDone, ActSent,
                      ActAcked, ActDone, AllSent
  <2>3. host_state \in m3ua_states /\ simHost \in m3ua_states /\ simPeer \in m3ua_states
    BY DEF Handshake, Idle, UpSent, Introduced, UpAcked, UpDone, ActSent, ActAcked,
           ActDone, AllSent, Complete, m3ua_states
  <2> QED
    BY <2>2, <2>3 DEF Handshake, TypeOK
<1> QED
  BY <1>1, AspPhases, PTL

\* An end that finished has read all there was: the ASP_ACT_ACK is the last
\* message to either end, and neither loop can end before it.
THEOREM AllRead == Spec => []NothingLeftBehind
<1>1. Handshake => NothingLeftBehind
  BY DEF Handshake, NothingLeftBehind, Idle, UpSent, Introduced, UpAcked, UpDone, ActSent,
         ActAcked, ActDone, AllSent, Complete, SimDone
<1> QED
  BY <1>1, AspPhases, PTL

----------------------------------------------------------------------------
\* What the phases say of how each end sees the other.
Views == /\ host_state \in {asp_init, asp_up_tx, asp_up_done, asp_active_tx,
                            asp_active_done, asp_handshake_complete}
         /\ host_state = asp_up_done => peer_state = asp_up_tx
         /\ host_state = asp_active_tx => peer_state \in {asp_up_tx, asp_active_tx}
         /\ host_state \in {asp_active_done, asp_handshake_complete}
              => peer_state = asp_active_tx /\ simPeer = asp_active_ack_tx
         /\ simPeer \in {asp_init, asp_up_ack_tx, asp_active_ack_tx}
         /\ SimDone => Complete

\* In every phase, before and after a step.
LEMMA PhaseViews == (Handshake => Views) /\ (Handshake' => Views')
<1>1. Handshake => Views
  BY DEF Handshake, Idle, UpSent, Introduced, UpAcked, UpDone, ActSent, ActAcked, ActDone,
         AllSent, Complete, SimDone, Views
<1>2. Handshake' => Views'
  BY DEF Handshake, Idle, UpSent, Introduced, UpAcked, UpDone, ActSent, ActAcked, ActDone,
         AllSent, Complete, SimDone, Views
<1> QED
  BY <1>1, <1>2

\* How a state of the peer is seen.
View(state) == IF state \in {asp_active_tx, asp_active_ack_tx} THEN "active"
               ELSE IF state \in {asp_up_tx, asp_up_ack_tx} THEN "inactive"
               ELSE "down"

\* What the stack holds of its peer, as Seen reads it.
Held == IF host_state \in {asp_init, asp_up_tx} THEN asp_init ELSE peer_state

\* Seen is the views of two states, before and after a step.
LEMMA SeenIs ==
  /\ Seen = [e \in {"stack", "sim"} |-> IF e = "stack" THEN View(simPeer) ELSE View(Held)]
  /\ Seen' = [e \in {"stack", "sim"} |-> IF e = "stack" THEN View(simPeer') ELSE View(Held')]
<1>1. /\ \A e \in {"stack", "sim"} :
           (LET state == IF e = "stack" THEN simPeer
                         ELSE IF host_state \in {asp_init, asp_up_tx} THEN asp_init
                         ELSE peer_state
            IN  IF state \in {asp_active_tx, asp_active_ack_tx} THEN "active"
                ELSE IF state \in {asp_up_tx, asp_up_ack_tx} THEN "inactive"
                ELSE "down") = IF e = "stack" THEN View(simPeer) ELSE View(Held)
  BY DEF View, Held
<1> QED
  BY <1>1 DEF Seen, View, Held

\* One end is seen anew.
LEMMA SeenAnew ==
  ASSUME NEW v, NEW w, NEW x
  PROVE  LET f == [e \in {"stack", "sim"} |-> IF e = "stack" THEN v ELSE w]
         IN  /\ f["stack"] = v /\ f["sim"] = w
             /\ [f EXCEPT !["stack"] = x]
                  = [e \in {"stack", "sim"} |-> IF e = "stack" THEN x ELSE w]
             /\ [f EXCEPT !["sim"] = x]
                  = [e \in {"stack", "sim"} |-> IF e = "stack" THEN v ELSE x]
OBVIOUS

\* Both ends begin unseen.
LEMMA AspPeeringInit == Init => Peering!Init
<1> SUFFICES ASSUME Init
             PROVE  Peering!Init
  OBVIOUS
<1>1. View(simPeer) = "down" /\ View(Held) = "down" /\ ~Complete /\ ~SimDone
  BY DEF Init, View, Held, Complete, SimDone
<1>2. Seen = [e \in {"stack", "sim"} |-> "down"]
  BY <1>1, SeenIs
<1> QED
  BY <1>1, <1>2 DEF Peering!Init, Complete, SimDone

\* The stack sees the simulator one step further at most; it takes the
\* ASP_UP for good when it leaves asp_up_tx.
LEMMA StackSees ==
  ASSUME Views, Views', RecvUp \/ RecvAct
  PROVE  [Peering!Next]_(Peering!peering)
<1>1. simPeer' = simPeer /\ Complete' = Complete /\ SimDone' = SimDone
  BY DEF RecvUp, RecvAct, InCase, simulator, Complete, SimDone
<1>2. CASE host_state = asp_up_tx /\ host_state' = asp_up_done
  <2>1. Seen["sim"] = "down" /\ Seen' = [Seen EXCEPT !["sim"] = "inactive"]
    <3>1. View(Held) = "down" /\ View(Held') = "inactive" /\ View(simPeer') = View(simPeer)
      BY <1>1, <1>2 DEF Views, View, Held
    <3> QED
      BY <3>1, SeenIs, SeenAnew
  <2>2. Peering!AckUp("sim")
    BY <1>1, <2>1 DEF Peering!AckUp
  <2> QED
    BY <2>2 DEF Peering!Next
<1>3. CASE /\ host_state = asp_active_tx
           /\ peer_state = asp_up_tx /\ peer_state' = asp_active_tx
  <2>1. host_state' \in {asp_active_tx, asp_active_done}
    BY <1>3 DEF RecvUp, RecvAct, InCase
  <2>2. Seen["sim"] = "inactive" /\ Seen' = [Seen EXCEPT !["sim"] = "active"]
    <3>1. View(Held) = "inactive" /\ View(Held') = "active" /\ View(simPeer') = View(simPeer)
      BY <1>1, <1>3, <2>1 DEF View, Held
    <3> QED
      BY <3>1, SeenIs, SeenAnew
  <2>3. Peering!AckActive("sim")
    BY <1>1, <2>2 DEF Peering!AckActive
  <2> QED
    BY <2>3 DEF Peering!Next
<1>4. CASE host_state = asp_up_tx /\ host_state' = asp_up_tx
  <2>1. Seen' = Seen
    BY <1>1, <1>4 DEF Seen
  <2> QED
    BY <1>1, <2>1 DEF Peering!peering
<1>5. CASE host_state # asp_up_tx /\ peer_state' = peer_state
  <2>1. host_state # asp_init /\ host_state' \notin {asp_init, asp_up_tx}
    BY <1>5 DEF RecvUp, RecvAct, InCase
  <2>2. Seen' = Seen
    BY <1>1, <1>5, <2>1 DEF Seen
  <2> QED
    BY <1>1, <2>2 DEF Peering!peering
<1> QED
  BY <1>2, <1>3, <1>4, <1>5 DEF RecvUp, RecvAct, InCase, Views

\* The stack sends: it is done when it has acknowledged the simulator's
\* ASP_ACT, or goes on without being seen any further.
LEMMA StackSends ==
  ASSUME Views, Views', SendAspUp \/ SendAct \/ SendActAck
  PROVE  [Peering!Next]_(Peering!peering)
<1>1. UNCHANGED <<simHost, simPeer, peer_state>> /\ SimDone' = SimDone
  BY DEF SendAspUp, SendAct, SendActAck, simulator, SimDone
<1>2. CASE SendAspUp \/ SendAct
  <2>1. Seen' = Seen /\ Complete' = Complete
    BY <1>1, <1>2 DEF Seen, SendAspUp, SendAct, Complete
  <2> QED
    BY <1>1, <2>1 DEF Peering!peering
<1>3. CASE SendActAck
  <2>1. Seen' = Seen /\ Seen["stack"] = "active"
    BY <1>1, <1>3 DEF Seen, SendActAck, Views
  <2>2. ~Complete /\ Complete'
    BY <1>3 DEF SendActAck, Complete
  <2>3. Peering!Finish("stack")
    BY <1>1, <2>1, <2>2 DEF Peering!Finish
  <2> QED
    BY <2>3 DEF Peering!Next
<1> QED
  BY <1>2, <1>3

\* The simulator acknowledges an ASP_UP, then an ASP_ACT, and is done when the
\* stack is, which has seen it active.
LEMMA SimulatorSteps ==
  ASSUME Handshake, Views, SimStep
  PROVE  [Peering!Next]_(Peering!peering)
<1>1. UNCHANGED <<host_state, peer_state>> /\ Complete' = Complete
  BY DEF SimStep, SimAccept, SimSendAct, SimRecvUp, SimRecvUpAck, SimRecvAct,
         SimRecvActAck, stack, Complete
<1>2. CASE SimRecvUp
  <2>1. simPeer = asp_init
    BY <1>2, Sent, Taken DEF Handshake, SimRecvUp, SimTakes, Idle, UpSent, Introduced,
             UpAcked, UpDone, ActSent, ActAcked, ActDone, AllSent
  <2>2. ~SimDone /\ ~SimDone' /\ simPeer' = asp_up_ack_tx
    BY <1>2, <2>1 DEF SimRecvUp, SimDone
  <2>3. Seen["stack"] = "down" /\ Seen' = [Seen EXCEPT !["stack"] = "inactive"]
    <3>1. View(simPeer) = "down" /\ View(simPeer') = "inactive" /\ Held' = Held
      BY <1>1, <2>1, <2>2 DEF View, Held
    <3> QED
      BY <3>1, SeenIs, SeenAnew
  <2>4. Peering!AckUp("stack")
    BY <1>1, <2>2, <2>3 DEF Peering!AckUp, SimDone
  <2> QED
    BY <2>4 DEF Peering!Next
<1>3. CASE SimRecvAct
  <2>1. simPeer = asp_up_ack_tx /\ simHost = asp_active_tx
    <3>1. ActSent /\ toSim = <<outAct>>
      BY <1>3, Sent, Taken DEF Handshake, SimRecvAct, SimTakes, Idle, UpSent, UpAcked,
               UpDone, ActSent, ActAcked, ActDone, AllSent
    <3>2. simHost # asp_up_ack_tx
      BY <1>3 DEF SimRecvAct, SimTakes
    <3> QED
      BY <3>1, <3>2 DEF ActSent
  <2>2. ~SimDone /\ ~SimDone' /\ simPeer' = asp_active_ack_tx
    BY <1>3, <2>1 DEF SimRecvAct, SimDone
  <2>3. Seen["stack"] = "inactive" /\ Seen' = [Seen EXCEPT !["stack"] = "active"]
    <3>1. View(simPeer) = "inactive" /\ View(simPeer') = "active" /\ Held' = Held
      BY <1>1, <2>1, <2>2 DEF View, Held
    <3> QED
      BY <3>1, SeenIs, SeenAnew
  <2>4. Peering!AckActive("stack")
    BY <1>1, <2>2, <2>3 DEF Peering!AckActive, SimDone
  <2> QED
    BY <2>4 DEF Peering!Next
<1>4. CASE SimRecvActAck
  <2>1. AllSent /\ simHost = asp_active_tx
    BY <1>4, Sent, Taken DEF Handshake, SimRecvActAck, SimTakes, Idle, UpSent, UpAcked,
             UpDone, ActSent, ActAcked, ActDone, AllSent
  <2>2. ~SimDone /\ SimDone' /\ simPeer' = simPeer
    BY <1>4, <2>1 DEF SimRecvActAck, SimDone, AllSent
  <2>3. Seen' = Seen /\ Seen["sim"] = "active"
    BY <1>1, <2>1, <2>2 DEF Seen, AllSent, Complete
  <2>4. Peering!Finish("sim")
    BY <1>1, <2>2, <2>3 DEF Peering!Finish
  <2> QED
    BY <2>4 DEF Peering!Next
<1>5. CASE SimAccept \/ SimSendAct \/ SimRecvUpAck
  <2>1. simPeer' = simPeer /\ SimDone' = SimDone
    BY <1>5 DEF SimAccept, SimSendAct, SimRecvUpAck, SimTakes, SimDone
  <2>2. Seen' = Seen
    BY <1>1, <2>1 DEF Seen
  <2> QED
    BY <1>1, <2>1, <2>2 DEF Peering!peering
<1> QED
  BY <1>2, <1>3, <1>4, <1>5 DEF SimStep

\* Every step is one of M3uaPeering's, or none.
LEMMA AspPeeringStep ==
  Handshake /\ Handshake' /\ [Next]_vars => [Peering!Next]_(Peering!peering)
<1> SUFFICES ASSUME Handshake, Handshake', [Next]_vars
             PROVE  [Peering!Next]_(Peering!peering)
  OBVIOUS
<1>1. Views /\ Views'
  BY PhaseViews
<1>2. CASE StackStep
  BY <1>1, <1>2, StackSees, StackSends DEF StackStep
<1>3. CASE SimStep
  BY <1>1, <1>3, SimulatorSteps
<1>4. CASE UNCHANGED vars
  <2>1. Seen' = Seen /\ Complete' = Complete /\ SimDone' = SimDone
    BY <1>4 DEF Seen, Complete, SimDone, vars, stack, simulator
  <2> QED
    BY <2>1 DEF Peering!peering
<1> QED
  BY <1>2, <1>3, <1>4 DEF Next, Returned

\* Two differently written loops keep one promise: each end is seen by the
\* other one step at a time, and finishes once, while the other sees it active.
THEOREM AspRefinement == Spec => ImplementsPeering
BY AspPeeringInit, AspPeeringStep, AspPhases, PTL DEF Spec, ImplementsPeering, Peering!Spec
===============================================================================
