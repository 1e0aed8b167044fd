------------------------- MODULE SmsTransactionsProofs -------------------------
(***************************************************************************)
(* Proofs about the simulated client and server.  Nothing in the program   *)
(* compares an answer with its request, so the argument is one of counting *)
(* and of place: at most one message of a transaction is on its way, and   *)
(* what it is fits how far the client has got.                             *)
(***************************************************************************)
EXTENDS SmsTransactions, SignallingGatewayProofs, SequenceTheorems

\* The places of the client before its first transaction.
Introducing == {"connect", "first", "top", "act", "notify"}

\* The rows the server keeps of messages submitted to it.
MosStored == {row \in sent_sms : row.opcode = 2}

\* A message fits the transaction the client is in.
Fits(p) ==
  \/ p.type \in {"SRI_NA", "SRI", "SRI_ACK"} /\ Len(asked) = trx_id_MO + 1
  \/ p.type = "MO_ACK" /\ Len(asked) = trx_id_MO
  \/ /\ p.type = "MO" /\ Len(asked) = trx_id_MO
     /\ p.trx = trx_id_MO
     /\ p.receiver = asked[trx_id_MO].receiver
     /\ \A row \in MosStored : row.trx # trx_id_MO

Owned == {p \in Packets : p.trx > 0}
Asking == {p \in Owned : p.type \in {"SRI_NA", "SRI", "MO"} /\ Fits(p)}
Answering == {p \in Owned : p.type \in {"SRI_ACK", "MO_ACK"} /\ Fits(p)}
Straying == {p \in Packets : p.trx = 0 /\ p.type \in {"MT", "CONTINUE", "END"}}
StrayAnswers == {p \in Packets : p.trx = 0 /\ p.type = "MO_ACK"}

Attempts == [trx : Nat, receiver : Receivers]
Rows == [opcode : 0 .. 2, trx : Nat, receiver : Receivers \cup {NoReceiver}]

ClientTypes ==
  /\ GatewayTypeOK
  /\ at \in Introducing \cup {"idle", "wait", "exited"}
  /\ message \in Messages /\ context \in Contexts
  /\ complete \in BOOLEAN /\ lost \in BOOLEAN
  /\ DA_MSISDN \in Receivers \cup {NoReceiver}
  /\ trx_id_SRI \in 0 .. MaxAttempts /\ trx_id_MO \in Nat
  /\ asked \in Seq(Attempts)
  /\ clientDb \in Handles

ServerTypes ==
  /\ serving \in BOOLEAN /\ serverDb \in {"null", "ready"}
  /\ sent_sms \subseteq Rows /\ IsFiniteSet(sent_sms)
  /\ process \in {2, 3, 4}

CountTypes == dbFailures \in 0 .. MaxDbFailures /\ strays \in 0 .. MaxStrays

\* What is on a channel is one of the client's messages, or a stray's.
ChannelsOK ==
  /\ toNet \in Seq(Asking)
  /\ toServer \in Seq(Asking \cup Straying)
  /\ fromServer \in Seq(Answering \cup StrayAnswers)
  /\ toClient \in Seq(Answering)
  /\ lost => toNet = <<>> /\ toClient = <<>>

\* How many of them, and what the client remembers while it waits.
PhaseOK ==
  /\ Underway <= IF at = "wait" THEN 1 ELSE 0
  /\ at \in Introducing => trx_id_SRI = 0
  /\ at = "idle" => Len(asked) = trx_id_MO
  /\ at = "wait" => asked # <<>> /\ DA_MSISDN = asked[Len(asked)].receiver
  /\ trx_id_MO <= Len(asked) /\ Len(asked) <= trx_id_MO + 1
  /\ Len(asked) <= trx_id_SRI

\* Every message stored is one that was submitted, for the receiver asked for.
RowsOK == \A row \in MosStored :
            row.trx \in 1 .. trx_id_MO /\ row.receiver = asked[row.trx].receiver

TransactionInv ==
  ClientTypes /\ ServerTypes /\ CountTypes /\ ChannelsOK /\ PhaseOK /\ RowsOK

-------------------------------------------------------------------------------
(* The messages on a channel. *)

\* Every packet the client and the network build is one.
LEMMA PacketFacts ==
  /\ \A p \in Packets : p.trx \in Nat /\ p.receiver \in Receivers \cup {NoReceiver}
  /\ \A type \in {"SRI_NA", "SRI", "MO", "MT", "CONTINUE", "END", "SRI_ACK", "MO_ACK"}, trx \in Nat,
        r \in Receivers \cup {NoReceiver} :
       /\ Packet(type, trx, r) \in Packets
       /\ Packet(type, trx, r).type = type
       /\ Packet(type, trx, r).trx = trx
       /\ Packet(type, trx, r).receiver = r
  BY DEF Packets, Packet

\* An answer is the request under another type, and so is a request relayed.
LEMMA AnswerPacket ==
  ASSUME NEW p \in Packets, NEW type \in {"SRI", "SRI_ACK", "MO_ACK"}
  PROVE  /\ [p EXCEPT !.type = type] \in Packets
         /\ [p EXCEPT !.type = type].type = type
         /\ [p EXCEPT !.type = type].trx = p.trx
         /\ [p EXCEPT !.type = type].receiver = p.receiver
  BY DEF Packets

\* The client's messages on a channel are counted one by one.
LEMMA OwnFacts ==
  ASSUME NEW s \in Seq(Packets)
  PROVE  /\ Own(s) \in Nat
         /\ Own(s) = 0 <=> \A i \in DOMAIN s : s[i].trx = 0
         /\ \A m \in Packets : Own(Append(s, m)) = IF m.trx > 0 THEN Own(s) + 1 ELSE Own(s)
         /\ s # <<>> => Own(s) = IF Head(s).trx > 0 THEN Own(Tail(s)) + 1 ELSE Own(Tail(s))
<1>1. ASSUME NEW t \in Seq(Packets)
      PROVE  Own(t) = Count(t, Owned)
  <2>1. \A i \in DOMAIN t : t[i] \in Packets
    OBVIOUS
  <2>2. QED
    BY <2>1 DEF Own, Count, Places, Owned
<1>2. \A i \in DOMAIN s : s[i] \in Packets
  OBVIOUS
<1>3. Own(s) \in Nat /\ (Own(s) = 0 <=> \A i \in DOMAIN s : s[i] \notin Owned)
  BY <1>1, CountFacts
<1>4. \A p \in Packets : p.trx \in Nat /\ (p \in Owned <=> p.trx > 0)
  BY PacketFacts DEF Owned
<1>5. ASSUME NEW m \in Packets
      PROVE  Own(Append(s, m)) = IF m.trx > 0 THEN Own(s) + 1 ELSE Own(s)
  <2>1. /\ Append(s, m) \in Seq(Packets)
        /\ Count(Append(s, m), Owned) =
             IF m \in Owned THEN Count(s, Owned) + 1 ELSE Count(s, Owned)
    BY CountAppend
  <2>2. Own(Append(s, m)) = Count(Append(s, m), Owned) /\ Own(s) = Count(s, Owned)
    BY <1>1, <2>1
  <2>3. QED
    BY <1>4, <2>1, <2>2
<1>6. ASSUME s # <<>>
      PROVE  Own(s) = IF Head(s).trx > 0 THEN Own(Tail(s)) + 1 ELSE Own(Tail(s))
  <2>1. /\ Tail(s) \in Seq(Packets) /\ Head(s) \in Packets
        /\ Count(s, Owned) =
             IF Head(s) \in Owned THEN Count(Tail(s), Owned) + 1 ELSE Count(Tail(s), Owned)
    BY <1>6, CountTail
  <2>2. Own(Tail(s)) = Count(Tail(s), Owned) /\ Own(s) = Count(s, Owned)
    BY <1>1, <2>1
  <2>3. QED
    BY <1>4, <2>1, <2>2
<1>7. Own(s) = 0 <=> \A i \in DOMAIN s : s[i].trx = 0
  BY <1>2, <1>3, <1>4
<1>8. QED
  BY <1>3, <1>5, <1>6, <1>7

\* So are the messages submitted.
LEMMA MosFacts ==
  ASSUME NEW s \in Seq(Packets)
  PROVE  /\ Mos(s) \in Nat
         /\ \A m \in Packets : Mos(Append(s, m)) = IF m.type = "MO" THEN Mos(s) + 1 ELSE Mos(s)
         /\ s # <<>> => Mos(s) = IF Head(s).type = "MO" THEN Mos(Tail(s)) + 1 ELSE Mos(Tail(s))
<1> DEFINE Submitted == {p \in Packets : p.type = "MO"}
<1>1. ASSUME NEW t \in Seq(Packets)
      PROVE  Mos(t) = Count(t, Submitted)
  <2>1. \A i \in DOMAIN t : t[i] \in Packets
    OBVIOUS
  <2>2. QED
    BY <2>1 DEF Mos, Count, Places
<1>2. \A p \in Packets : p \in Submitted <=> p.type = "MO"
  OBVIOUS
<1> HIDE DEF Submitted
<1>3. Mos(s) \in Nat
  BY <1>1, CountFacts
<1>4. ASSUME NEW m \in Packets
      PROVE  Mos(Append(s, m)) = IF m.type = "MO" THEN Mos(s) + 1 ELSE Mos(s)
  <2>1. /\ Append(s, m) \in Seq(Packets)
        /\ Count(Append(s, m), Submitted) =
             IF m \in Submitted THEN Count(s, Submitted) + 1 ELSE Count(s, Submitted)
    BY CountAppend
  <2>2. Mos(Append(s, m)) = Count(Append(s, m), Submitted) /\ Mos(s) = Count(s, Submitted)
    BY <1>1, <2>1
  <2>3. QED
    BY <1>2, <2>1, <2>2
<1>5. ASSUME s # <<>>
      PROVE  Mos(s) = IF Head(s).type = "MO" THEN Mos(Tail(s)) + 1 ELSE Mos(Tail(s))
  <2>1. /\ Tail(s) \in Seq(Packets) /\ Head(s) \in Packets
        /\ Count(s, Submitted) = IF Head(s) \in Submitted
             THEN Count(Tail(s), Submitted) + 1 ELSE Count(Tail(s), Submitted)
    BY <1>5, CountTail
  <2>2. Mos(Tail(s)) = Count(Tail(s), Submitted) /\ Mos(s) = Count(s, Submitted)
    BY <1>1, <2>1
  <2>3. QED
    BY <1>2, <2>1, <2>2
<1>6. QED
  BY <1>3, <1>4, <1>5

\* None is on an empty channel.
LEMMA NoneOnEmpty == Own(<<>>) = 0 /\ Mos(<<>>) = 0
<1>1. <<>> \in Seq(Packets)
  BY EmptySeq
<1>2. Own(<<>>) = Count(<<>>, Owned) /\ Mos(<<>>) = Count(<<>>, {p \in Packets : p.type = "MO"})
  BY <1>1 DEF Own, Mos, Count, Places
<1>3. QED
  BY <1>2, CountEmpty

\* A channel on which none of the client's is left holds the others only.
LEMMA OnlyOthers ==
  ASSUME NEW A, NEW B, A \subseteq Packets, B \subseteq Packets,
         \A p \in A : p.trx # 0,
         NEW s \in Seq(A \cup B), Own(s) = 0
  PROVE  s \in Seq(B)
<1>1. s \in Seq(Packets)
  <2>1. A \cup B \subseteq Packets
    OBVIOUS
  <2>2. QED
    BY <2>1, SeqMonotonic
<1>2. \A i \in DOMAIN s : s[i].trx = 0
  BY <1>1, OwnFacts
<1>3. \A i \in DOMAIN s : s[i] \in A \cup B
  OBVIOUS
<1>4. \A i \in DOMAIN s : s[i] \in B
  BY <1>2, <1>3
<1>5. DOMAIN s = 1 .. Len(s) /\ Len(s) \in Nat /\ s = [i \in 1 .. Len(s) |-> s[i]]
  OBVIOUS
<1>6. QED
  BY <1>4, <1>5

\* The client's messages have a transaction, a stray has none.
LEMMA KindFacts ==
  /\ Asking \subseteq Packets /\ Answering \subseteq Packets
  /\ Straying \subseteq Packets /\ StrayAnswers \subseteq Packets
  /\ \A p \in Asking \cup Answering : p.trx # 0 /\ p.trx > 0
  /\ \A p \in Straying \cup StrayAnswers : p.trx = 0
<1>1. \A p \in Packets : p.trx \in Nat
  BY PacketFacts
<1>2. QED
  BY <1>1 DEF Asking, Answering, Straying, StrayAnswers, Owned

\* Everything on a channel is a packet, and only the client's are counted.
LEMMA ChannelFacts ==
  ASSUME ChannelsOK
  PROVE  /\ toNet \in Seq(Packets) /\ toServer \in Seq(Packets)
         /\ fromServer \in Seq(Packets) /\ toClient \in Seq(Packets)
         /\ Own(toNet) = 0 => toNet = <<>>
         /\ Own(toClient) = 0 => toClient = <<>>
         /\ Own(toServer) = 0 => toServer \in Seq(Straying)
         /\ Own(fromServer) = 0 => fromServer \in Seq(StrayAnswers)
<1>1. \A S, T, s : S \subseteq T /\ s \in Seq(S) => s \in Seq(T)
  BY SeqMonotonic
<1>2. Asking \cup Straying \subseteq Packets /\ Answering \cup StrayAnswers \subseteq Packets
  BY KindFacts
<1>3. /\ toNet \in Seq(Packets) /\ toServer \in Seq(Packets)
      /\ fromServer \in Seq(Packets) /\ toClient \in Seq(Packets)
  BY <1>1, <1>2, KindFacts DEF ChannelsOK
<1>4. \A s : s \in Seq({}) => s = <<>>
  OBVIOUS
<1>5. ASSUME Own(toNet) = 0 PROVE toNet = <<>>
  <2>1. toNet \in Seq(Asking \cup {})
    BY DEF ChannelsOK
  <2>2. toNet \in Seq({})
    BY <1>5, <2>1, KindFacts, OnlyOthers
  <2>3. QED
    BY <1>4, <2>2
<1>6. ASSUME Own(toClient) = 0 PROVE toClient = <<>>
  <2>1. toClient \in Seq(Answering \cup {})
    BY DEF ChannelsOK
  <2>2. toClient \in Seq({})
    BY <1>6, <2>1, KindFacts, OnlyOthers
  <2>3. QED
    BY <1>4, <2>2
<1>7. Own(toServer) = 0 => toServer \in Seq(Straying)
  BY KindFacts, OnlyOthers DEF ChannelsOK
<1>8. Own(fromServer) = 0 => fromServer \in Seq(StrayAnswers)
  BY KindFacts, OnlyOthers DEF ChannelsOK
<1>9. QED
  BY <1>3, <1>5, <1>6, <1>7, <1>8

\* A sequence over one kind of packet is one over that kind and another.
LEMMA WiderChannel ==
  ASSUME NEW A, NEW B, NEW s
  PROVE  /\ s \in Seq(A) => s \in Seq(A \cup B)
         /\ s \in Seq(B) => s \in Seq(A \cup B)
<1>1. A \subseteq A \cup B /\ B \subseteq A \cup B
  OBVIOUS
<1>2. QED
  BY <1>1, SeqMonotonic

\* What fits depends on the requests sent, the MOs sent and the MOs stored.
LEMMA SameFits ==
  ASSUME UNCHANGED <<asked, trx_id_MO>>, MosStored' = MosStored
  PROVE  Asking' = Asking /\ Answering' = Answering
  BY DEF Asking, Answering, Fits

-------------------------------------------------------------------------------
(* The database and the server. *)

\* What the server has paid for the messages it may lose.
Paid(handle, failures) == IF handle = "ready" THEN failures + 1 ELSE failures

\* It grows with the failures.
LEMMA PaidFacts ==
  ASSUME NEW handle, NEW n \in Nat
  PROVE  /\ Paid(handle, n) \in Nat /\ Paid(handle, n) <= n + 1
         /\ \A m \in Nat : m >= n => Paid(handle, m) >= Paid(handle, n)
  BY DEF Paid

\* A statement leaves no result behind, and one that is lost is paid for.
LEMMA QueryFacts ==
  ASSUME NEW handle \in Handles, NEW failures \in 0 .. MaxDbFailures,
         NEW query \in gsmsc_tcap_query(handle, failures)
  PROVE  /\ query.ok \in BOOLEAN
         /\ query.handle \in {"null", "ready"}
         /\ query.failures \in 0 .. MaxDbFailures
         /\ query.ok => handle = "ready" /\ query.handle = "ready"
         /\ query.failures >= failures
         /\ Paid(query.handle, query.failures) >= Paid(handle, failures)
         /\ ~query.ok /\ query.handle # "null" =>
              Paid(query.handle, query.failures) >= Paid(handle, failures) + 1
<1>1. failures \in Nat /\ MaxDbFailures \in Nat /\ failures <= MaxDbFailures
  BY CommonAssumption
<1>2. CASE /\ failures < MaxDbFailures
           /\ query \in {Outcome(FALSE, h, failures + 1) : h \in {"ready", "null"}}
  <2>1. PICK h \in {"ready", "null"} : query = Outcome(FALSE, h, failures + 1)
    BY <1>2
  <2>2. query.ok = FALSE /\ query.handle = h /\ query.failures = failures + 1
    BY <2>1 DEF Outcome
  <2>3. query.ok \in BOOLEAN /\ ~query.ok
    BY <2>2, Zenon
  <2>4. /\ query.failures \in 0 .. MaxDbFailures /\ query.failures >= failures
        /\ query.handle \in {"null", "ready"}
        /\ Paid(query.handle, query.failures) >= Paid(handle, failures)
        /\ query.handle # "null" =>
             Paid(query.handle, query.failures) >= Paid(handle, failures) + 1
    BY <1>1, <1>2, <2>2 DEF Paid
  <2>5. QED
    BY <2>3, <2>4
<1>3. CASE query = Outcome(handle = "ready", "ready", failures)
  <2>1. query.ok = (handle = "ready") /\ query.handle = "ready" /\ query.failures = failures
    BY <1>3 DEF Outcome
  <2>2. query.ok \in BOOLEAN /\ (query.ok <=> handle = "ready")
    BY <2>1, Zenon
  <2>3. /\ query.failures \in 0 .. MaxDbFailures /\ query.failures >= failures
        /\ Paid(query.handle, query.failures) >= Paid(handle, failures)
        /\ handle # "ready" => Paid(query.handle, query.failures) >= Paid(handle, failures) + 1
    BY <1>1, <2>1 DEF Paid
  <2>4. QED
    BY <2>1, <2>2, <2>3
<1>4. QED
  BY <1>2, <1>3 DEF gsmsc_tcap_query

\* The server answers the message it took.
Replies(type) == /\ fromServer' = Append(fromServer, [Head(toServer) EXCEPT !.type = type])
                 /\ serving'

\* The server crashes, or says nothing.
Silent == UNCHANGED <<fromServer, sent_sms>>

\* A row is what its message says, under an opcode.
LEMMA RowFacts ==
  ASSUME NEW p \in Packets, NEW opcode \in 0 .. 2
  PROVE  /\ Row(opcode, p) \in Rows
         /\ Row(opcode, p).opcode = opcode
         /\ Row(opcode, p).trx = p.trx
         /\ Row(opcode, p).receiver = p.receiver
  BY DEF Row, Rows, Packets

\* Keeping a row and answering, or crashing, changes the rows by that one.
LEMMA KeepsFacts ==
  ASSUME ServerTypes, NEW row \in Rows, NEW insert, insert.ok \in BOOLEAN,
         NEW answer, Keeps(row, insert, answer)
  PROVE  /\ serving' \in BOOLEAN
         /\ sent_sms' \subseteq Rows /\ IsFiniteSet(sent_sms')
         /\ \/ Silent /\ ~serving' /\ insert.handle = "null"
            \/ /\ Replies(answer) /\ insert.handle # "null"
               /\ sent_sms' = IF insert.ok THEN sent_sms \cup {row} ELSE sent_sms
<1>1. IsFiniteSet(sent_sms \cup {row})
  BY FS_AddElement DEF ServerTypes
<1>2. CASE insert.handle = "null"
  BY <1>2 DEF Keeps, Crashes, ServerTypes, Silent
<1>3. CASE insert.handle # "null"
  <2>1. Replies(answer) /\ serving' = TRUE
    BY <1>3 DEF Keeps, Answers, Replies
  <2>2. sent_sms' = IF insert.ok THEN sent_sms \cup {row} ELSE sent_sms
    BY <1>3 DEF Keeps
  <2>3. QED
    BY <1>1, <1>3, <2>1, <2>2 DEF ServerTypes
<1>4. QED
  BY <1>2, <1>3

\* The INSERT of a message submitted: stored, or paid for, or the server is gone.
SubmitKept == \/ Silent /\ ~serving'
              \/ /\ Replies("MO_ACK")
                 /\ \/ sent_sms' = sent_sms \cup {Row(2, Head(toServer))}
                    \/ /\ sent_sms' = sent_sms
                       /\ Paid(serverDb', dbFailures') >= Paid(serverDb, dbFailures) + 1

\* What every step of the server does.
ServerEffect ==
  /\ serving /\ toServer # <<>> /\ toServer' = Tail(toServer)
  /\ ServerTypes'
  /\ dbFailures' \in 0 .. MaxDbFailures
  /\ process = 2 => process' = 2
  /\ Paid(serverDb', dbFailures') >= Paid(serverDb, dbFailures)
  /\ \/ Silent /\ (Head(toServer).type = "MO" => ~serving')
     \/ /\ Head(toServer).type = "SRI" /\ Replies("SRI_ACK")
        /\ sent_sms' \in {sent_sms, sent_sms \cup {Row(1, Head(toServer))}}
     \/ /\ Head(toServer).type = "MT" /\ Replies("MO_ACK")
        /\ sent_sms' \in {sent_sms, sent_sms \cup {Row(0, Packet("MT", 0, Head(toServer).receiver))}}
     \/ Head(toServer).type = "MO" /\ SubmitKept

\* The one message a step of the server takes is a packet.
LEMMA TakesFacts ==
  ASSUME toServer \in Seq(Packets), NEW type, Takes(type)
  PROVE  /\ serving /\ toServer # <<>> /\ toServer' = Tail(toServer)
         /\ Head(toServer) \in Packets /\ Head(toServer).type = type
<1>1. toServer # <<>> => Head(toServer) \in Packets
  OBVIOUS
<1>2. QED
  BY <1>1 DEF Takes

\* The receive of an SRI: two or three statements, and a crash in between.
LEMMA ServeSriFacts ==
  ASSUME ServerTypes, CountTypes, toServer \in Seq(Packets), ServeSri
  PROVE  ServerEffect
<1>1. /\ serving /\ toServer # <<>> /\ toServer' = Tail(toServer)
      /\ Head(toServer) \in Packets /\ Head(toServer).type = "SRI"
  BY TakesFacts DEF ServeSri
<1>2. process' = process /\ serverDb \in Handles /\ dbFailures \in 0 .. MaxDbFailures
      /\ process \in {2, 3, 4}
  BY DEF ServeSri, ServerTypes, CountTypes, Handles
<1>3. CASE UNCHANGED <<serverDb, dbFailures>> /\ Crashes
  <2>1. ServerTypes' /\ Silent
    BY <1>2, <1>3 DEF Crashes, ServerTypes, Silent
  <2>2. Paid(serverDb', dbFailures') >= Paid(serverDb, dbFailures)
    BY <1>2, <1>3 DEF Paid
  <2>3. QED
    BY <1>1, <1>2, <1>3, <2>1, <2>2 DEF ServerEffect
<1>4. ASSUME NEW select \in gsmsc_tcap_query(serverDb, dbFailures), ~select.ok,
             serverDb' = select.handle, dbFailures' = select.failures, Crashes
      PROVE  ServerEffect
  <2>1. /\ serverDb' \in {"null", "ready"} /\ dbFailures' \in 0 .. MaxDbFailures
        /\ Paid(serverDb', dbFailures') >= Paid(serverDb, dbFailures)
    BY <1>2, <1>4, QueryFacts
  <2>2. ServerTypes' /\ Silent
    BY <1>2, <1>4, <2>1 DEF Crashes, ServerTypes, Silent
  <2>3. QED
    BY <1>1, <1>2, <2>1, <2>2 DEF ServerEffect
<1>5. ASSUME NEW insert \in gsmsc_tcap_query(serverDb, dbFailures),
             NEW lookup \in gsmsc_tcap_query(insert.handle, insert.failures),
             serverDb' = lookup.handle, dbFailures' = lookup.failures,
             Keeps(Row(1, Head(toServer)), insert, "SRI_ACK")
      PROVE  ServerEffect
  <2>1. /\ insert.ok \in BOOLEAN /\ insert.handle \in Handles
        /\ insert.failures \in 0 .. MaxDbFailures
        /\ Paid(insert.handle, insert.failures) >= Paid(serverDb, dbFailures)
    BY <1>2, QueryFacts DEF Handles
  <2>2. /\ serverDb' \in {"null", "ready"} /\ dbFailures' \in 0 .. MaxDbFailures
        /\ Paid(serverDb', dbFailures') >= Paid(insert.handle, insert.failures)
    BY <1>5, <2>1, QueryFacts
  <2>3. Paid(serverDb', dbFailures') >= Paid(serverDb, dbFailures)
    <3>1. \A h, n : n \in 0 .. MaxDbFailures => Paid(h, n) \in Int
      BY DEF Paid
    <3>2. /\ Paid(serverDb', dbFailures') \in Int /\ Paid(serverDb, dbFailures) \in Int
          /\ Paid(insert.handle, insert.failures) \in Int
      BY <1>2, <2>1, <2>2, <3>1
    <3>3. QED
      BY <2>1, <2>2, <3>2
  <2>4. Row(1, Head(toServer)) \in Rows
    BY <1>1, RowFacts
  <2>5. /\ serving' \in BOOLEAN
        /\ sent_sms' \subseteq Rows /\ IsFiniteSet(sent_sms')
        /\ \/ Silent /\ ~serving'
           \/ /\ Replies("SRI_ACK")
              /\ sent_sms' \in {sent_sms, sent_sms \cup {Row(1, Head(toServer))}}
    BY <1>5, <2>1, <2>4, KeepsFacts
  <2>6. ServerTypes'
    BY <1>2, <2>2, <2>5 DEF ServerTypes
  <2>7. QED
    BY <1>1, <1>2, <2>2, <2>3, <2>5, <2>6 DEF ServerEffect
<1>6. QED
  BY <1>3, <1>4, <1>5 DEF ServeSri

\* One statement and its answer.
LEMMA StatementFacts ==
  ASSUME ServerTypes, CountTypes, NEW row \in Rows, NEW answer, Statement(row, answer),
         UNCHANGED process
  PROVE  /\ ServerTypes' /\ dbFailures' \in 0 .. MaxDbFailures
         /\ Paid(serverDb', dbFailures') >= Paid(serverDb, dbFailures)
         /\ \/ Silent /\ ~serving'
            \/ /\ Replies(answer)
               /\ \/ sent_sms' = sent_sms \cup {row}
                  \/ /\ sent_sms' = sent_sms
                     /\ Paid(serverDb', dbFailures') >= Paid(serverDb, dbFailures) + 1
<1>1. PICK insert \in gsmsc_tcap_query(serverDb, dbFailures) :
             /\ serverDb' = insert.handle
             /\ dbFailures' = insert.failures
             /\ Keeps(row, insert, answer)
  BY DEF Statement
<1>2. serverDb \in Handles /\ dbFailures \in 0 .. MaxDbFailures
  BY DEF ServerTypes, CountTypes, Handles
<1>3. /\ insert.ok \in BOOLEAN
      /\ serverDb' \in {"null", "ready"} /\ dbFailures' \in 0 .. MaxDbFailures
      /\ Paid(serverDb', dbFailures') >= Paid(serverDb, dbFailures)
      /\ ~insert.ok /\ insert.handle # "null" =>
           Paid(serverDb', dbFailures') >= Paid(serverDb, dbFailures) + 1
  BY <1>1, <1>2, QueryFacts
<1>4. /\ serving' \in BOOLEAN
      /\ sent_sms' \subseteq Rows /\ IsFiniteSet(sent_sms')
      /\ \/ Silent /\ ~serving' /\ insert.handle = "null"
         \/ /\ Replies(answer) /\ insert.handle # "null"
            /\ sent_sms' = IF insert.ok THEN sent_sms \cup {row} ELSE sent_sms
  BY <1>1, <1>3, KeepsFacts
<1>5. ServerTypes'
  BY <1>3, <1>4 DEF ServerTypes
<1>6. QED
  BY <1>3, <1>4, <1>5

\* The receives of a submitted and of a delivered message.
LEMMA ServeMessageFacts ==
  ASSUME ServerTypes, CountTypes, toServer \in Seq(Packets), ServeMo \/ ServeMt
  PROVE  ServerEffect
<1>1. CASE ServeMo
  <2>1. /\ serving /\ toServer # <<>> /\ toServer' = Tail(toServer)
        /\ Head(toServer) \in Packets /\ Head(toServer).type = "MO"
        /\ process' = process
    BY <1>1, TakesFacts DEF ServeMo
  <2>2. CASE Head(toServer).receiver \in India
    <3>1. Crashes /\ UNCHANGED <<serverDb, dbFailures>>
      BY <1>1, <2>2 DEF ServeMo
    <3>2. ServerTypes' /\ Silent /\ ~serving' /\ dbFailures' \in 0 .. MaxDbFailures
      BY <2>1, <3>1 DEF Crashes, ServerTypes, CountTypes, Silent
    <3>3. Paid(serverDb', dbFailures') >= Paid(serverDb, dbFailures)
      BY <3>1 DEF Paid, CountTypes
    <3>4. QED
      BY <2>1, <3>2, <3>3 DEF ServerEffect
  <2>3. CASE Head(toServer).receiver \notin India
    <3>1. Statement(Row(2, Head(toServer)), "MO_ACK")
      BY <1>1, <2>3 DEF ServeMo
    <3>2. Row(2, Head(toServer)) \in Rows
      BY <2>1, RowFacts
    <3>3. /\ ServerTypes' /\ dbFailures' \in 0 .. MaxDbFailures
          /\ Paid(serverDb', dbFailures') >= Paid(serverDb, dbFailures)
          /\ SubmitKept
      BY <2>1, <3>1, <3>2, StatementFacts DEF SubmitKept
    <3>4. QED
      BY <2>1, <3>3 DEF ServerEffect
  <2>4. QED
    BY <2>2, <2>3
<1>2. CASE ServeMt
  <2> DEFINE row == Row(0, Packet("MT", 0, Head(toServer).receiver))
  <2>1. /\ serving /\ toServer # <<>> /\ toServer' = Tail(toServer)
        /\ Head(toServer) \in Packets /\ Head(toServer).type = "MT"
        /\ process' = process
    BY <1>2, TakesFacts DEF ServeMt
  <2>2. Packet("MT", 0, Head(toServer).receiver) \in Packets
    BY <2>1, PacketFacts
  <2>3. row \in Rows
    BY <2>2, RowFacts
  <2>4. Statement(row, "MO_ACK")
    BY <1>2 DEF ServeMt
  <2> HIDE DEF row
  <2>5. /\ ServerTypes' /\ dbFailures' \in 0 .. MaxDbFailures
        /\ Paid(serverDb', dbFailures') >= Paid(serverDb, dbFailures)
        /\ \/ Silent
           \/ Replies("MO_ACK") /\ sent_sms' \in {sent_sms, sent_sms \cup {row}}
    BY <2>1, <2>3, <2>4, StatementFacts
  <2>6. QED
    BY <2>1, <2>5 DEF ServerEffect, row
<1>3. QED
  BY <1>1, <1>2

\* The receives of the two reports.
LEMMA ServeReportFacts ==
  ASSUME ServerTypes, CountTypes, toServer \in Seq(Packets), ServeContinue \/ ServeEnd
  PROVE  ServerEffect
<1>1. CASE ServeContinue
  <2>1. /\ serving /\ toServer # <<>> /\ toServer' = Tail(toServer)
        /\ Head(toServer).type = "CONTINUE"
    BY <1>1, TakesFacts DEF ServeContinue
  <2>2. UNCHANGED <<server, fromServer, dbFailures>>
    BY <1>1 DEF ServeContinue, Gated
  <2>3. ServerTypes' /\ Silent /\ process' = process /\ dbFailures' \in 0 .. MaxDbFailures
    BY <2>2 DEF server, ServerTypes, CountTypes, Silent
  <2>4. Paid(serverDb', dbFailures') >= Paid(serverDb, dbFailures)
    BY <2>2 DEF server, Paid, CountTypes
  <2>5. QED
    BY <2>1, <2>3, <2>4 DEF ServerEffect
<1>2. CASE ServeEnd
  <2>1. /\ serving /\ toServer # <<>> /\ toServer' = Tail(toServer)
        /\ Head(toServer).type = "END"
    BY <1>2, TakesFacts DEF ServeEnd
  <2>2. PICK update \in gsmsc_tcap_query(serverDb, dbFailures) :
               /\ serverDb' = update.handle
               /\ dbFailures' = update.failures
               /\ process' = IF update.ok /\ process = 3 THEN 4 ELSE process
               /\ serving' = (update.handle # "null")
               /\ UNCHANGED <<sent_sms, fromServer>>
    BY <1>2 DEF ServeEnd, Report
  <2>3. serverDb \in Handles /\ dbFailures \in 0 .. MaxDbFailures
    BY DEF ServerTypes, CountTypes, Handles
  <2>4. /\ serverDb' \in {"null", "ready"} /\ dbFailures' \in 0 .. MaxDbFailures
        /\ Paid(serverDb', dbFailures') >= Paid(serverDb, dbFailures)
    BY <2>2, <2>3, QueryFacts
  <2>5. serving' \in BOOLEAN /\ process' \in {2, 3, 4} /\ (process = 2 => process' = 2)
    BY <2>2 DEF ServerTypes
  <2>6. ServerTypes' /\ Silent
    BY <2>2, <2>4, <2>5 DEF ServerTypes, Silent
  <2>7. QED
    BY <2>1, <2>4, <2>5, <2>6 DEF ServerEffect
<1>3. QED
  BY <1>1, <1>2

\* The receive of a message it does not recognise.
LEMMA ServeShiftedFacts ==
  ASSUME ServerTypes, CountTypes, toServer \in Seq(Packets), ServeShifted
  PROVE  ServerEffect
<1>1. /\ serving /\ toServer # <<>> /\ toServer' = Tail(toServer)
      /\ Head(toServer).type = "SRI_NA"
  BY TakesFacts DEF ServeShifted
<1>2. UNCHANGED <<server, fromServer, dbFailures>>
  BY DEF ServeShifted
<1>3. ServerTypes' /\ Silent /\ process' = process /\ dbFailures' \in 0 .. MaxDbFailures
  BY <1>2 DEF server, ServerTypes, CountTypes, Silent
<1>4. Paid(serverDb', dbFailures') >= Paid(serverDb, dbFailures)
  BY <1>2 DEF server, Paid, CountTypes
<1>5. QED
  BY <1>1, <1>3, <1>4 DEF ServerEffect

\* Whatever it serves.
LEMMA ServerFacts ==
  ASSUME ServerTypes, CountTypes, toServer \in Seq(Packets), ServerStep
  PROVE  ServerEffect
  BY ServeSriFacts, ServeShiftedFacts, ServeMessageFacts, ServeReportFacts DEF ServerStep

\* A request relayed is the request, with or without its network appearance.
LEMMA RelayedFacts ==
  ASSUME NEW p \in Packets, NEW q \in Relayed(p)
  PROVE  /\ q \in Packets /\ q.trx = p.trx /\ (q.type = "MO" <=> p.type = "MO")
         /\ p \in Asking => q \in Asking
<1>1. CASE q = p
  BY <1>1
<1>2. CASE q # p
  <2>1. p.type = "SRI_NA" /\ q = [p EXCEPT !.type = "SRI"]
    BY <1>2 DEF Relayed
  <2>2. q \in Packets /\ q.type = "SRI" /\ q.trx = p.trx /\ q.receiver = p.receiver
    BY <2>1, AnswerPacket
  <2>3. QED
    BY <2>1, <2>2 DEF Asking, Owned, Fits
<1>3. QED
  BY <1>1, <1>2

-------------------------------------------------------------------------------
(* One transaction at a time. *)

\* A step outside the transactions leaves them as they are.
LEMMA Undisturbed ==
  ASSUME TransactionInv,
         UNCHANGED <<transaction, server, carried, lost>>,
         \/ at' = at
         \/ at \in Introducing /\ at' \in Introducing \cup {"idle", "exited"}
  PROVE  ServerTypes' /\ ChannelsOK' /\ PhaseOK' /\ RowsOK'
<1> USE DEF TransactionInv, transaction, server, carried
<1>1. ServerTypes'
  BY DEF ServerTypes
<1>2. UNCHANGED <<asked, trx_id_MO>> /\ MosStored' = MosStored
  BY DEF MosStored
<1>3. ChannelsOK'
  <2>1. Asking' = Asking /\ Answering' = Answering
    BY <1>2, SameFits
  <2>2. QED
    BY <2>1 DEF ChannelsOK
<1>4. RowsOK'
  BY <1>2 DEF RowsOK
<1>5. PhaseOK'
  <2>1. Underway' = Underway
    BY DEF Underway
  <2>2. at \in Introducing => Len(asked) = 0 /\ trx_id_MO = 0 /\ trx_id_SRI = 0
    BY DEF PhaseOK, ClientTypes
  <2>3. at \in Introducing => at # "wait" /\ at' # "wait"
    BY DEF Introducing
  <2>4. QED
    BY <2>1, <2>2, <2>3 DEF PhaseOK, Introducing
<1>6. QED
  BY <1>1, <1>3, <1>4, <1>5

\* Nothing of the client's is on its way.
LEMMA NothingUnderway ==
  ASSUME ChannelsOK, Underway <= 0
  PROVE  /\ toNet = <<>> /\ toClient = <<>>
         /\ toServer \in Seq(Straying) /\ fromServer \in Seq(StrayAnswers)
         /\ Own(toNet) = 0 /\ Own(toServer) = 0 /\ Own(fromServer) = 0 /\ Own(toClient) = 0
<1>1. /\ Own(toNet) \in Nat /\ Own(toServer) \in Nat
      /\ Own(fromServer) \in Nat /\ Own(toClient) \in Nat
  BY ChannelFacts, OwnFacts
<1>2. Own(toNet) = 0 /\ Own(toServer) = 0 /\ Own(fromServer) = 0 /\ Own(toClient) = 0
  BY <1>1 DEF Underway
<1>3. QED
  BY <1>2, ChannelFacts

\* The server has the one message of the client's that is on its way.
LEMMA OnlyAtServer ==
  ASSUME ChannelsOK, Underway <= 1, toServer # <<>>, Head(toServer) \in Asking
  PROVE  /\ toNet = <<>> /\ toClient = <<>>
         /\ Tail(toServer) \in Seq(Straying) /\ fromServer \in Seq(StrayAnswers)
         /\ Own(toNet) = 0 /\ Own(Tail(toServer)) = 0 /\ Own(fromServer) = 0
         /\ Own(toClient) = 0 /\ Own(toServer) = 1
<1>1. Head(toServer).trx > 0
  BY KindFacts
<1>2. /\ toServer \in Seq(Packets) /\ Tail(toServer) \in Seq(Packets)
      /\ Tail(toServer) \in Seq(Asking \cup Straying)
  <2>1. toServer \in Seq(Packets)
    BY ChannelFacts
  <2>2. \A S : toServer \in Seq(S) => Tail(toServer) \in Seq(S)
    BY CountTail
  <2>3. QED
    BY <2>1, <2>2 DEF ChannelsOK
<1>3. Own(toServer) = Own(Tail(toServer)) + 1
  BY <1>1, <1>2, OwnFacts
<1>4. /\ Own(toNet) \in Nat /\ Own(Tail(toServer)) \in Nat
      /\ Own(fromServer) \in Nat /\ Own(toClient) \in Nat
  BY <1>2, ChannelFacts, OwnFacts
<1>5. /\ Own(toNet) = 0 /\ Own(Tail(toServer)) = 0 /\ Own(fromServer) = 0
      /\ Own(toClient) = 0 /\ Own(toServer) = 1
  BY <1>3, <1>4 DEF Underway
<1>6. Tail(toServer) \in Seq(Straying)
  BY <1>2, <1>5, KindFacts, OnlyOthers
<1>7. QED
  BY <1>5, <1>6, ChannelFacts

\* The client has it.
LEMMA OnlyAtClient ==
  ASSUME ChannelsOK, Underway <= 1, toClient # <<>>
  PROVE  /\ toNet = <<>> /\ Tail(toClient) = <<>>
         /\ toServer \in Seq(Straying) /\ fromServer \in Seq(StrayAnswers)
         /\ Own(toNet) = 0 /\ Own(toServer) = 0 /\ Own(fromServer) = 0
         /\ Own(toClient) = 1 /\ Own(Tail(toClient)) = 0
         /\ Head(toClient) \in Answering
<1>1. Head(toClient) \in Answering /\ Tail(toClient) \in Seq(Answering \cup {})
  BY CountTail DEF ChannelsOK
<1>2. toClient \in Seq(Packets) /\ Tail(toClient) \in Seq(Packets)
  BY ChannelFacts, CountTail
<1>3. Own(toClient) = Own(Tail(toClient)) + 1
  BY <1>1, <1>2, KindFacts, OwnFacts
<1>4. /\ Own(toNet) \in Nat /\ Own(Tail(toClient)) \in Nat
      /\ Own(fromServer) \in Nat /\ Own(toServer) \in Nat
  BY <1>2, ChannelFacts, OwnFacts
<1>5. /\ Own(toNet) = 0 /\ Own(toServer) = 0 /\ Own(fromServer) = 0
      /\ Own(toClient) = 1 /\ Own(Tail(toClient)) = 0
  BY <1>3, <1>4 DEF Underway
<1>6. Tail(toClient) \in Seq({})
  BY <1>1, <1>5, KindFacts, OnlyOthers
<1>7. Tail(toClient) = <<>>
  BY <1>6
<1>8. QED
  BY <1>1, <1>5, <1>7, ChannelFacts

\* A step of the client's handshake: where it gets, and what the streams carry.
LEMMA HandshakeFacts ==
  ASSUME ClientTypes, Handshake, UNCHANGED lost
  PROVE  /\ ClientTypes'
         /\ at \in Introducing /\ at' \in Introducing \cup {"idle", "exited"}
         /\ UNCHANGED <<transaction, toNet, toClient, dbFailures, sgAsp>>
         /\ \A type : Has(toAsp', type) => Has(toAsp, type)
<1>1. UNCHANGED <<transaction, sgAsp, sgNtfy, beats, toNet, toClient, dbFailures>>
  BY DEF Handshake, HandshakeFrame, Connect, RecvFirst, RecvTop, RecvActAck, RecvNotify
<1>2. at \in Introducing /\ at' \in Introducing \cup {"idle", "exited"}
  BY DEF Handshake, Connect, RecvFirst, RecvTop, RecvActAck, RecvNotify, SendOn, Introducing
<1>3. /\ Msg("ASP_UP") \in Messages
      /\ \A rc \in Contexts : WithContext("ASP_ACT", rc) \in Messages
                           /\ WithContext("DAUD", rc) \in Messages
  BY MessagesBuilt DEF MessageTypes, AspsmTypes, AsptmTypes
<1>4. ASSUME NEW m \in Messages, NEW next, SendOn(toSg, m, next)
      PROVE  toSg' \in Seq(Messages)
  <2>1. toSg \in Seq(Messages) /\ Append(toSg, m) \in Seq(Messages)
    BY AppendHas DEF ClientTypes, GatewayTypeOK
  <2>2. QED
    BY <1>4, <2>1 DEF SendOn
<1>5. toAsp \in Seq(Messages) /\ toSg \in Seq(Messages) /\ message \in Messages /\ context \in Contexts
  BY DEF ClientTypes, GatewayTypeOK
<1>6. ASSUME MayReceive, Receive
      PROVE  /\ Arrived \in Messages /\ toAsp' \in Seq(Messages)
             /\ Collected \in Contexts
             /\ \A type : Has(toAsp', type) => Has(toAsp, type)
  <2>1. /\ Arrived \in Messages /\ toAsp' \in Seq(Messages)
        /\ \A type : Has(toAsp', type) => Has(toAsp, type)
    BY <1>5, <1>6, TailHas DEF MayReceive, Receive, Arrived
  <2>2. Arrived.rc \in Contexts
    BY <2>1 DEF Messages
  <2>3. QED
    BY <1>5, <2>1, <2>2 DEF Collected
<1>7. CASE Connect
  <2>1. toSg' \in Seq(Messages) /\ UNCHANGED <<message, context, complete, toAsp>>
    BY <1>3, <1>4, <1>7 DEF Connect
  <2>2. ClientTypes'
    BY <1>1, <1>2, <1>5, <2>1 DEF ClientTypes, GatewayTypeOK, transaction
  <2>3. QED
    BY <1>1, <1>2, <2>1, <2>2
<1>8. CASE RecvFirst
  <2>1. /\ message' \in Messages /\ toAsp' \in Seq(Messages) /\ UNCHANGED <<context, complete, toSg>>
        /\ \A type : Has(toAsp', type) => Has(toAsp, type)
    BY <1>6, <1>8 DEF RecvFirst
  <2>2. ClientTypes'
    BY <1>1, <1>2, <1>5, <2>1 DEF ClientTypes, GatewayTypeOK, transaction
  <2>3. QED
    BY <1>1, <1>2, <2>1, <2>2
<1>9. CASE RecvTop
  <2>1. /\ Arrived \in Messages /\ toAsp' \in Seq(Messages) /\ Collected \in Contexts
        /\ complete' = complete
        /\ \A type : Has(toAsp', type) => Has(toAsp, type)
    BY <1>6, <1>9 DEF RecvTop
  <2>2. message' \in Messages /\ context' \in Contexts /\ toSg' \in Seq(Messages)
    <3>1. CASE Arrived.type = "NTFY"
      <4>1. /\ context' = Collected /\ message' = WithContext("ASP_ACT", context')
            /\ SendOn(toSg, message', "act")
        BY <1>9, <3>1 DEF RecvTop
      <4>2. message' \in Messages
        BY <1>3, <2>1, <4>1
      <4>3. QED
        BY <1>4, <2>1, <4>1, <4>2
    <3>2. CASE Arrived.type # "NTFY"
      BY <1>5, <1>9, <2>1, <3>2 DEF RecvTop
    <3>3. QED
      BY <3>1, <3>2
  <2>3. ClientTypes'
    BY <1>1, <1>2, <2>1, <2>2 DEF ClientTypes, GatewayTypeOK, transaction
  <2>4. QED
    BY <1>1, <1>2, <2>1, <2>3
<1>10. CASE RecvActAck
  <2>1. /\ message' \in Messages /\ toAsp' \in Seq(Messages) /\ UNCHANGED <<context, complete, toSg>>
        /\ \A type : Has(toAsp', type) => Has(toAsp, type)
    BY <1>6, <1>10 DEF RecvActAck
  <2>2. ClientTypes'
    BY <1>1, <1>2, <1>5, <2>1 DEF ClientTypes, GatewayTypeOK, transaction
  <2>3. QED
    BY <1>1, <1>2, <2>1, <2>2
<1>11. CASE RecvNotify
  <2>1. /\ Arrived \in Messages /\ toAsp' \in Seq(Messages) /\ context' = context
        /\ \A type : Has(toAsp', type) => Has(toAsp, type)
    BY <1>6, <1>11 DEF RecvNotify
  <2>2. message' \in Messages /\ toSg' \in Seq(Messages)
    <3>1. CASE Arrived.type = "NTFY" /\ Arrived.status = "active"
      <4>1. message' = WithContext("DAUD", context) /\ SendOn(toSg, message', "idle")
        BY <1>11, <3>1 DEF RecvNotify
      <4>2. QED
        BY <1>3, <1>4, <1>5, <4>1
    <3>2. CASE ~(Arrived.type = "NTFY" /\ Arrived.status = "active")
      BY <1>5, <1>11, <2>1, <3>2 DEF RecvNotify
    <3>3. QED
      BY <3>1, <3>2
  <2>3. complete' \in BOOLEAN
    BY <1>11 DEF RecvNotify, ClientTypes
  <2>4. ClientTypes'
    BY <1>1, <1>2, <2>1, <2>2, <2>3 DEF ClientTypes, GatewayTypeOK, transaction
  <2>5. QED
    BY <1>1, <1>2, <2>1, <2>4
<1>12. QED
  BY <1>7, <1>8, <1>9, <1>10, <1>11 DEF Handshake

\* The steps of the handshake, of the gateway, and the receive of a control message.
LEMMA ControlStep ==
  ASSUME TransactionInv,
         \/ (Handshake \/ RecvControl) /\ UNCHANGED <<server, toServer, fromServer, lost, strays>>
         \/ Gateway
  PROVE  TransactionInv'
<1> USE DEF TransactionInv
<1>1. CASE Handshake /\ UNCHANGED <<server, toServer, fromServer, lost, strays>>
  <2>1. /\ ClientTypes'
        /\ at \in Introducing /\ at' \in Introducing \cup {"idle", "exited"}
        /\ UNCHANGED <<transaction, toNet, toClient, dbFailures>>
    BY <1>1, HandshakeFacts
  <2>2. CountTypes'
    BY <1>1, <2>1 DEF CountTypes
  <2>3. UNCHANGED <<transaction, server, carried, lost>>
    BY <1>1, <2>1 DEF carried
  <2>4. QED
    BY <2>1, <2>2, <2>3, Undisturbed
<1>2. CASE RecvControl /\ UNCHANGED <<server, toServer, fromServer, lost, strays>>
  <2>1. UNCHANGED <<transaction, server, carried, lost, dbFailures, strays, at>>
    BY <1>2 DEF RecvControl, carried, client, session
  <2>2. toAsp' \in Seq(Messages)
    BY <1>2, TailHas DEF RecvControl, ClientTypes, GatewayTypeOK
  <2>3. ClientTypes' /\ CountTypes'
    BY <1>2, <2>1, <2>2 DEF RecvControl, ClientTypes, CountTypes, GatewayTypeOK, client,
       session, transaction
  <2>4. QED
    BY <2>1, <2>3, Undisturbed
<1>3. CASE Gateway
  <2>1. UNCHANGED <<client, server, carried, lost, dbFailures, strays, at, transaction>>
    BY <1>3 DEF Gateway, client, session
  <2>2. GatewayTypeOK'
    BY <1>3, SgRisesFacts DEF Gateway, ClientTypes
  <2>3. ClientTypes' /\ CountTypes'
    BY <2>1, <2>2 DEF ClientTypes, CountTypes, client, session, transaction
  <2>4. QED
    BY <2>1, <2>3, Undisturbed
<1>4. QED
  BY <1>1, <1>2, <1>3

\* A new request goes on its way when none is, and nothing sent before fits it.
LEMMA SendSriStep ==
  ASSUME TransactionInv, SendSri, UNCHANGED <<server, toServer, fromServer, lost, strays>>
  PROVE  TransactionInv'
<1> USE DEF TransactionInv
<1>1. PICK query \in gsmsc_tcap_query(clientDb, dbFailures) :
         /\ dbFailures' = query.failures
         /\ clientDb' = IF query.ok THEN "pending" ELSE query.handle
         /\ \/ query.handle = "null" /\ at' = "exited"
               /\ UNCHANGED <<DA_MSISDN, asked, toNet>>
            \/ query.handle # "null"
               /\ DA_MSISDN' = NoReceiver
               /\ UNCHANGED <<at, asked, toNet>>
            \/ query.ok /\ \E r \in Receivers :
                 /\ DA_MSISDN' = r
                 /\ asked' = IF lost THEN asked
                             ELSE Append(asked, [trx |-> trx_id_SRI', receiver |-> r])
                 /\ SendOn(toNet, Packet("SRI_NA", trx_id_SRI', r), "wait")
  BY DEF SendSri
<1>2. /\ at = "idle" /\ trx_id_SRI < MaxAttempts /\ trx_id_SRI' = trx_id_SRI + 1
      /\ UNCHANGED <<trx_id_MO, toClient, message, context, complete, gateway>>
  BY DEF SendSri, TransactionFrame
<1>3. /\ trx_id_SRI \in 0 .. MaxAttempts /\ trx_id_MO \in Nat /\ asked \in Seq(Attempts)
      /\ Len(asked) \in Nat /\ Len(asked) = trx_id_MO /\ Len(asked) <= trx_id_SRI
      /\ Underway <= 0
  BY <1>2 DEF ClientTypes, PhaseOK
<1>4. dbFailures' \in 0 .. MaxDbFailures /\ clientDb' \in Handles
  BY <1>1, QueryFacts DEF CountTypes, ClientTypes, Handles
<1>5. ServerTypes' /\ CountTypes' /\ MosStored' = MosStored
  BY <1>4 DEF server, ServerTypes, CountTypes, MosStored
<1>6. trx_id_SRI' \in 0 .. MaxAttempts /\ trx_id_SRI' \in Nat \ {0}
  BY <1>2, <1>3, ClientAssumption
<1>7. GatewayTypeOK' /\ message' \in Messages /\ context' \in Contexts
      /\ complete' \in BOOLEAN /\ lost' \in BOOLEAN
  BY <1>2 DEF ClientTypes, gateway, GatewayTypeOK
<1>8. /\ toNet = <<>> /\ toClient = <<>>
      /\ toServer \in Seq(Straying) /\ fromServer \in Seq(StrayAnswers)
      /\ Own(toNet) = 0 /\ Own(toServer) = 0 /\ Own(fromServer) = 0 /\ Own(toClient) = 0
  BY <1>3, NothingUnderway
<1>9. CASE UNCHANGED <<asked, toNet>> /\ at' \in {"idle", "exited"}
           /\ DA_MSISDN' \in Receivers \cup {NoReceiver}
  <2>1. ClientTypes'
    BY <1>2, <1>3, <1>4, <1>6, <1>7, <1>9 DEF ClientTypes
  <2>2. ChannelsOK'
    <3>1. Asking' = Asking /\ Answering' = Answering
      BY <1>2, <1>5, <1>9, SameFits
    <3>2. QED
      BY <1>2, <1>9, <3>1 DEF ChannelsOK
  <2>3. Underway' <= 0
    BY <1>2, <1>8, <1>9 DEF Underway
  <2>4. PhaseOK'
    BY <1>2, <1>3, <1>9, <2>3 DEF PhaseOK, Introducing
  <2>5. RowsOK'
    BY <1>2, <1>5, <1>9 DEF RowsOK
  <2>6. QED
    BY <1>5, <2>1, <2>2, <2>4, <2>5
<1>10. ASSUME NEW r \in Receivers, DA_MSISDN' = r, ~lost,
              asked' = Append(asked, [trx |-> trx_id_SRI', receiver |-> r]),
              SendOn(toNet, Packet("SRI_NA", trx_id_SRI', r), "wait")
       PROVE  TransactionInv'
  <2> DEFINE p == Packet("SRI_NA", trx_id_SRI', r)
             attempt == [trx |-> trx_id_SRI', receiver |-> r]
  <2>1. at' = "wait" /\ toNet' = Append(toNet, p)
    BY <1>10 DEF SendOn
  <2>2. p \in Packets /\ p.type = "SRI_NA" /\ p.trx = trx_id_SRI'
    BY <1>6, PacketFacts
  <2>3. attempt \in Attempts /\ attempt.receiver = r
    BY <1>6 DEF Attempts
  <2>4. /\ asked' \in Seq(Attempts) /\ Len(asked') = Len(asked) + 1
        /\ asked'[Len(asked')] = attempt
        /\ \A i \in 1 .. Len(asked) : asked'[i] = asked[i]
    BY <1>3, <1>10, <2>3
  <2> HIDE DEF p, attempt
  <2>5. ClientTypes'
    BY <1>2, <1>3, <1>4, <1>6, <1>7, <1>10, <2>1, <2>4 DEF ClientTypes
  <2>6. ChannelsOK'
    <3>1. p \in Asking'
      BY <1>2, <1>3, <1>6, <2>2, <2>4 DEF Asking, Owned, Fits
    <3>2. toNet' \in Seq(Asking')
      BY <1>8, <2>1, <3>1
    <3>3. toServer' \in Seq(Asking' \cup Straying)
      BY <1>8, WiderChannel
    <3>4. fromServer' \in Seq(Answering' \cup StrayAnswers)
      BY <1>8, WiderChannel
    <3>5. toClient' \in Seq(Answering') /\ ~lost'
      BY <1>2, <1>8, <1>10, EmptySeq
    <3>6. QED
      BY <3>2, <3>3, <3>4, <3>5 DEF ChannelsOK, Straying, StrayAnswers, Packets
  <2>7. Underway' <= 1
    <3>1. toNet \in Seq(Packets)
      BY <1>8, EmptySeq
    <3>2. Own(toNet') = 1
      <4>1. Own(Append(toNet, p)) = IF p.trx > 0 THEN Own(toNet) + 1 ELSE Own(toNet)
        BY <2>2, <3>1, OwnFacts
      <4>2. QED
        BY <1>6, <1>8, <2>1, <2>2, <4>1
    <3>3. Own(toServer') = 0 /\ Own(fromServer') = 0 /\ Own(toClient') = 0
      BY <1>2, <1>8
    <3>4. QED
      BY <3>2, <3>3 DEF Underway
  <2>8. PhaseOK'
    <3>1. asked' # <<>> /\ DA_MSISDN' = asked'[Len(asked')].receiver
      BY <1>3, <1>10, <2>3, <2>4
    <3>2. QED
      BY <1>2, <1>3, <2>1, <2>4, <2>7, <3>1 DEF PhaseOK, Introducing
  <2>9. RowsOK'
    <3>1. \A row \in MosStored : row.trx \in 1 .. Len(asked)
      BY <1>3 DEF RowsOK
    <3>2. QED
      BY <1>2, <1>5, <2>4, <3>1 DEF RowsOK
  <2>10. QED
    BY <1>5, <2>5, <2>6, <2>8, <2>9
<1>11. CASE query.ok /\ \E r \in Receivers :
              /\ DA_MSISDN' = r
              /\ asked' = IF lost THEN asked
                          ELSE Append(asked, [trx |-> trx_id_SRI', receiver |-> r])
              /\ SendOn(toNet, Packet("SRI_NA", trx_id_SRI', r), "wait")
  <2>1. CASE lost
    BY <1>9, <1>11, <2>1 DEF SendOn
  <2>2. CASE ~lost
    BY <1>10, <1>11, <2>2
  <2>3. QED
    BY <2>1, <2>2
<1>12. CASE \/ query.handle = "null" /\ at' = "exited" /\ UNCHANGED <<DA_MSISDN, asked, toNet>>
            \/ query.handle # "null" /\ DA_MSISDN' = NoReceiver /\ UNCHANGED <<at, asked, toNet>>
  <2>1. DA_MSISDN' \in Receivers \cup {NoReceiver} /\ at' \in {"idle", "exited"}
    BY <1>2, <1>12 DEF ClientTypes
  <2>2. QED
    BY <1>9, <1>12, <2>1
<1>13. QED
  BY <1>1, <1>11, <1>12

\* The route answered, the message submitted is for the receiver asked for.
LEMMA RecvSriAckStep ==
  ASSUME TransactionInv, RecvSriAck, UNCHANGED <<server, toServer, fromServer, lost, strays>>
  PROVE  TransactionInv'
<1> USE DEF TransactionInv
<1>1. /\ at = "wait" /\ toClient # <<>> /\ Head(toClient).type = "SRI_ACK"
      /\ toClient' = Tail(toClient) /\ trx_id_MO' = trx_id_MO + 1
      /\ SendOn(toNet, Packet("MO", trx_id_MO', DA_MSISDN), "wait")
      /\ UNCHANGED <<DA_MSISDN, trx_id_SRI, clientDb, asked, dbFailures>>
      /\ UNCHANGED <<message, context, complete, gateway>>
  BY DEF RecvSriAck, TransactionFrame
<1>2. /\ trx_id_SRI \in 0 .. MaxAttempts /\ trx_id_MO \in Nat /\ asked \in Seq(Attempts)
      /\ Len(asked) \in Nat /\ Underway <= 1 /\ Len(asked) <= trx_id_SRI
      /\ asked # <<>> /\ DA_MSISDN = asked[Len(asked)].receiver
      /\ DA_MSISDN \in Receivers \cup {NoReceiver}
  BY <1>1 DEF ClientTypes, PhaseOK
<1>3. /\ toNet = <<>> /\ Tail(toClient) = <<>>
      /\ toServer \in Seq(Straying) /\ fromServer \in Seq(StrayAnswers)
      /\ Own(toNet) = 0 /\ Own(toServer) = 0 /\ Own(fromServer) = 0
      /\ Own(Tail(toClient)) = 0 /\ Head(toClient) \in Answering
  BY <1>1, <1>2, OnlyAtClient
<1>4. Len(asked) = trx_id_MO + 1
  BY <1>1, <1>3 DEF Answering, Fits
<1>5. ~lost
  BY <1>1 DEF ChannelsOK
<1>6. at' = "wait" /\ toNet' = Append(toNet, Packet("MO", trx_id_MO', DA_MSISDN))
  BY <1>1, <1>5 DEF SendOn
<1>7. ServerTypes' /\ CountTypes' /\ MosStored' = MosStored
  BY <1>1 DEF server, ServerTypes, CountTypes, MosStored
<1>8. ClientTypes'
  BY <1>1, <1>2, <1>6 DEF ClientTypes, gateway, GatewayTypeOK
<1> DEFINE p == Packet("MO", trx_id_MO', DA_MSISDN)
<1>9. p \in Packets /\ p.type = "MO" /\ p.trx = trx_id_MO' /\ p.receiver = DA_MSISDN
  BY <1>1, <1>2, PacketFacts
<1> HIDE DEF p
<1>10. ChannelsOK'
  <2>1. \A row \in MosStored' : row.trx # trx_id_MO'
    BY <1>1, <1>2, <1>7 DEF RowsOK
  <2>2. p \in Asking'
    BY <1>1, <1>2, <1>4, <1>9, <2>1 DEF Asking, Owned, Fits
  <2>3. toNet' \in Seq(Asking')
    BY <1>3, <1>6, <2>2 DEF p
  <2>4. toServer' \in Seq(Asking' \cup Straying)
    BY <1>3, WiderChannel
  <2>5. fromServer' \in Seq(Answering' \cup StrayAnswers)
    BY <1>3, WiderChannel
  <2>6. toClient' \in Seq(Answering') /\ ~lost'
    BY <1>1, <1>3, <1>5, EmptySeq
  <2>7. QED
    BY <2>3, <2>4, <2>5, <2>6 DEF ChannelsOK, Straying, StrayAnswers, Packets
<1>11. Underway' <= 1
  <2>1. toNet \in Seq(Packets)
    BY <1>3, EmptySeq
  <2>2. p.trx > 0
    BY <1>1, <1>2, <1>9
  <2>3. Own(toNet') = 1
    <3>1. Own(Append(toNet, p)) = IF p.trx > 0 THEN Own(toNet) + 1 ELSE Own(toNet)
      BY <1>9, <2>1, OwnFacts
    <3>2. QED
      BY <1>3, <1>6, <2>2, <3>1 DEF p
  <2>4. Own(toServer') = 0 /\ Own(fromServer') = 0 /\ Own(toClient') = 0
    BY <1>1, <1>3
  <2>5. QED
    BY <2>3, <2>4 DEF Underway
<1>12. PhaseOK'
  BY <1>1, <1>2, <1>4, <1>6, <1>11 DEF PhaseOK, Introducing
<1>13. RowsOK'
  BY <1>1, <1>2, <1>7 DEF RowsOK
<1>14. QED
  BY <1>7, <1>8, <1>10, <1>12, <1>13

\* The message acknowledged, nothing is left on its way.
LEMMA RecvMoAckStep ==
  ASSUME TransactionInv, RecvMoAck, UNCHANGED <<server, toServer, fromServer, lost, strays>>
  PROVE  TransactionInv'
<1> USE DEF TransactionInv
<1>1. /\ at = "wait" /\ toClient # <<>> /\ Head(toClient).type \in {"MO_ACK", "END"}
      /\ toClient' = Tail(toClient) /\ at' = "idle"
      /\ UNCHANGED <<DA_MSISDN, trx_id_SRI, trx_id_MO, clientDb, asked, toNet, dbFailures>>
      /\ UNCHANGED <<message, context, complete, gateway>>
  BY DEF RecvMoAck, TransactionFrame
<1>2. Underway <= 1 /\ trx_id_MO \in Nat /\ Len(asked) \in Nat
  BY <1>1 DEF ClientTypes, PhaseOK
<1>3. /\ toNet = <<>> /\ Tail(toClient) = <<>>
      /\ Own(toNet) = 0 /\ Own(toServer) = 0 /\ Own(fromServer) = 0
      /\ Own(Tail(toClient)) = 0 /\ Head(toClient) \in Answering
  BY <1>1, <1>2, OnlyAtClient
<1>4. Len(asked) = trx_id_MO
  BY <1>1, <1>3 DEF Answering, Fits
<1>5. ServerTypes' /\ CountTypes' /\ MosStored' = MosStored
  BY <1>1 DEF server, ServerTypes, CountTypes, MosStored
<1>6. ClientTypes'
  BY <1>1 DEF ClientTypes, gateway, GatewayTypeOK
<1>7. ChannelsOK'
  <2>1. Asking' = Asking /\ Answering' = Answering
    BY <1>1, <1>5, SameFits
  <2>2. toClient' \in Seq(Answering)
    BY <1>1, <1>3, EmptySeq
  <2>3. QED
    BY <1>1, <1>3, <2>1, <2>2 DEF ChannelsOK
<1>8. Underway' <= 0
  BY <1>1, <1>3 DEF Underway
<1>9. PhaseOK'
  BY <1>1, <1>2, <1>4, <1>8 DEF PhaseOK, Introducing
<1>10. RowsOK'
  BY <1>1, <1>5 DEF RowsOK
<1>11. QED
  BY <1>5, <1>6, <1>7, <1>9, <1>10

\* A row that is no MO's changes nothing for the MOs.
LEMMA OtherRow ==
  ASSUME NEW row, row.opcode # 2, sent_sms' \in {sent_sms, sent_sms \cup {row}}
  PROVE  MosStored' = MosStored
  BY DEF MosStored

\* The server answers in kind, and what it stores is what was submitted.
LEMMA ServerStepKeeps ==
  ASSUME TransactionInv, Server
  PROVE  TransactionInv'
<1> USE DEF TransactionInv
<1> DEFINE head == Head(toServer)
           rest == Tail(toServer)
<1>1. ServerEffect
  BY ChannelFacts, ServerFacts DEF Server
<1>2. /\ UNCHANGED <<gateway, client, toNet, toClient, lost, strays>>
      /\ UNCHANGED <<at, asked, trx_id_MO, trx_id_SRI, DA_MSISDN>>
  BY DEF Server, client, session, transaction
<1>3. ClientTypes' /\ ServerTypes' /\ CountTypes'
  BY <1>1, <1>2 DEF ServerEffect, ClientTypes, CountTypes, gateway, GatewayTypeOK, client,
     session, transaction
<1>4. /\ toServer # <<>> /\ toServer' = rest
      /\ head \in Asking \cup Straying /\ rest \in Seq(Asking \cup Straying)
  BY <1>1, CountTail DEF ServerEffect, ChannelsOK
<1>5. /\ toServer \in Seq(Packets) /\ rest \in Seq(Packets) /\ head \in Packets
      /\ fromServer \in Seq(Packets)
  BY <1>4, ChannelFacts, KindFacts, CountTail
<1>6. /\ Own(toNet) \in Nat /\ Own(toServer) \in Nat /\ Own(rest) \in Nat
      /\ Own(fromServer) \in Nat /\ Own(toClient) \in Nat
      /\ Own(toServer) = IF head.trx > 0 THEN Own(rest) + 1 ELSE Own(rest)
  BY <1>4, <1>5, ChannelFacts, OwnFacts
<1> HIDE DEF rest
<1>7. head \in Asking <=> head.trx > 0
  BY <1>4, KindFacts
<1>8. /\ Underway' = Own(toNet) + Own(rest) + Own(fromServer') + Own(toClient)
      /\ Underway = Own(toNet) + Own(toServer) + Own(fromServer) + Own(toClient)
  BY <1>2, <1>4 DEF Underway
<1>9. Underway <= 1 /\ trx_id_MO \in Nat /\ asked \in Seq(Attempts)
  <2>1. Underway \in Nat /\ Underway <= IF at = "wait" THEN 1 ELSE 0
    BY <1>6, <1>8 DEF PhaseOK
  <2>2. QED
    BY <2>1 DEF ClientTypes
<1>10. ASSUME Underway' <= Underway
       PROVE  PhaseOK'
  <2>1. Underway \in Nat /\ Underway' \in Int
    <3>1. Own(fromServer') \in Int
      <4>1. CASE fromServer' = fromServer
        BY <1>6, <4>1
      <4>2. CASE fromServer' # fromServer
        <5>1. PICK type \in {"SRI_ACK", "MO_ACK"} :
                fromServer' = Append(fromServer, [head EXCEPT !.type = type])
          BY <1>1, <4>2 DEF ServerEffect, SubmitKept, Silent, Replies
        <5>2. [head EXCEPT !.type = type] \in Packets
          BY <1>5, AnswerPacket
        <5>3. fromServer' \in Seq(Packets)
          BY <1>5, <5>1, <5>2
        <5>4. QED
          BY <5>3, OwnFacts
      <4>3. QED
        BY <4>1, <4>2
    <3>2. QED
      BY <1>6, <1>8, <3>1
  <2>2. Underway' <= IF at' = "wait" THEN 1 ELSE 0
    BY <1>2, <1>10, <2>1 DEF PhaseOK
  <2>3. QED
    BY <1>2, <2>2 DEF PhaseOK
<1>11. ASSUME NEW type \in {"SRI_ACK", "MO_ACK"}, Replies(type)
       PROVE  Underway' = Underway
  <2> DEFINE answer == [head EXCEPT !.type = type]
  <2>1. answer \in Packets /\ answer.trx = head.trx
    BY <1>5, AnswerPacket
  <2>2. fromServer' = Append(fromServer, answer)
    BY <1>11 DEF Replies
  <2> HIDE DEF answer
  <2>3. Own(Append(fromServer, answer)) =
          IF answer.trx > 0 THEN Own(fromServer) + 1 ELSE Own(fromServer)
    BY <1>5, <2>1, OwnFacts
  <2>4. Own(fromServer') = IF head.trx > 0 THEN Own(fromServer) + 1 ELSE Own(fromServer)
    BY <2>1, <2>2, <2>3
  <2>5. QED
    BY <1>6, <1>8, <2>4
<1>12. CASE Silent
  <2>1. MosStored' = MosStored /\ fromServer' = fromServer
    BY <1>12 DEF Silent, MosStored
  <2>2. Asking' = Asking /\ Answering' = Answering
    BY <1>2, <2>1, SameFits
  <2>3. ChannelsOK'
    BY <1>2, <1>4, <2>1, <2>2 DEF ChannelsOK
  <2>4. PhaseOK'
    BY <1>6, <1>8, <1>10, <2>1
  <2>5. RowsOK'
    BY <1>2, <2>1 DEF RowsOK
  <2>6. QED
    BY <1>3, <2>3, <2>4, <2>5
<1>13. CASE /\ head.type = "SRI" /\ Replies("SRI_ACK")
            /\ sent_sms' \in {sent_sms, sent_sms \cup {Row(1, head)}}
  <2>1. MosStored' = MosStored
    BY <1>5, <1>13, OtherRow, RowFacts
  <2>2. Asking' = Asking /\ Answering' = Answering
    BY <1>2, <2>1, SameFits
  <2>3. head \in Asking
    BY <1>4, <1>13 DEF Straying
  <2> DEFINE answer == [head EXCEPT !.type = "SRI_ACK"]
  <2>4. answer \in Packets /\ answer.trx = head.trx /\ answer.type = "SRI_ACK"
    BY <1>5, AnswerPacket
  <2>5. fromServer' = Append(fromServer, answer)
    BY <1>13 DEF Replies
  <2> HIDE DEF answer
  <2>6. answer \in Answering
    BY <1>7, <1>13, <2>3, <2>4 DEF Asking, Answering, Owned, Fits
  <2>7. fromServer' \in Seq(Answering \cup StrayAnswers)
    BY <2>5, <2>6, CountAppend DEF ChannelsOK
  <2>8. ChannelsOK'
    BY <1>2, <1>4, <2>2, <2>7 DEF ChannelsOK
  <2>9. PhaseOK'
    BY <1>6, <1>8, <1>10, <1>11, <1>13
  <2>10. RowsOK'
    BY <1>2, <2>1 DEF RowsOK
  <2>11. QED
    BY <1>3, <2>8, <2>9, <2>10
<1>14. CASE /\ head.type = "MT" /\ Replies("MO_ACK")
            /\ sent_sms' \in {sent_sms, sent_sms \cup {Row(0, Packet("MT", 0, head.receiver))}}
  <2>1. MosStored' = MosStored
    <3>1. Packet("MT", 0, head.receiver) \in Packets
      BY <1>5, PacketFacts
    <3>2. Row(0, Packet("MT", 0, head.receiver)).opcode # 2
      BY <3>1, RowFacts
    <3>3. QED
      BY <1>14, <3>2, OtherRow
  <2>2. Asking' = Asking /\ Answering' = Answering
    BY <1>2, <2>1, SameFits
  <2>3. head \in Straying
    BY <1>4, <1>14 DEF Asking
  <2> DEFINE answer == [head EXCEPT !.type = "MO_ACK"]
  <2>4. answer \in Packets /\ answer.trx = head.trx /\ answer.type = "MO_ACK"
    BY <1>5, AnswerPacket
  <2>5. fromServer' = Append(fromServer, answer)
    BY <1>14 DEF Replies
  <2> HIDE DEF answer
  <2>6. answer \in StrayAnswers
    BY <2>3, <2>4 DEF Straying, StrayAnswers
  <2>7. fromServer' \in Seq(Answering \cup StrayAnswers)
    BY <2>5, <2>6, CountAppend DEF ChannelsOK
  <2>8. ChannelsOK'
    BY <1>2, <1>4, <2>2, <2>7 DEF ChannelsOK
  <2>9. PhaseOK'
    BY <1>6, <1>8, <1>10, <1>11, <1>14
  <2>10. RowsOK'
    BY <1>2, <2>1 DEF RowsOK
  <2>11. QED
    BY <1>3, <2>8, <2>9, <2>10
<1>15. CASE head.type = "MO" /\ Replies("MO_ACK") /\ SubmitKept /\ ~Silent
  <2>1. head \in Asking /\ Fits(head) /\ head.trx > 0
    BY <1>4, <1>7, <1>15 DEF Straying, Asking
  <2>2. /\ Len(asked) = trx_id_MO /\ head.trx = trx_id_MO
        /\ head.receiver = asked[trx_id_MO].receiver
    BY <1>15, <2>1 DEF Fits
  <2>3. /\ toNet = <<>> /\ toClient = <<>>
        /\ rest \in Seq(Straying) /\ fromServer \in Seq(StrayAnswers)
    BY <1>4, <1>9, <2>1, OnlyAtServer DEF rest
  <2> DEFINE answer == [head EXCEPT !.type = "MO_ACK"]
  <2>4. answer \in Packets /\ answer.trx = head.trx /\ answer.type = "MO_ACK"
    BY <1>5, AnswerPacket
  <2>5. fromServer' = Append(fromServer, answer)
    BY <1>15 DEF Replies
  <2> HIDE DEF answer
  <2>6. answer \in Answering'
    BY <1>2, <2>1, <2>2, <2>4 DEF Answering, Owned, Fits
  <2>7. fromServer' \in Seq(Answering' \cup StrayAnswers)
    BY <2>3, <2>5, <2>6, WiderChannel, CountAppend
  <2>8. toServer' \in Seq(Asking' \cup Straying)
    BY <1>4, <2>3, WiderChannel
  <2>9. ChannelsOK'
    BY <1>2, <2>3, <2>7, <2>8, EmptySeq DEF ChannelsOK, Straying, StrayAnswers, Packets
  <2>10. PhaseOK'
    BY <1>6, <1>8, <1>10, <1>11, <1>15
  <2>11. sent_sms' \in {sent_sms, sent_sms \cup {Row(2, head)}}
    BY <1>15 DEF SubmitKept
  <2>12. /\ Row(2, head).trx \in 1 .. trx_id_MO
         /\ Row(2, head).receiver = asked[Row(2, head).trx].receiver
    BY <1>5, <1>9, <2>1, <2>2, RowFacts
  <2>13. RowsOK'
    BY <1>2, <2>11, <2>12 DEF RowsOK, MosStored
  <2>14. QED
    BY <1>3, <2>9, <2>10, <2>13
<1>16. QED
  BY <1>1, <1>12, <1>13, <1>14, <1>15 DEF ServerEffect, SubmitKept

\* The network hands a message on, as it is or answered by another HLR.
LEMMA DeliverStep ==
  ASSUME TransactionInv, Deliver
  PROVE  TransactionInv'
<1> USE DEF TransactionInv
<1> DEFINE head == Head(toNet)
           rest == Tail(toNet)
           answer == [head EXCEPT !.type = "SRI_ACK"]
<1>1. /\ toNet # <<>> /\ toNet' = rest
      /\ \/ /\ \E packet \in Relayed(head) : toServer' = Append(toServer, packet)
            /\ UNCHANGED toClient
         \/ head.type = "SRI_NA" /\ toClient' = Append(toClient, answer) /\ UNCHANGED toServer
      /\ UNCHANGED <<fromServer, gateway, client, server, dbFailures, lost, strays>>
  BY DEF Deliver, NetworkFrame
<1>2. head \in Asking /\ rest \in Seq(Asking) /\ toNet \in Seq(Asking)
  BY <1>1, CountTail DEF ChannelsOK
<1>3. /\ head \in Packets /\ head.trx > 0
      /\ toNet \in Seq(Packets) /\ rest \in Seq(Packets) /\ toServer \in Seq(Packets)
      /\ toClient \in Seq(Packets)
  BY <1>1, <1>2, ChannelFacts, KindFacts, CountTail
<1>4. answer \in Packets /\ answer.trx = head.trx /\ answer.type = "SRI_ACK"
  BY <1>3, AnswerPacket
<1>5. Own(toNet) = Own(rest) + 1
  BY <1>1, <1>3, OwnFacts
<1>6. ASSUME NEW packet \in Relayed(head), toServer' = Append(toServer, packet)
      PROVE  packet \in Asking /\ Own(toServer') = Own(toServer) + 1
  <2>1. packet \in Packets /\ packet.trx = head.trx /\ packet \in Asking
    BY <1>2, <1>3, RelayedFacts
  <2>2. Own(Append(toServer, packet)) = Own(toServer) + 1
    BY <1>3, <2>1, OwnFacts
  <2>3. QED
    BY <1>6, <2>1, <2>2
<1> HIDE DEF rest, answer
<1>7. Own(Append(toClient, answer)) = Own(toClient) + 1
  BY <1>3, <1>4, OwnFacts
<1>8. /\ Own(rest) \in Nat /\ Own(toServer) \in Nat /\ Own(fromServer) \in Nat
      /\ Own(toClient) \in Nat
  BY <1>3, ChannelFacts, OwnFacts
<1>9. UNCHANGED <<asked, trx_id_MO, at, trx_id_SRI, DA_MSISDN>> /\ MosStored' = MosStored
  BY <1>1 DEF client, session, transaction, server, MosStored
<1>10. ClientTypes' /\ ServerTypes' /\ CountTypes'
  BY <1>1 DEF ClientTypes, ServerTypes, CountTypes, gateway, GatewayTypeOK, client,
     session, transaction, server
<1>11. Asking' = Asking /\ Answering' = Answering
  BY <1>9, SameFits
<1>12. Underway' = Underway
  <2>1. /\ Underway = Own(toNet) + Own(toServer) + Own(fromServer) + Own(toClient)
        /\ Underway' = Own(rest) + Own(toServer') + Own(fromServer) + Own(toClient')
    BY <1>1 DEF Underway
  <2>2. CASE /\ \E packet \in Relayed(head) : toServer' = Append(toServer, packet)
            /\ UNCHANGED toClient
    <3>1. Own(toServer') = Own(toServer) + 1 /\ Own(toClient') = Own(toClient)
      BY <1>6, <2>2
    <3>2. QED
      BY <1>5, <1>8, <2>1, <3>1
  <2>3. CASE toClient' = Append(toClient, answer) /\ UNCHANGED toServer
    <3>1. Own(toClient') = Own(toClient) + 1 /\ Own(toServer') = Own(toServer)
      BY <1>7, <2>3
    <3>2. QED
      BY <1>5, <1>8, <2>1, <3>1
  <2>4. QED
    BY <1>1, <2>2, <2>3
<1>13. PhaseOK' /\ RowsOK'
  BY <1>9, <1>12 DEF PhaseOK, RowsOK
<1>14. ChannelsOK'
  <2>1. CASE /\ \E packet \in Relayed(head) : toServer' = Append(toServer, packet)
            /\ UNCHANGED toClient
    <3>1. PICK packet \in Relayed(head) : toServer' = Append(toServer, packet)
      BY <2>1
    <3>2. packet \in Asking \cup Straying
      BY <1>6, <3>1
    <3>3. toServer' \in Seq(Asking \cup Straying)
      BY <3>1, <3>2, CountAppend DEF ChannelsOK
    <3>4. QED
      BY <1>1, <1>2, <1>11, <2>1, <3>3 DEF ChannelsOK
  <2>2. CASE head.type = "SRI_NA" /\ toClient' = Append(toClient, answer) /\ UNCHANGED toServer
    <3>1. answer \in Answering
      BY <1>2, <1>3, <1>4, <2>2 DEF Asking, Answering, Owned, Fits
    <3>2. toClient' \in Seq(Answering)
      BY <2>2, <3>1, CountAppend DEF ChannelsOK
    <3>3. QED
      BY <1>1, <1>2, <1>11, <2>2, <3>2 DEF ChannelsOK
  <2>3. QED
    BY <1>1, <2>1, <2>2
<1>15. QED
  BY <1>10, <1>13, <1>14

\* The network brings an answer back, to the client if it is the client's.
LEMMA ReturnStep ==
  ASSUME TransactionInv, Return
  PROVE  TransactionInv'
<1> USE DEF TransactionInv
<1> DEFINE head == Head(fromServer)
           rest == Tail(fromServer)
<1>1. /\ fromServer # <<>> /\ ~lost /\ fromServer' = rest
      /\ toClient' = IF head.trx = 0 THEN toClient ELSE Append(toClient, head)
      /\ UNCHANGED <<toNet, toServer, gateway, client, server, dbFailures, lost, strays>>
  BY DEF Return, NetworkFrame
<1>2. head \in Answering \cup StrayAnswers /\ rest \in Seq(Answering \cup StrayAnswers)
  BY <1>1, CountTail DEF ChannelsOK
<1>3. /\ head \in Packets /\ head.trx \in Nat
      /\ fromServer \in Seq(Packets) /\ rest \in Seq(Packets) /\ toClient \in Seq(Packets)
  BY <1>1, <1>2, ChannelFacts, KindFacts, PacketFacts, CountTail
<1>4. Own(fromServer) = IF head.trx > 0 THEN Own(rest) + 1 ELSE Own(rest)
  BY <1>1, <1>3, OwnFacts
<1>5. Own(Append(toClient, head)) = IF head.trx > 0 THEN Own(toClient) + 1 ELSE Own(toClient)
  BY <1>3, OwnFacts
<1> HIDE DEF rest
<1>6. /\ Own(rest) \in Nat /\ Own(toServer) \in Nat /\ Own(toNet) \in Nat
      /\ Own(toClient) \in Nat
  BY <1>3, ChannelFacts, OwnFacts
<1>7. UNCHANGED <<asked, trx_id_MO, at, trx_id_SRI, DA_MSISDN>> /\ MosStored' = MosStored
  BY <1>1 DEF client, session, transaction, server, MosStored
<1>8. ClientTypes' /\ ServerTypes' /\ CountTypes'
  BY <1>1 DEF ClientTypes, ServerTypes, CountTypes, gateway, GatewayTypeOK, client,
     session, transaction, server
<1>9. Asking' = Asking /\ Answering' = Answering
  BY <1>7, SameFits
<1>10. Underway' = Underway
  <2>1. /\ Underway = Own(toNet) + Own(toServer) + Own(fromServer) + Own(toClient)
        /\ Underway' = Own(toNet) + Own(toServer) + Own(rest) + Own(toClient')
    BY <1>1 DEF Underway
  <2>2. Own(toClient') = IF head.trx > 0 THEN Own(toClient) + 1 ELSE Own(toClient)
    BY <1>1, <1>3, <1>5
  <2>3. QED
    BY <1>4, <1>6, <2>1, <2>2
<1>11. PhaseOK' /\ RowsOK'
  BY <1>7, <1>10 DEF PhaseOK, RowsOK
<1>12. ChannelsOK'
  <2>1. head.trx # 0 => head \in Answering
    BY <1>2, KindFacts
  <2>2. toClient' \in Seq(Answering)
    BY <1>1, <2>1, CountAppend DEF ChannelsOK
  <2>3. QED
    BY <1>1, <1>2, <1>9, <2>2 DEF ChannelsOK
<1>13. QED
  BY <1>8, <1>11, <1>12

\* Messages of other nodes, and the loss of the association.
LEMMA StrayOrLoseStep ==
  ASSUME TransactionInv, Stray \/ Lose
  PROVE  TransactionInv'
<1> USE DEF TransactionInv
<1>1. CASE Stray
  <2>1. PICK type \in {"MT", "CONTINUE", "END"} :
               toServer' = Append(toServer, Packet(type, 0, NoReceiver))
    BY <1>1 DEF Stray
  <2>2. /\ strays < MaxStrays /\ strays' = strays + 1
        /\ UNCHANGED <<gateway, client, server, toNet, toClient, fromServer, dbFailures, lost>>
    BY <1>1 DEF Stray
  <2> DEFINE p == Packet(type, 0, NoReceiver)
  <2>3. p \in Packets /\ p.type = type /\ p.trx = 0
    BY PacketFacts
  <2> HIDE DEF p
  <2>4. p \in Straying
    BY <2>3 DEF Straying
  <2>5. toServer' = Append(toServer, p)
    BY <2>1 DEF p
  <2>6. UNCHANGED <<asked, trx_id_MO, at, trx_id_SRI, DA_MSISDN>> /\ MosStored' = MosStored
    BY <2>2 DEF client, session, transaction, server, MosStored
  <2>7. ClientTypes' /\ ServerTypes' /\ CountTypes'
    BY <2>2, SmsAssumption DEF ClientTypes, ServerTypes, CountTypes, gateway, GatewayTypeOK,
       client, session, transaction, server
  <2>8. Asking' = Asking /\ Answering' = Answering
    BY <2>6, SameFits
  <2>9. Own(Append(toServer, p)) = Own(toServer)
    <3>1. toServer \in Seq(Packets)
      BY ChannelFacts
    <3>2. QED
      BY <2>3, <3>1, OwnFacts
  <2>10. Underway' = Underway
    BY <2>2, <2>5, <2>9 DEF Underway
  <2>11. PhaseOK' /\ RowsOK'
    BY <2>6, <2>10 DEF PhaseOK, RowsOK
  <2>12. toServer' \in Seq(Asking \cup Straying)
    BY <2>4, <2>5, CountAppend DEF ChannelsOK
  <2>13. ChannelsOK'
    BY <2>2, <2>8, <2>12 DEF ChannelsOK
  <2>14. QED
    BY <2>7, <2>11, <2>13
<1>2. CASE Lose
  <2>1. /\ lost' = TRUE /\ toSg' = <<>> /\ toAsp' = <<>> /\ toNet' = <<>> /\ toClient' = <<>>
        /\ UNCHANGED <<sgAsp, sgNtfy, beats, client, server, toServer, fromServer,
                       dbFailures, strays>>
    BY <1>2 DEF Lose
  <2>2. UNCHANGED <<asked, trx_id_MO, at, trx_id_SRI, DA_MSISDN>> /\ MosStored' = MosStored
    BY <2>1 DEF client, session, transaction, server, MosStored
  <2>3. ClientTypes' /\ ServerTypes' /\ CountTypes'
    BY <2>1, EmptySeq DEF ClientTypes, ServerTypes, CountTypes, GatewayTypeOK, client,
       session, transaction, server
  <2>4. Asking' = Asking /\ Answering' = Answering
    BY <2>2, SameFits
  <2>5. Underway' <= Underway /\ Underway' \in Nat /\ Underway \in Nat
    <3>1. /\ Own(toNet) \in Nat /\ Own(toServer) \in Nat /\ Own(fromServer) \in Nat
          /\ Own(toClient) \in Nat
      BY ChannelFacts, OwnFacts
    <3>2. Own(toNet') = 0 /\ Own(toClient') = 0
      BY <2>1, NoneOnEmpty
    <3>3. QED
      BY <2>1, <3>1, <3>2 DEF Underway
  <2>6. Underway' <= IF at' = "wait" THEN 1 ELSE 0
    BY <2>2, <2>5 DEF PhaseOK
  <2>7. PhaseOK' /\ RowsOK'
    BY <2>2, <2>6 DEF PhaseOK, RowsOK
  <2>8. ChannelsOK'
    BY <2>1, <2>4, EmptySeq DEF ChannelsOK
  <2>9. QED
    BY <2>3, <2>7, <2>8
<1>3. QED
  BY <1>1, <1>2

\* In the beginning nothing is asked, sent or stored.
LEMMA TransactionInit == Init => TransactionInv
<1> SUFFICES ASSUME Init PROVE TransactionInv
  OBVIOUS
<1> USE DEF Init, ClientInit, ServerInit
<1>1. ClientTypes
  <2>1. GatewayTypeOK
    BY EmptySeq, GatewayAssumption DEF GatewayInit, GatewayTypeOK
  <2>2. message \in Messages /\ context \in Contexts /\ clientDb \in Handles
    BY MessagesBuilt DEF Contexts, Handles
  <2>3. /\ trx_id_SRI \in 0 .. MaxAttempts /\ trx_id_MO \in Nat
        /\ asked \in Seq(Attempts)
    BY EmptySeq, ClientAssumption
  <2>4. QED
    BY <2>1, <2>2, <2>3 DEF ClientTypes, Introducing
<1>2. ServerTypes
  BY FS_EmptySet DEF ServerTypes
<1>3. CountTypes
  BY CommonAssumption, SmsAssumption DEF CountTypes
<1>4. ChannelsOK
  BY EmptySeq DEF ChannelsOK
<1>5. Underway = 0
  BY NoneOnEmpty DEF Underway
<1>6. PhaseOK
  BY <1>5 DEF PhaseOK, Introducing
<1>7. RowsOK
  BY DEF RowsOK, MosStored
<1>8. QED
  BY <1>1, <1>2, <1>3, <1>4, <1>6, <1>7 DEF TransactionInv

\* Every step keeps the transactions apart.
LEMMA TransactionStep == TransactionInv /\ [Next]_vars => TransactionInv'
<1> SUFFICES ASSUME TransactionInv, [Next]_vars PROVE TransactionInv'
  OBVIOUS
<1>1. CASE Client
  BY <1>1, ControlStep, SendSriStep, RecvSriAckStep, RecvMoAckStep DEF Client, ClientStep
<1>2. CASE UNCHANGED vars
  <2>1. /\ UNCHANGED <<transaction, server, carried, lost, at>>
        /\ UNCHANGED <<gateway, client, dbFailures, strays>>
    BY <1>2 DEF vars, client, session
  <2>2. ClientTypes' /\ CountTypes'
    BY <2>1 DEF TransactionInv, ClientTypes, CountTypes, gateway, GatewayTypeOK, client,
       session, transaction
  <2>3. QED
    BY <2>1, <2>2, Undisturbed DEF TransactionInv
<1>3. QED
  BY <1>1, <1>2, ServerStepKeeps, ControlStep, DeliverStep, ReturnStep, StrayOrLoseStep
     DEF Next

\* The transactions are kept apart in every behaviour.
THEOREM TransactionsApart == Spec => []TransactionInv
  BY TransactionInit, TransactionStep, PTL DEF Spec

\* The variables keep their types, for any number of receivers, attempts,
\* strays and failures of the database.
THEOREM SmsTypeCorrect == Spec => []SmsTypeOK
<1>1. TransactionInv => SmsTypeOK
  <2> SUFFICES ASSUME TransactionInv PROVE SmsTypeOK
    OBVIOUS
  <2>1. trx_id_MO \in 0 .. trx_id_SRI
    <3>1. trx_id_MO \in Nat /\ Len(asked) \in Nat /\ trx_id_SRI \in Nat
      BY DEF TransactionInv, ClientTypes
    <3>2. QED
      BY <3>1 DEF TransactionInv, PhaseOK
  <2>2. \A channel \in {toNet, toClient, toServer, fromServer} : channel \in Seq(Packets)
    BY ChannelFacts DEF TransactionInv
  <2>3. QED
    BY <2>1, <2>2 DEF TransactionInv, ClientTypes, ServerTypes, CountTypes, SmsTypeOK,
       Introducing, Attempts, Rows
<1>2. QED
  BY <1>1, TransactionsApart, PTL

\* At most one message of the client's transactions is on its way, and none
\* when it begins a new one: whatever is delayed, lost, answered by another HLR
\* or mixed with other nodes' messages, no answer is taken for another's.
THEOREM OneAtATime == Spec => []OneTransaction
<1>1. TransactionInv => OneTransaction
  <2> SUFFICES ASSUME TransactionInv PROVE OneTransaction
    OBVIOUS
  <2>1. Underway \in Nat
    <3>1. /\ Own(toNet) \in Nat /\ Own(toServer) \in Nat /\ Own(fromServer) \in Nat
          /\ Own(toClient) \in Nat
      BY ChannelFacts, OwnFacts DEF TransactionInv
    <3>2. QED
      BY <3>1 DEF Underway
  <2>2. QED
    BY <2>1 DEF TransactionInv, PhaseOK, OneTransaction
<1>2. QED
  BY <1>1, TransactionsApart, PTL

\* Every message submitted or stored is for the receiver whose route was asked.
THEOREM ReachesAsked == Spec => []MoReachesAsked
<1>1. TransactionInv => MoReachesAsked
  <2> SUFFICES ASSUME TransactionInv PROVE MoReachesAsked
    OBVIOUS
  <2>1. \A p \in Asking : p.type = "MO" => p.receiver = asked[p.trx].receiver
    BY DEF Asking, Fits
  <2>2. \A p \in Straying : p.type # "MO"
    BY DEF Straying
  <2>3. \A i \in DOMAIN toNet : toNet[i] \in Asking
    BY DEF TransactionInv, ChannelsOK
  <2>4. \A i \in DOMAIN toServer : toServer[i] \in Asking \cup Straying
    BY DEF TransactionInv, ChannelsOK
  <2>5. \A row \in sent_sms : row.opcode = 2 => row.receiver = asked[row.trx].receiver
    BY DEF TransactionInv, RowsOK, MosStored
  <2>6. QED
    BY <2>1, <2>2, <2>3, <2>4, <2>5 DEF MoReachesAsked
<1>2. QED
  BY <1>1, TransactionsApart, PTL

-------------------------------------------------------------------------------
(* The attempts that send a request. *)

\* The last request was not sent by an attempt to come, and the attempt that
\* sent one leaves its result behind.
AskedOK ==
  /\ EveryOtherAttempt
  /\ asked # <<>> =>
       /\ asked[Len(asked)].trx <= trx_id_SRI
       /\ asked[Len(asked)].trx = trx_id_SRI => clientDb = "pending"

\* Only SendSri asks; a statement works only if the last attempt did not ask.
LEMMA AskedStep ==
  ASSUME TransactionInv, AskedOK, [Next]_vars
  PROVE  AskedOK'
<1>1. CASE SendSri
  <2>1. PICK query \in gsmsc_tcap_query(clientDb, dbFailures) :
           /\ clientDb' = IF query.ok THEN "pending" ELSE query.handle
           /\ \/ UNCHANGED asked
              \/ query.ok /\ \E r \in Receivers :
                   asked' = IF lost THEN asked
                            ELSE Append(asked, [trx |-> trx_id_SRI', receiver |-> r])
    BY <1>1 DEF SendSri
  <2>2. query.ok => clientDb = "ready"
    BY <2>1, QueryFacts DEF TransactionInv, ClientTypes, CountTypes
  <2>3. /\ trx_id_SRI' = trx_id_SRI + 1 /\ trx_id_SRI \in Nat
        /\ asked \in Seq(Attempts) /\ Len(asked) \in Nat
        /\ \A i \in 1 .. Len(asked) : asked[i] \in Attempts
    BY <1>1 DEF SendSri, TransactionInv, ClientTypes
  <2>4. \A i \in 1 .. Len(asked) : asked[i].trx \in Nat
    BY <2>3 DEF Attempts
  <2>5. CASE UNCHANGED asked
    <3>1. asked # <<>> => asked[Len(asked)].trx < trx_id_SRI'
      BY <2>3, <2>4 DEF AskedOK
    <3>2. EveryOtherAttempt'
      BY <2>5 DEF AskedOK, EveryOtherAttempt
    <3>3. asked' # <<>> => asked'[Len(asked')].trx < trx_id_SRI'
      BY <2>5, <3>1
    <3>4. QED
      BY <2>3, <2>4, <2>5, <3>2, <3>3 DEF AskedOK
  <2>6. ASSUME NEW r \in Receivers, query.ok,
               asked' = Append(asked, [trx |-> trx_id_SRI', receiver |-> r])
        PROVE  AskedOK'
    <3> DEFINE attempt == [trx |-> trx_id_SRI', receiver |-> r]
    <3>1. attempt.trx = trx_id_SRI' /\ attempt \in Attempts
      BY <2>3 DEF Attempts
    <3>2. /\ Len(asked') = Len(asked) + 1 /\ asked'[Len(asked')] = attempt
          /\ \A i \in 1 .. Len(asked) : asked'[i] = asked[i]
      BY <2>3, <2>6, <3>1
    <3> HIDE DEF attempt
    <3>3. asked # <<>> => asked[Len(asked)].trx + 1 < trx_id_SRI'
      BY <2>2, <2>3, <2>4, <2>6 DEF AskedOK
    <3>4. EveryOtherAttempt'
      <4> SUFFICES ASSUME NEW i \in 1 .. Len(asked') - 1
                   PROVE  asked'[i + 1].trx > asked'[i].trx + 1
        BY DEF EveryOtherAttempt
      <4>1. CASE i = Len(asked)
        BY <2>3, <2>4, <3>1, <3>2, <3>3, <4>1
      <4>2. CASE i < Len(asked)
        BY <2>3, <3>2, <4>2 DEF AskedOK, EveryOtherAttempt
      <4>3. QED
        BY <2>3, <3>2, <4>1, <4>2
    <3>5. clientDb' = "pending"
      BY <2>1, <2>6
    <3>6. QED
      BY <2>3, <3>1, <3>2, <3>4, <3>5 DEF AskedOK
  <2>7. QED
    BY <2>1, <2>5, <2>6
<1>2. CASE UNCHANGED <<asked, trx_id_SRI, clientDb>>
  BY <1>2 DEF AskedOK, EveryOtherAttempt
<1>3. [Next]_vars => SendSri \/ UNCHANGED <<asked, trx_id_SRI, clientDb>>
  BY DEF Next, vars, Client, ClientStep, Handshake, Connect, RecvFirst, RecvTop, RecvActAck,
     RecvNotify, HandshakeFrame, RecvSriAck, RecvMoAck, RecvControl, Server, Gateway, Deliver,
     Return, NetworkFrame, Stray, Lose, client, transaction
<1>4. QED
  BY <1>1, <1>2, <1>3

\* No two attempts in a row send an SRI, however many statements fail.
THEOREM EveryOther == Spec => []EveryOtherAttempt
<1>1. Init => AskedOK
  BY DEF Init, ClientInit, AskedOK, EveryOtherAttempt
<1>2. AskedOK => EveryOtherAttempt
  BY DEF AskedOK
<1>3. TransactionInv /\ AskedOK /\ [Next]_vars => AskedOK'
  BY AskedStep
<1>4. QED
  BY <1>1, <1>2, <1>3, TransactionsApart, PTL DEF Spec

-------------------------------------------------------------------------------
(* What the server stores, and what it loses. *)

\* The MOs served are stored or paid for.
StoredOK ==
  serving /\ ~lost =>
    trx_id_MO <= Mos(toNet) + Mos(toServer) + Cardinality(MosStored) + Paid(serverDb, dbFailures)

\* The rows are counted, and the MOs on the channels.
LEMMA StoredCounts ==
  ASSUME TransactionInv
  PROVE  /\ IsFiniteSet(MosStored) /\ Cardinality(MosStored) \in Nat
         /\ Mos(toNet) \in Nat /\ Mos(toServer) \in Nat
         /\ trx_id_MO \in Nat /\ dbFailures \in Nat
         /\ Paid(serverDb, dbFailures) \in Nat
<1>1. MosStored \subseteq sent_sms /\ IsFiniteSet(sent_sms)
  BY DEF MosStored, TransactionInv, ServerTypes
<1>2. IsFiniteSet(MosStored)
  BY <1>1, FS_Subset
<1>3. Cardinality(MosStored) \in Nat
  BY <1>2, FS_CardinalityType
<1>4. Mos(toNet) \in Nat /\ Mos(toServer) \in Nat
  BY ChannelFacts, MosFacts DEF TransactionInv
<1>5. trx_id_MO \in Nat /\ dbFailures \in Nat
  BY DEF TransactionInv, ClientTypes, CountTypes
<1>6. QED
  BY <1>2, <1>3, <1>4, <1>5 DEF Paid

\* A step of the server stores the MO it takes, or pays for it.
LEMMA StoredByServer ==
  ASSUME TransactionInv, StoredOK, Server
  PROVE  StoredOK'
<1> SUFFICES ASSUME serving', ~lost'
             PROVE  trx_id_MO' <= Mos(toNet') + Mos(toServer') + Cardinality(MosStored')
                                    + Paid(serverDb', dbFailures')
  BY DEF StoredOK
<1> DEFINE head == Head(toServer)
           rest == Tail(toServer)
<1>1. ServerEffect
  BY ChannelFacts, ServerFacts DEF Server, TransactionInv
<1>2. UNCHANGED <<toNet, lost, trx_id_MO, asked>>
  BY DEF Server, client, transaction
<1>3. /\ serving /\ toServer # <<>> /\ toServer' = rest
      /\ dbFailures' \in 0 .. MaxDbFailures
      /\ Paid(serverDb', dbFailures') >= Paid(serverDb, dbFailures)
  BY <1>1 DEF ServerEffect
<1>4. /\ IsFiniteSet(MosStored) /\ Cardinality(MosStored) \in Nat
      /\ Mos(toNet) \in Nat /\ Mos(toServer) \in Nat
      /\ trx_id_MO \in Nat /\ Paid(serverDb, dbFailures) \in Nat
  BY StoredCounts
<1>5. Paid(serverDb', dbFailures') \in Nat
  <2>1. dbFailures' \in Nat
    BY <1>3, CommonAssumption
  <2>2. QED
    BY <2>1, PaidFacts
<1>6. /\ toServer \in Seq(Packets) /\ rest \in Seq(Packets) /\ head \in Packets
      /\ head \in Asking \cup Straying
  <2>1. toServer \in Seq(Packets) /\ toServer \in Seq(Asking \cup Straying)
    BY ChannelFacts DEF TransactionInv, ChannelsOK
  <2>2. QED
    BY <1>3, <2>1, CountTail
<1>7. /\ Mos(toServer) = IF head.type = "MO" THEN Mos(rest) + 1 ELSE Mos(rest)
      /\ Mos(rest) \in Nat
  BY <1>3, <1>6, MosFacts
<1>8. trx_id_MO <= Mos(toNet) + Mos(toServer) + Cardinality(MosStored) + Paid(serverDb, dbFailures)
  BY <1>2, <1>3 DEF StoredOK
<1> HIDE DEF rest
<1>9. CASE head.type # "MO"
  <2>1. MosStored' = MosStored
    <3>1. CASE Silent
      BY <3>1 DEF Silent, MosStored
    <3>2. CASE head.type = "SRI" /\ sent_sms' \in {sent_sms, sent_sms \cup {Row(1, head)}}
      BY <1>6, <3>2, OtherRow, RowFacts
    <3>3. CASE /\ head.type = "MT"
               /\ sent_sms' \in {sent_sms, sent_sms \cup {Row(0, Packet("MT", 0, head.receiver))}}
      <4>1. Packet("MT", 0, head.receiver) \in Packets
        BY <1>6, PacketFacts
      <4>2. Row(0, Packet("MT", 0, head.receiver)).opcode # 2
        BY <4>1, RowFacts
      <4>3. QED
        BY <3>3, <4>2, OtherRow
    <3>4. QED
      BY <1>1, <1>9, <3>1, <3>2, <3>3 DEF ServerEffect
  <2>2. QED
    BY <1>2, <1>3, <1>4, <1>5, <1>7, <1>8, <1>9, <2>1
<1>10. CASE head.type = "MO"
  <2>1. \/ sent_sms' = sent_sms \cup {Row(2, head)}
        \/ /\ sent_sms' = sent_sms
           /\ Paid(serverDb', dbFailures') >= Paid(serverDb, dbFailures) + 1
    BY <1>1, <1>10 DEF ServerEffect, SubmitKept
  <2>2. CASE sent_sms' = sent_sms \cup {Row(2, head)}
    <3>1. Row(2, head).opcode = 2 /\ Row(2, head).trx = head.trx
      BY <1>6, RowFacts
    <3>2. MosStored' = MosStored \cup {Row(2, head)}
      BY <2>2, <3>1 DEF MosStored
    <3>3. head \in Asking
      BY <1>6, <1>10 DEF Straying
    <3>4. \A row \in MosStored : row.trx # head.trx
      BY <1>10, <3>3 DEF Asking, Fits
    <3>5. Row(2, head) \notin MosStored
      BY <3>1, <3>4
    <3>6. Cardinality(MosStored') = Cardinality(MosStored) + 1
      BY <1>4, <3>2, <3>5, FS_AddElement
    <3>7. QED
      BY <1>2, <1>3, <1>4, <1>5, <1>7, <1>8, <1>10, <3>6
  <2>3. CASE /\ sent_sms' = sent_sms
             /\ Paid(serverDb', dbFailures') >= Paid(serverDb, dbFailures) + 1
    <3>1. MosStored' = MosStored
      BY <2>3 DEF MosStored
    <3>2. QED
      BY <1>2, <1>3, <1>4, <1>5, <1>7, <1>8, <1>10, <2>3, <3>1
  <2>4. QED
    BY <2>1, <2>2, <2>3
<1>11. QED
  BY <1>9, <1>10

\* The client counts an MO when it sends it, and fails statements of its own.
LEMMA StoredByClient ==
  ASSUME TransactionInv, StoredOK, SendSri \/ RecvSriAck,
         UNCHANGED <<server, toServer, fromServer, lost, strays>>
  PROVE  StoredOK'
<1> SUFFICES ASSUME serving', ~lost'
             PROVE  trx_id_MO' <= Mos(toNet') + Mos(toServer') + Cardinality(MosStored')
                                    + Paid(serverDb', dbFailures')
  BY DEF StoredOK
<1>1. /\ UNCHANGED <<serving, serverDb, toServer, lost>> /\ MosStored' = MosStored
      /\ Mos(toServer') = Mos(toServer)
  BY DEF server, MosStored
<1>2. /\ Cardinality(MosStored) \in Nat /\ Mos(toNet) \in Nat /\ Mos(toServer) \in Nat
      /\ trx_id_MO \in Nat /\ dbFailures \in Nat /\ Paid(serverDb, dbFailures) \in Nat
  BY StoredCounts
<1>3. trx_id_MO <= Mos(toNet) + Mos(toServer) + Cardinality(MosStored) + Paid(serverDb, dbFailures)
  BY <1>1 DEF StoredOK
<1>4. toNet \in Seq(Packets)
  BY ChannelFacts DEF TransactionInv
<1>5. CASE SendSri
  <2>1. PICK query \in gsmsc_tcap_query(clientDb, dbFailures) :
           /\ dbFailures' = query.failures
           /\ \/ UNCHANGED toNet
              \/ \E r \in Receivers : toNet' = Append(toNet, Packet("SRI_NA", trx_id_SRI', r))
    BY <1>1, <1>5 DEF SendSri, SendOn
  <2>2. dbFailures' \in Nat /\ dbFailures' >= dbFailures
    <3>1. dbFailures' \in 0 .. MaxDbFailures /\ dbFailures' >= dbFailures
      BY <2>1, QueryFacts DEF TransactionInv, ClientTypes, CountTypes
    <3>2. QED
      BY <3>1, CommonAssumption
  <2>3. /\ Paid(serverDb', dbFailures') >= Paid(serverDb, dbFailures)
        /\ Paid(serverDb', dbFailures') \in Nat
    BY <1>1, <1>2, <2>2, PaidFacts
  <2>4. Mos(toNet') = Mos(toNet)
    <3>1. trx_id_SRI' \in Nat
      BY <1>5 DEF SendSri, TransactionInv, ClientTypes
    <3>2. ASSUME NEW r \in Receivers
          PROVE  Mos(Append(toNet, Packet("SRI_NA", trx_id_SRI', r))) = Mos(toNet)
      <4>1. /\ Packet("SRI_NA", trx_id_SRI', r) \in Packets
            /\ Packet("SRI_NA", trx_id_SRI', r).type = "SRI_NA"
        BY <3>1, PacketFacts
      <4>2. QED
        BY <1>4, <4>1, MosFacts
    <3>3. CASE UNCHANGED toNet
      BY <3>3
    <3>4. ASSUME NEW r \in Receivers, toNet' = Append(toNet, Packet("SRI_NA", trx_id_SRI', r))
          PROVE  Mos(toNet') = Mos(toNet)
      BY <3>2, <3>4
    <3>5. QED
      BY <2>1, <3>3, <3>4
  <2>5. trx_id_MO' = trx_id_MO
    BY <1>5 DEF SendSri
  <2>6. QED
    BY <1>1, <1>2, <1>3, <2>3, <2>4, <2>5
<1>6. CASE RecvSriAck
  <2> DEFINE p == Packet("MO", trx_id_MO', DA_MSISDN)
  <2>1. /\ trx_id_MO' = trx_id_MO + 1 /\ UNCHANGED <<dbFailures, DA_MSISDN>>
        /\ toNet' = Append(toNet, p)
    BY <1>1, <1>6 DEF RecvSriAck, SendOn
  <2>2. p \in Packets /\ p.type = "MO"
    BY <1>2, <2>1, PacketFacts DEF TransactionInv, ClientTypes
  <2> HIDE DEF p
  <2>3. Mos(toNet') = Mos(toNet) + 1
    <3>1. Mos(Append(toNet, p)) = Mos(toNet) + 1
      BY <1>4, <2>2, MosFacts
    <3>2. QED
      BY <2>1, <3>1
  <2>4. Paid(serverDb', dbFailures') = Paid(serverDb, dbFailures)
    BY <1>1, <2>1
  <2>5. QED
    BY <1>1, <1>2, <1>3, <2>1, <2>3, <2>4
<1>7. QED
  BY <1>5, <1>6

\* The network moves MOs and loses them with the association only.
LEMMA StoredByNetwork ==
  ASSUME TransactionInv, StoredOK, Deliver \/ Stray
  PROVE  StoredOK'
<1> SUFFICES ASSUME serving', ~lost'
             PROVE  trx_id_MO' <= Mos(toNet') + Mos(toServer') + Cardinality(MosStored')
                                    + Paid(serverDb', dbFailures')
  BY DEF StoredOK
<1>1. /\ UNCHANGED <<trx_id_MO, serving, serverDb, lost, dbFailures>>
      /\ MosStored' = MosStored
  BY DEF Deliver, NetworkFrame, Stray, client, transaction, server, MosStored
<1>2. /\ Cardinality(MosStored) \in Nat /\ Mos(toNet) \in Nat /\ Mos(toServer) \in Nat
      /\ trx_id_MO \in Nat /\ Paid(serverDb, dbFailures) \in Nat
      /\ Paid(serverDb', dbFailures') = Paid(serverDb, dbFailures)
  BY <1>1, StoredCounts
<1>3. trx_id_MO <= Mos(toNet) + Mos(toServer) + Cardinality(MosStored) + Paid(serverDb, dbFailures)
  BY <1>1 DEF StoredOK
<1>4. toNet \in Seq(Packets) /\ toServer \in Seq(Packets)
  BY ChannelFacts DEF TransactionInv
<1>5. Mos(toNet') + Mos(toServer') = Mos(toNet) + Mos(toServer)
  <2>1. CASE Deliver
    <3>1. /\ toNet # <<>> /\ toNet' = Tail(toNet)
          /\ Head(toNet) \in Packets /\ Tail(toNet) \in Seq(Packets)
      BY <1>4, <2>1, CountTail DEF Deliver
    <3>2. /\ Mos(toNet) = IF Head(toNet).type = "MO" THEN Mos(toNet') + 1 ELSE Mos(toNet')
          /\ Mos(toNet') \in Nat
      BY <1>4, <3>1, MosFacts
    <3>3. ASSUME NEW packet \in Relayed(Head(toNet)), toServer' = Append(toServer, packet)
          PROVE  Mos(toServer') =
                   IF Head(toNet).type = "MO" THEN Mos(toServer) + 1 ELSE Mos(toServer)
      <4>1. packet \in Packets /\ (packet.type = "MO" <=> Head(toNet).type = "MO")
        BY <3>1, <3>3, RelayedFacts
      <4>2. Mos(Append(toServer, packet)) =
              IF packet.type = "MO" THEN Mos(toServer) + 1 ELSE Mos(toServer)
        BY <1>4, <4>1, MosFacts
      <4>3. QED
        BY <3>3, <4>1, <4>2
    <3>4. \/ \E packet \in Relayed(Head(toNet)) : toServer' = Append(toServer, packet)
          \/ Head(toNet).type = "SRI_NA" /\ toServer' = toServer
      BY <2>1 DEF Deliver
    <3>5. CASE \E packet \in Relayed(Head(toNet)) : toServer' = Append(toServer, packet)
      <4>1. Mos(toServer') = IF Head(toNet).type = "MO" THEN Mos(toServer) + 1 ELSE Mos(toServer)
        BY <3>3, <3>5
      <4>2. QED
        BY <1>2, <3>2, <4>1
    <3>6. CASE Head(toNet).type = "SRI_NA" /\ toServer' = toServer
      BY <1>2, <3>2, <3>6
    <3>7. QED
      BY <3>4, <3>5, <3>6
  <2>2. CASE Stray
    <3>1. PICK type \in {"MT", "CONTINUE", "END"} :
                 toServer' = Append(toServer, Packet(type, 0, NoReceiver))
      BY <2>2 DEF Stray
    <3> DEFINE p == Packet(type, 0, NoReceiver)
    <3>2. p \in Packets /\ p.type # "MO"
      BY PacketFacts
    <3> HIDE DEF p
    <3>3. Mos(Append(toServer, p)) = Mos(toServer)
      BY <1>4, <3>2, MosFacts
    <3>4. UNCHANGED toNet
      BY <2>2 DEF Stray
    <3>5. QED
      BY <3>1, <3>3, <3>4 DEF p
  <2>3. QED
    BY <2>1, <2>2
<1>6. QED
  BY <1>1, <1>2, <1>3, <1>5

\* Every message the server was served it stored, or paid for with a failure.
LEMMA StoredStep ==
  ASSUME TransactionInv, StoredOK, [Next]_vars
  PROVE  StoredOK'
<1>1. CASE UNCHANGED <<toNet, toServer, trx_id_MO, server, dbFailures, lost>>
  BY <1>1 DEF StoredOK, server, MosStored
<1>2. CASE Lose
  BY <1>2 DEF StoredOK, Lose
<1>3. \/ UNCHANGED <<toNet, toServer, trx_id_MO, server, dbFailures, lost>>
      \/ Server \/ Deliver \/ Stray \/ Lose
      \/ (SendSri \/ RecvSriAck) /\ UNCHANGED <<server, toServer, fromServer, lost, strays>>
  BY DEF Next, vars, carried, Client, ClientStep, Handshake, Connect, RecvFirst, RecvTop,
     RecvActAck, RecvNotify, HandshakeFrame, RecvMoAck, RecvControl, Gateway, Return,
     NetworkFrame, client, transaction
<1>4. QED
  BY <1>1, <1>2, <1>3, StoredByServer, StoredByClient, StoredByNetwork

\* The bound on what the server loses holds for any number of failures.
THEOREM LossesArePaid == Spec => []EachLossHasItsFailure
<1>1. Init => StoredOK
  <2> SUFFICES ASSUME Init PROVE StoredOK
    OBVIOUS
  <2>1. MosStored = {} /\ trx_id_MO = 0 /\ dbFailures = 0 /\ toNet = <<>> /\ toServer = <<>>
    BY DEF Init, ClientInit, ServerInit, MosStored
  <2>2. Cardinality(MosStored) = 0 /\ Mos(toNet) = 0 /\ Mos(toServer) = 0
    BY <2>1, FS_EmptySet, NoneOnEmpty
  <2>3. QED
    BY <2>1, <2>2 DEF StoredOK, Paid
<1>2. TransactionInv /\ StoredOK => EachLossHasItsFailure
  <2> SUFFICES ASSUME TransactionInv, StoredOK, serving, ~lost
               PROVE  trx_id_MO - Mos(toNet) - Mos(toServer)
                        <= Cardinality(MosStored) + dbFailures + 1
    BY DEF EachLossHasItsFailure, MosStored
  <2>1. /\ Cardinality(MosStored) \in Nat /\ Mos(toNet) \in Nat /\ Mos(toServer) \in Nat
        /\ trx_id_MO \in Nat /\ dbFailures \in Nat
    BY StoredCounts
  <2>2. trx_id_MO <= Mos(toNet) + Mos(toServer) + Cardinality(MosStored) + Paid(serverDb, dbFailures)
    BY DEF StoredOK
  <2>3. Paid(serverDb, dbFailures) <= dbFailures + 1 /\ Paid(serverDb, dbFailures) \in Nat
    BY <2>1 DEF Paid
  <2>4. QED
    BY <2>1, <2>2, <2>3
<1>3. TransactionInv /\ StoredOK /\ [Next]_vars => StoredOK'
  BY StoredStep
<1>4. QED
  BY <1>1, <1>2, <1>3, TransactionsApart, PTL DEF Spec

\* The row being delivered is never recorded as reported, nor as reported on.
THEOREM NoReport == Spec => []NeverReported
<1>1. Init => process = 2
  BY DEF Init, ServerInit
<1>2. ASSUME TransactionInv, process = 2, [Next]_vars
      PROVE  process' = 2
  <2>1. CASE Server
    <3>1. ServerEffect
      BY <1>2, <2>1, ChannelFacts, ServerFacts DEF Server, TransactionInv
    <3>2. QED
      BY <1>2, <3>1 DEF ServerEffect
  <2>2. [Next]_vars => Server \/ UNCHANGED process
    BY DEF Next, vars, Client, Gateway, Deliver, Return, NetworkFrame, Stray, Lose, server
  <2>3. QED
    BY <1>2, <2>1, <2>2
<1>3. process = 2 => NeverReported
  BY DEF NeverReported
<1>4. TransactionInv /\ process = 2 /\ [Next]_vars => (process = 2)'
  BY <1>2
<1>5. QED
  BY <1>1, <1>3, <1>4, TransactionsApart, PTL DEF Spec

-------------------------------------------------------------------------------
(* The client's handshake. *)

\* What has been read, or is still to be read, says how the gateway sees the client.
AckedOK ==
  /\ Has(toAsp, "ASP_ACT_ACK") => sgAsp = "active"
  /\ message.type = "ASP_ACT_ACK" => sgAsp = "active"
  /\ at = "notify" => sgAsp = "active"
  /\ complete => sgAsp = "active" /\ at \notin Introducing

\* The steps of the handshake proper: it completes from its last receive only.
LEMMA AckedByHandshake ==
  ASSUME ClientTypes, AckedOK, Handshake, UNCHANGED lost
  PROVE  /\ AckedOK'
         /\ sgAsp' = sgAsp
         /\ complete' # complete => ~complete /\ complete' /\ sgAsp = "active"
<1>1. /\ UNCHANGED sgAsp
      /\ \A type : Has(toAsp', type) => Has(toAsp, type)
      /\ at \in Introducing
  BY HandshakeFacts
<1>2. Has(toAsp', "ASP_ACT_ACK") => sgAsp' = "active"
  BY <1>1 DEF AckedOK
<1>3. complete = FALSE
  BY <1>1 DEF AckedOK, ClientTypes
<1>4. ASSUME MayReceive, Arrived.type = "ASP_ACT_ACK"
      PROVE  sgAsp = "active"
  <2>1. CASE lost
    BY <1>4, <2>1 DEF Arrived, AckedOK
  <2>2. CASE ~lost
    <3>1. Has(toAsp, Head(toAsp).type)
      BY <1>4, <2>2, TailHas DEF MayReceive, ClientTypes, GatewayTypeOK
    <3>2. QED
      BY <1>4, <2>2, <3>1 DEF Arrived, AckedOK
  <2>3. QED
    BY <2>1, <2>2
<1>5. CASE Connect
  <2>1. complete' = complete /\ message' = message /\ at' \in {"first", "exited"}
    BY <1>5 DEF Connect, SendOn
  <2>2. QED
    BY <1>1, <1>2, <1>3, <2>1 DEF AckedOK
<1>6. CASE RecvFirst
  <2>1. complete' = complete /\ message' = Arrived /\ at' = "top" /\ MayReceive
    BY <1>6 DEF RecvFirst
  <2>2. QED
    BY <1>1, <1>2, <1>3, <1>4, <2>1 DEF AckedOK
<1>7. CASE RecvTop
  <2>1. complete' = complete /\ at' \in {"top", "act", "exited"} /\ MayReceive
    BY <1>7 DEF RecvTop, SendOn
  <2>2. message'.type = "ASP_ACT_ACK" => message' = Arrived
    BY <1>7 DEF RecvTop, WithContext
  <2>3. QED
    BY <1>1, <1>2, <1>3, <1>4, <2>1, <2>2 DEF AckedOK
<1>8. CASE RecvActAck
  <2>1. /\ complete' = complete /\ message' = Arrived /\ MayReceive
        /\ at' = IF Arrived.type = "ASP_ACT_ACK" THEN "notify" ELSE "top"
    BY <1>8 DEF RecvActAck
  <2>2. QED
    BY <1>1, <1>2, <1>3, <1>4, <2>1 DEF AckedOK
<1>9. CASE RecvNotify
  <2>1. at = "notify" /\ MayReceive /\ sgAsp = "active"
    BY <1>9 DEF RecvNotify, AckedOK
  <2>2. at' # "notify"
    BY <1>9 DEF RecvNotify, SendOn
  <2>3. complete' => at' = "idle"
    BY <1>3, <1>9 DEF RecvNotify, SendOn
  <2>4. complete' \in BOOLEAN
    BY <1>3, <1>9 DEF RecvNotify, ClientTypes
  <2>5. QED
    BY <1>1, <1>2, <1>3, <2>1, <2>2, <2>3, <2>4 DEF AckedOK, Introducing
<1>10. QED
  BY <1>5, <1>6, <1>7, <1>8, <1>9 DEF Handshake

\* A step of anything else only lets the gateway rise.
LEMMA AckedByOthers ==
  ASSUME TransactionInv, AckedOK, [Next]_vars,
         ~(Handshake /\ UNCHANGED <<server, toServer, fromServer, lost, strays>>)
  PROVE  /\ AckedOK' /\ complete' = complete
         /\ \/ sgAsp' = sgAsp
            \/ sgAsp = "down" /\ sgAsp' = "inactive"
            \/ sgAsp = "inactive" /\ sgAsp' = "active"
<1>1. CASE Gateway
  <2>1. UNCHANGED <<at, message, complete>>
    BY <1>1 DEF Gateway, client, session
  <2>2. /\ \/ sgAsp' = sgAsp
           \/ sgAsp = "down" /\ sgAsp' = "inactive"
           \/ sgAsp = "inactive" /\ sgAsp' = "active"
        /\ Has(toAsp', "ASP_ACT_ACK") => Has(toAsp, "ASP_ACT_ACK") \/ sgAsp' = "active"
    BY <1>1, SgRisesFacts DEF Gateway, TransactionInv, ClientTypes
  <2>3. QED
    BY <2>1, <2>2 DEF AckedOK
<1>2. ASSUME UNCHANGED <<sgAsp, message, complete>>,
             Has(toAsp', "ASP_ACT_ACK") => Has(toAsp, "ASP_ACT_ACK"),
             at' # at => at \notin Introducing /\ at' \notin Introducing
      PROVE  AckedOK'
  BY <1>2 DEF AckedOK, Introducing
<1>3. ASSUME UNCHANGED <<sgAsp, toAsp, message, complete>>,
             at' # at => at \notin Introducing /\ at' \notin Introducing
      PROVE  AckedOK'
  BY <1>2, <1>3
<1>4. CASE SendSri \/ RecvSriAck \/ RecvMoAck
  <2>1. UNCHANGED <<sgAsp, toAsp, message, complete>>
    BY <1>4 DEF SendSri, RecvSriAck, RecvMoAck, TransactionFrame, gateway
  <2>2. at' # at => at \in {"idle", "wait"} /\ at' \in {"idle", "wait", "exited"}
    BY <1>4 DEF SendSri, RecvSriAck, RecvMoAck, SendOn
  <2>3. QED
    BY <1>3, <2>1, <2>2 DEF Introducing
<1>5. CASE RecvControl
  <2>1. UNCHANGED <<sgAsp, message, complete, at>>
    BY <1>5 DEF RecvControl, client, session
  <2>2. Has(toAsp', "ASP_ACT_ACK") => Has(toAsp, "ASP_ACT_ACK")
    BY <1>5, TailHas DEF RecvControl, TransactionInv, ClientTypes, GatewayTypeOK
  <2>3. QED
    BY <1>2, <2>1, <2>2
<1>6. CASE Lose
  <2>1. UNCHANGED <<sgAsp, message, complete, at>> /\ toAsp' = <<>>
    BY <1>6 DEF Lose, client, session
  <2>2. QED
    BY <1>2, <2>1, EmptyHas
<1>7. CASE Server \/ Deliver \/ Return \/ Stray \/ UNCHANGED vars
  <2>1. UNCHANGED <<gateway, client>>
    BY <1>7 DEF Server, Deliver, Return, NetworkFrame, Stray, vars
  <2>2. QED
    BY <1>3, <2>1 DEF gateway, client, session
<1>8. QED
  BY <1>1, <1>4, <1>5, <1>6, <1>7 DEF Next, Client, ClientStep

\* At first the gateway sees the client down, and it is not complete.
LEMMA PeeringInit == Init => Peering!Init
<1> SUFFICES ASSUME Init PROVE Peering!Init
  OBVIOUS
<1>1. sgAsp = "down" /\ complete = FALSE
  BY DEF Init, GatewayInit, ClientInit
<1>2. QED
  BY <1>1, Zenon DEF Peering!Init

\* A step of client and gateway is one of M3uaPeering, or none.
LEMMA PeeringStep ==
  ASSUME TransactionInv, AckedOK, [Next]_vars
  PROVE  AckedOK' /\ [Peering!Next]_(Peering!peering)
<1> USE DEF Peering!peering
<1>1. CASE Handshake /\ UNCHANGED <<server, toServer, fromServer, lost, strays>>
  <2>1. /\ AckedOK' /\ sgAsp' = sgAsp
        /\ complete' # complete => ~complete /\ complete' /\ sgAsp = "active"
    BY <1>1, AckedByHandshake DEF TransactionInv
  <2>2. complete \in BOOLEAN /\ complete' \in BOOLEAN
    BY TransactionStep DEF TransactionInv, ClientTypes
  <2>3. CASE complete' = complete
    BY <2>1, <2>3
  <2>4. CASE complete' # complete
    <3>1. complete = FALSE /\ complete' = TRUE /\ sgAsp = "active" /\ sgAsp' = sgAsp
      BY <2>1, <2>2, <2>4
    <3>2. Peering!Finish("client")
      BY <3>1 DEF Peering!Finish
    <3>3. QED
      BY <2>1, <3>2 DEF Peering!Next
  <2>5. QED
    BY <2>3, <2>4
<1>2. CASE ~(Handshake /\ UNCHANGED <<server, toServer, fromServer, lost, strays>>)
  <2>1. /\ AckedOK' /\ complete' = complete
        /\ \/ sgAsp' = sgAsp
           \/ sgAsp = "down" /\ sgAsp' = "inactive"
           \/ sgAsp = "inactive" /\ sgAsp' = "active"
    BY <1>2, AckedByOthers
  <2>2. CASE sgAsp' = sgAsp
    BY <2>1, <2>2
  <2>3. CASE sgAsp = "down" /\ sgAsp' = "inactive"
    <3>1. Peering!AckUp("client")
      BY <2>1, <2>3 DEF Peering!AckUp
    <3>2. QED
      BY <2>1, <3>1 DEF Peering!Next
  <2>4. CASE sgAsp = "inactive" /\ sgAsp' = "active"
    <3>1. Peering!AckActive("client")
      BY <2>1, <2>4 DEF Peering!AckActive
    <3>2. QED
      BY <2>1, <3>1 DEF Peering!Next
  <2>5. QED
    BY <2>1, <2>2, <2>3, <2>4
<1>3. QED
  BY <1>1, <1>2

\* do_sg_handshake with its gateway implements the abstract handshake, whatever
\* it reads first and whenever the association is lost.
THEOREM ClientRefinesPeering == Spec => ClientImplementsPeering
<1>1. Init => AckedOK
  <2> SUFFICES ASSUME Init PROVE AckedOK
    OBVIOUS
  <2>1. toAsp = <<>> /\ message.type = "MGMT_ERR" /\ at = "connect" /\ complete = FALSE
    BY MessagesBuilt DEF Init, GatewayInit, ClientInit
  <2>2. QED
    BY <2>1, EmptyHas DEF AckedOK
<1>2. TransactionInv /\ AckedOK /\ [Next]_vars => AckedOK' /\ [Peering!Next]_(Peering!peering)
  BY PeeringStep
<1>3. QED
  BY <1>1, <1>2, PeeringInit, TransactionsApart, PTL DEF Spec, ClientImplementsPeering, Peering!Spec

-------------------------------------------------------------------------------
(* A transaction that lost its way. *)

\* The steps of the client that do not read data leave its silence as it is.
LEMMA SilentClient ==
  ASSUME TransactionInv, Unanswerable, [Next]_vars
  PROVE  /\ UNCHANGED <<at, trx_id_SRI, trx_id_MO>>
         /\ toNet = <<>> /\ toClient = <<>>
         /\ Own(toNet) = 0 /\ Own(toClient) = 0 /\ Own(fromServer) = 0
         /\ ~Deliver
         /\ Client => UNCHANGED <<serving, toNet, toClient, toServer, fromServer>>
<1>1. at = "wait" /\ Own(toNet) + Own(toClient) + Own(fromServer) = 0
  BY DEF Unanswerable
<1>2. /\ Own(toNet) \in Nat /\ Own(toClient) \in Nat /\ Own(fromServer) \in Nat
  BY ChannelFacts, OwnFacts DEF TransactionInv
<1>3. Own(toNet) = 0 /\ Own(toClient) = 0 /\ Own(fromServer) = 0
  BY <1>1, <1>2
<1>4. toNet = <<>> /\ toClient = <<>>
  BY <1>3, ChannelFacts DEF TransactionInv
<1>5. /\ ~Connect /\ ~RecvFirst /\ ~RecvTop /\ ~RecvActAck /\ ~RecvNotify /\ ~SendSri
      /\ ~RecvSriAck /\ ~RecvMoAck /\ ~Deliver
  BY <1>1, <1>4 DEF Connect, RecvFirst, RecvTop, RecvActAck, RecvNotify, SendSri, RecvSriAck,
     RecvMoAck, Deliver
<1>6. UNCHANGED client
  BY <1>5 DEF Next, vars, Client, ClientStep, Handshake, RecvControl, Server,
     Gateway, Deliver, Return, NetworkFrame, Stray, Lose
<1>7. Client => UNCHANGED <<serving, toNet, toClient, toServer, fromServer>>
  BY <1>5 DEF Client, ClientStep, Handshake, RecvControl, server
<1>8. QED
  BY <1>3, <1>4, <1>5, <1>6, <1>7 DEF client, session, transaction

\* A server that has only messages of others, or an SRI it does not recognise,
\* answers others or nobody.
LEMMA SilentServer ==
  ASSUME TransactionInv, Unanswerable, Server
  PROVE  /\ Own(fromServer') = Own(fromServer)
         /\ UNCHANGED <<toNet, toClient>>
         /\ \A i \in DOMAIN toServer' : toServer'[i].trx > 0 => toServer'[i].type = "SRI_NA"
<1> DEFINE head == Head(toServer)
           rest == Tail(toServer)
<1>1. ServerEffect /\ UNCHANGED <<toNet, toClient>>
  BY ChannelFacts, ServerFacts DEF Server, TransactionInv
<1>2. /\ serving /\ toServer # <<>> /\ toServer' = rest
      /\ toServer \in Seq(Packets) /\ fromServer \in Seq(Packets)
      /\ \A i \in DOMAIN toServer : toServer[i].trx > 0 => toServer[i].type = "SRI_NA"
  BY <1>1, ChannelFacts DEF ServerEffect, Unanswerable, TransactionInv
<1>3. /\ head = toServer[1] /\ 1 \in DOMAIN toServer /\ head \in Packets
      /\ \A i \in DOMAIN rest : i + 1 \in DOMAIN toServer /\ rest[i] = toServer[i + 1]
  BY <1>2
<1>4. head.trx > 0 => head.type = "SRI_NA"
  BY <1>2, <1>3
<1>5. \A i \in DOMAIN rest : rest[i].trx > 0 => rest[i].type = "SRI_NA"
  BY <1>2, <1>3
<1> HIDE DEF rest
<1>6. Own(fromServer') = Own(fromServer)
  <2>1. CASE fromServer' = fromServer
    BY <2>1
  <2>2. CASE fromServer' # fromServer
    <3>1. PICK type \in {"SRI_ACK", "MO_ACK"} :
            fromServer' = Append(fromServer, [head EXCEPT !.type = type])
      BY <1>1, <2>2 DEF ServerEffect, SubmitKept, Silent, Replies
    <3>2. head.type # "SRI_NA"
      BY <1>1, <2>2 DEF ServerEffect, Silent
    <3>3. ~(head.trx > 0)
      BY <1>4, <3>2
    <3> DEFINE answer == [head EXCEPT !.type = type]
    <3>4. answer \in Packets /\ answer.trx = head.trx
      BY <1>3, AnswerPacket
    <3> HIDE DEF answer
    <3>5. Own(Append(fromServer, answer)) = Own(fromServer)
      BY <1>2, <3>3, <3>4, OwnFacts
    <3>6. QED
      BY <3>1, <3>5 DEF answer
  <2>3. QED
    BY <2>1, <2>2
<1>7. QED
  BY <1>1, <1>2, <1>5, <1>6

\* The network and the gateway bring the client nothing it could read.
LEMMA SilentNetwork ==
  ASSUME TransactionInv, Unanswerable, Return \/ Stray \/ Lose \/ Gateway
  PROVE  Unanswerable'
<1>1. /\ UNCHANGED at /\ toNet = <<>> /\ toClient = <<>> /\ Own(fromServer) = 0
      /\ Own(toNet) = 0 /\ Own(toClient) = 0
  BY SilentClient DEF Next
<1>2. /\ at = "wait" /\ toServer \in Seq(Packets) /\ fromServer \in Seq(Packets)
      /\ serving => \A i \in DOMAIN toServer :
                      toServer[i].trx > 0 => toServer[i].type = "SRI_NA"
  BY ChannelFacts DEF Unanswerable, TransactionInv
<1>3. ASSUME toNet' = <<>>, toClient' = <<>>, Own(fromServer') = 0, serving' = serving,
             \A i \in DOMAIN toServer' :
               toServer'[i].trx > 0 => i \in DOMAIN toServer /\ toServer'[i] = toServer[i]
      PROVE  Unanswerable'
  <2>1. Own(toNet') = 0 /\ Own(toClient') = 0
    BY <1>1, <1>3
  <2>2. Own(toNet') + Own(toClient') + Own(fromServer') = 0
    BY <1>3, <2>1
  <2>3. QED
    BY <1>1, <1>2, <1>3, <2>2 DEF Unanswerable
<1>4. CASE Return
  <2>1. /\ fromServer # <<>> /\ fromServer' = Tail(fromServer)
        /\ toClient' = IF Head(fromServer).trx = 0 THEN toClient
                       ELSE Append(toClient, Head(fromServer))
        /\ UNCHANGED <<toNet, toServer, serving>>
    BY <1>4 DEF Return, NetworkFrame, server
  <2>2. /\ Head(fromServer) \in Packets /\ Tail(fromServer) \in Seq(Packets)
        /\ Own(fromServer) = IF Head(fromServer).trx > 0 THEN Own(Tail(fromServer)) + 1
                             ELSE Own(Tail(fromServer))
        /\ Head(fromServer).trx \in Nat
    BY <1>2, <2>1, OwnFacts, PacketFacts, CountTail
  <2>3. Own(Tail(fromServer)) \in Nat
    BY <2>2, OwnFacts
  <2>4. Head(fromServer).trx = 0 /\ Own(Tail(fromServer)) = 0
    BY <1>1, <2>2, <2>3
  <2>5. QED
    BY <1>1, <1>3, <2>1, <2>4
<1>5. CASE Stray
  <2>1. /\ toServer = <<>> /\ UNCHANGED <<toNet, toClient, fromServer, serving>>
        /\ \E type \in {"MT", "CONTINUE", "END"} :
             toServer' = Append(toServer, Packet(type, 0, NoReceiver))
    BY <1>5 DEF Stray, server
  <2>2. \A i \in DOMAIN toServer' : toServer'[i].trx = 0
    BY <2>1 DEF Packet
  <2>3. QED
    BY <1>1, <1>3, <2>1, <2>2
<1>6. CASE Lose
  <2>1. /\ toNet' = <<>> /\ toClient' = <<>> /\ UNCHANGED <<toServer, fromServer, serving>>
    BY <1>6 DEF Lose, server
  <2>2. QED
    BY <1>1, <1>3, <2>1
<1>7. CASE Gateway
  <2>1. UNCHANGED <<toNet, toClient, toServer, fromServer, serving>>
    BY <1>7 DEF Gateway, carried, server
  <2>2. QED
    BY <1>1, <1>3, <2>1
<1>8. QED
  BY <1>4, <1>5, <1>6, <1>7

\* Once nothing under way can become an answer, nothing ever does.
THEOREM SilenceIsForEver == Spec => SilenceLasts
<1>1. ASSUME TransactionInv, [Next]_vars, Unanswerable
      PROVE  Unanswerable' /\ UNCHANGED <<trx_id_SRI, trx_id_MO>>
  <2>1. /\ UNCHANGED <<at, trx_id_SRI, trx_id_MO>>
        /\ Own(fromServer) = 0 /\ ~Deliver
        /\ Client => UNCHANGED <<serving, toNet, toClient, toServer, fromServer>>
    BY <1>1, SilentClient
  <2>2. CASE Server
    BY <1>1, <2>1, <2>2, SilentServer DEF Unanswerable
  <2>3. CASE Client \/ UNCHANGED vars
    <3>1. UNCHANGED <<serving, toNet, toClient, toServer, fromServer>>
      BY <2>1, <2>3 DEF vars, carried, server
    <3>2. QED
      BY <1>1, <2>1, <3>1 DEF Unanswerable
  <2>4. CASE Return \/ Stray \/ Lose \/ Gateway
    BY <1>1, <2>1, <2>4, SilentNetwork
  <2>5. QED
    BY <1>1, <2>1, <2>2, <2>3, <2>4 DEF Next
<1>2. TransactionInv /\ [Next]_vars =>
        [Unanswerable => Unanswerable' /\ UNCHANGED <<trx_id_SRI, trx_id_MO>>]_vars
  BY <1>1
<1>3. QED
  BY <1>2, TransactionsApart, PTL DEF Spec, SilenceLasts
===============================================================================
