------------------------ MODULE SignallingGatewayProofs ------------------------
(***************************************************************************)
(* What a step of the gateway does to its view of the ASP and to the two   *)
(* streams, whoever is at the other end.                                   *)
(***************************************************************************)
EXTENDS SignallingGateway, M3uaCommonProofs

\* The NTFYs that may follow an acknowledgement are messages.
LEMMA NotifiesAreMessages ==
  ASSUME NEW after, NEW s \in StatusesAfter(after), NEW rc \in NtfyContexts
  PROVE  Notify(s, rc) \in Messages /\ Notify(s, rc).type = "NTFY"
<1>1. s \in Statuses /\ rc \in Contexts
  BY GatewayAssumption DEF StatusesAfter, Contexts
<1>2. QED
  BY <1>1, MessagesBuilt

\* The gateway answers with the acknowledgement and at most a NTFY.
LEMMA AnswerFacts ==
  ASSUME GatewayTypeOK, NEW ack \in MessageTypes, NEW after \in {"up", "act"},
         Answer(ack, after)
  PROVE  /\ toAsp' \in Seq(Messages)
         /\ sgNtfy' \in {"none", after}
         /\ \A type : Has(toAsp', type) =>
              Has(toAsp, type) \/ type = ack \/ type = "NTFY"
<1>1. Msg(ack) \in Messages /\ Msg(ack).type = ack
  BY MessagesBuilt
<1>2. CASE Burst
  <2>1. PICK s \in StatusesAfter(after), rc \in NtfyContexts :
               /\ toAsp' = toAsp \o <<Msg(ack), Notify(s, rc)>>
               /\ sgNtfy' = "none"
    BY <1>2 DEF Answer
  <2>2. Notify(s, rc) \in Messages /\ Notify(s, rc).type = "NTFY"
    BY NotifiesAreMessages
  <2>3. toAsp' = Append(Append(toAsp, Msg(ack)), Notify(s, rc))
    BY <1>1, <2>1, <2>2, ConcatTwo DEF GatewayTypeOK
  <2>4. /\ Append(toAsp, Msg(ack)) \in Seq(Messages)
        /\ \A type : Has(Append(toAsp, Msg(ack)), type) => Has(toAsp, type) \/ type = ack
    BY <1>1, AppendHas DEF GatewayTypeOK
  <2>5. /\ toAsp' \in Seq(Messages)
        /\ \A type : Has(toAsp', type) =>
             Has(Append(toAsp, Msg(ack)), type) \/ type = "NTFY"
    BY <2>2, <2>3, <2>4, AppendHas
  <2>6. QED
    BY <2>1, <2>4, <2>5
<1>3. CASE ~Burst
  <2>1. toAsp' = Append(toAsp, Msg(ack)) /\ sgNtfy' = after
    BY <1>3 DEF Answer
  <2>2. toAsp \in Seq(Messages)
    BY DEF GatewayTypeOK
  <2>3. /\ toAsp' \in Seq(Messages)
        /\ \A type : Has(toAsp', type) => Has(toAsp, type) \/ type = ack
    BY <1>1, <2>1, <2>2, AppendHas
  <2>4. QED
    BY <2>1, <2>3
<1>4. QED
  BY <1>2, <1>3

\* The gateway takes a message that was on the stream.
LEMMA SgTakesFacts ==
  ASSUME GatewayTypeOK, NEW type, SgTakes(type)
  PROVE  /\ toSg' \in Seq(Messages)
         /\ Has(toSg, type)
         /\ \A t : Has(toSg', t) => Has(toSg, t)
  BY TailHas DEF GatewayTypeOK, SgTakes

\* What the gateway says unasked is a NTFY or a heartbeat.
LEMMA SpokenMessage ==
  ASSUME SgNotify \/ SgHeartbeat
  PROVE  \E m \in Messages : m.type \in {"NTFY", "ASP_HTBT"} /\ toAsp' = Append(toAsp, m)
<1>1. Msg("ASP_HTBT") \in Messages /\ Msg("ASP_HTBT").type = "ASP_HTBT"
  BY MessagesBuilt DEF MessageTypes, AspsmTypes
<1>2. CASE SgNotify
  BY <1>2, NotifiesAreMessages DEF SgNotify
<1>3. CASE SgHeartbeat
  BY <1>1, <1>3 DEF SgHeartbeat
<1>4. QED
  BY <1>2, <1>3

\* The late NTFY, or a heartbeat, adds one message that is no acknowledgement.
LEMMA SgSpeaksFacts ==
  ASSUME GatewayTypeOK, SgNotify \/ SgHeartbeat
  PROVE  /\ GatewayTypeOK'
         /\ UNCHANGED <<sgAsp, toSg>>
         /\ \A type : Has(toAsp', type) => Has(toAsp, type) \/ type \in {"NTFY", "ASP_HTBT"}
<1>1. PICK m \in Messages : m.type \in {"NTFY", "ASP_HTBT"} /\ toAsp' = Append(toAsp, m)
  BY SpokenMessage
<1>2. /\ toAsp' \in Seq(Messages)
      /\ \A type : Has(toAsp', type) => Has(toAsp, type) \/ type \in {"NTFY", "ASP_HTBT"}
  BY <1>1, AppendHas DEF GatewayTypeOK
<1>3. /\ sgNtfy' \in {"none", "up", "act"}
      /\ beats' \in 0 .. MaxBeats
      /\ UNCHANGED <<sgAsp, toSg>>
  BY GatewayAssumption DEF SgNotify, SgHeartbeat, GatewayTypeOK
<1>4. QED
  BY <1>2, <1>3 DEF GatewayTypeOK

(***************************************************************************)
(* A gateway that is asked to come up never takes back what it granted,    *)
(* moves one step at a time, and acknowledges an ASP_ACT only when it sees *)
(* the ASP active.                                                         *)
(***************************************************************************)
LEMMA SgRisesFacts ==
  ASSUME GatewayTypeOK, SgRespond \/ SgHeartbeat
  PROVE  /\ GatewayTypeOK'
         /\ \/ sgAsp' = sgAsp
            \/ sgAsp = "down" /\ sgAsp' = "inactive"
            \/ sgAsp = "inactive" /\ sgAsp' = "active"
         /\ Has(toAsp', "ASP_ACT_ACK") => Has(toAsp, "ASP_ACT_ACK") \/ sgAsp' = "active"
<1>1. CASE SgRecvUp
  <2>1. toSg' \in Seq(Messages)
    BY <1>1, SgTakesFacts DEF SgRecvUp
  <2>2. /\ toAsp' \in Seq(Messages)
        /\ sgNtfy' \in {"none", "up", "act"}
        /\ Has(toAsp', "ASP_ACT_ACK") => Has(toAsp, "ASP_ACT_ACK")
    BY <1>1, AnswerFacts DEF SgRecvUp, MessageTypes, AspsmTypes
  <2>3. QED
    BY <1>1, <2>1, <2>2 DEF SgRecvUp, GatewayTypeOK
<1>2. CASE SgRecvAct
  <2>1. toSg' \in Seq(Messages)
    BY <1>2, SgTakesFacts DEF SgRecvAct
  <2>2. CASE sgAsp = "down"
    BY <1>2, <2>1, <2>2 DEF SgRecvAct, GatewayTypeOK
  <2>3. CASE sgAsp # "down"
    <3>1. /\ toAsp' \in Seq(Messages)
          /\ sgNtfy' \in {"none", "up", "act"}
      BY <1>2, <2>3, AnswerFacts DEF SgRecvAct, MessageTypes, AsptmTypes
    <3>2. sgAsp' = "active" /\ UNCHANGED beats
      BY <1>2, <2>3 DEF SgRecvAct
    <3>3. QED
      BY <2>1, <2>3, <3>1, <3>2 DEF GatewayTypeOK
  <2>4. QED
    BY <2>2, <2>3
<1>3. CASE SgRecvOther
  <2>1. toSg' \in Seq(Messages)
    BY <1>3, SgTakesFacts DEF SgRecvOther
  <2>2. QED
    BY <1>3, <2>1 DEF SgRecvOther, GatewayTypeOK
<1>4. CASE SgNotify \/ SgHeartbeat
  BY <1>4, SgSpeaksFacts
<1>5. QED
  BY <1>1, <1>2, <1>3, <1>4 DEF SgRespond

-------------------------------------------------------------------------------
(* A request and its acknowledgement, counted together. *)

\* The messages of a type.
Of(type) == {m \in Messages : m.type = type}

\* A message is of its own type and of no other.
LEMMA OfFacts ==
  ASSUME NEW s \in Seq(Messages), NEW type
  PROVE  /\ Count(s, Of(type)) \in Nat
         /\ Count(s, Of(type)) = 0 <=> ~Has(s, type)
         /\ \A m \in Messages : Count(Append(s, m), Of(type)) =
              IF m.type = type THEN Count(s, Of(type)) + 1 ELSE Count(s, Of(type))
         /\ s # <<>> => Count(s, Of(type)) =
              IF Head(s).type = type THEN Count(Tail(s), Of(type)) + 1
              ELSE Count(Tail(s), Of(type))
<1>1. \A m \in Messages : m \in Of(type) <=> m.type = type
  BY DEF Of
<1>2. \A i \in DOMAIN s : s[i] \in Messages
  OBVIOUS
<1>3. Count(s, Of(type)) \in Nat
      /\ (Count(s, Of(type)) = 0 <=> \A i \in DOMAIN s : s[i] \notin Of(type))
  BY CountFacts
<1>4. Count(s, Of(type)) = 0 <=> ~Has(s, type)
  BY <1>1, <1>2, <1>3 DEF Has
<1>5. ASSUME NEW m \in Messages
      PROVE  Count(Append(s, m), Of(type)) =
               IF m.type = type THEN Count(s, Of(type)) + 1 ELSE Count(s, Of(type))
  <2>1. Count(Append(s, m), Of(type)) =
          IF m \in Of(type) THEN Count(s, Of(type)) + 1 ELSE Count(s, Of(type))
    BY CountAppend
  <2>2. QED
    BY <1>1, <2>1
<1>6. ASSUME s # <<>>
      PROVE  Count(s, Of(type)) = IF Head(s).type = type THEN Count(Tail(s), Of(type)) + 1
                                  ELSE Count(Tail(s), Of(type))
  <2>1. /\ Head(s) \in Messages
        /\ Count(s, Of(type)) = IF Head(s) \in Of(type) THEN Count(Tail(s), Of(type)) + 1
                                ELSE Count(Tail(s), Of(type))
    BY <1>6, CountTail
  <2>2. QED
    BY <1>1, <2>1
<1>7. QED
  BY <1>3, <1>4, <1>5, <1>6

\* Requests of a type on their way to the gateway, and acknowledgements back.
Open(request, ack) == Count(toSg, Of(request)) + Count(toAsp, Of(ack))

\* Taking a request uncounts it.
LEMMA TakenUncounted ==
  ASSUME GatewayTypeOK, NEW taken, SgTakes(taken), NEW type
  PROVE  Count(toSg, Of(type)) =
           IF type = taken THEN Count(toSg', Of(type)) + 1 ELSE Count(toSg', Of(type))
  BY OfFacts DEF GatewayTypeOK, SgTakes

\* Answering counts the acknowledgement, once.
LEMMA AnswerCounted ==
  ASSUME GatewayTypeOK, NEW ack \in MessageTypes, NEW after \in {"up", "act"},
         Answer(ack, after), NEW type, type # "NTFY"
  PROVE  Count(toAsp', Of(type)) =
           IF type = ack THEN Count(toAsp, Of(type)) + 1 ELSE Count(toAsp, Of(type))
<1>1. Msg(ack) \in Messages /\ Msg(ack).type = ack
  BY MessagesBuilt
<1>2. toAsp \in Seq(Messages) /\ Append(toAsp, Msg(ack)) \in Seq(Messages)
  BY <1>1, AppendHas DEF GatewayTypeOK
<1>3. Count(Append(toAsp, Msg(ack)), Of(type)) =
        IF type = ack THEN Count(toAsp, Of(type)) + 1 ELSE Count(toAsp, Of(type))
  BY <1>1, <1>2, OfFacts
<1>4. CASE Burst
  <2>1. PICK s \in StatusesAfter(after), rc \in NtfyContexts :
               toAsp' = toAsp \o <<Msg(ack), Notify(s, rc)>>
    BY <1>4 DEF Answer
  <2>2. Notify(s, rc) \in Messages /\ Notify(s, rc).type = "NTFY"
    BY NotifiesAreMessages
  <2>3. toAsp' = Append(Append(toAsp, Msg(ack)), Notify(s, rc))
    BY <1>1, <1>2, <2>1, <2>2, ConcatTwo
  <2>4. Count(Append(Append(toAsp, Msg(ack)), Notify(s, rc)), Of(type)) =
          Count(Append(toAsp, Msg(ack)), Of(type))
    BY <1>2, <2>2, OfFacts
  <2>5. QED
    BY <1>3, <2>3, <2>4
<1>5. CASE ~Burst
  BY <1>3, <1>5 DEF Answer
<1>6. QED
  BY <1>4, <1>5

(***************************************************************************)
(* The gateway acknowledges each request once at most, and invents no      *)
(* acknowledgement: what is open can only be less.                         *)
(***************************************************************************)
LEMMA NothingReopens ==
  ASSUME GatewayTypeOK, SgRespond \/ SgHeartbeat
  PROVE  /\ Open("ASP_UP", "ASP_UPACK")' \in 0 .. Open("ASP_UP", "ASP_UPACK")
         /\ Open("ASP_ACT", "ASP_ACT_ACK")' \in 0 .. Open("ASP_ACT", "ASP_ACT_ACK")
<1>1. /\ \A type : Count(toSg, Of(type)) \in Nat /\ Count(toAsp, Of(type)) \in Nat
      /\ \A type : Count(toSg', Of(type)) \in Nat /\ Count(toAsp', Of(type)) \in Nat
  BY SgRisesFacts, OfFacts DEF GatewayTypeOK
<1>2. SUFFICES
        /\ Count(toSg', Of("ASP_UP")) + Count(toAsp', Of("ASP_UPACK"))
             <= Count(toSg, Of("ASP_UP")) + Count(toAsp, Of("ASP_UPACK"))
        /\ Count(toSg', Of("ASP_ACT")) + Count(toAsp', Of("ASP_ACT_ACK"))
             <= Count(toSg, Of("ASP_ACT")) + Count(toAsp, Of("ASP_ACT_ACK"))
  BY <1>1 DEF Open
<1>3. CASE SgRecvUp
  <2>1. /\ Count(toSg, Of("ASP_UP")) = Count(toSg', Of("ASP_UP")) + 1
        /\ Count(toSg, Of("ASP_ACT")) = Count(toSg', Of("ASP_ACT"))
    BY <1>3, TakenUncounted DEF SgRecvUp
  <2>2. /\ Count(toAsp', Of("ASP_UPACK")) = Count(toAsp, Of("ASP_UPACK")) + 1
        /\ Count(toAsp', Of("ASP_ACT_ACK")) = Count(toAsp, Of("ASP_ACT_ACK"))
    BY <1>3, AnswerCounted DEF SgRecvUp, MessageTypes, AspsmTypes
  <2>3. QED
    BY <1>1, <2>1, <2>2
<1>4. CASE SgRecvAct
  <2>1. /\ Count(toSg, Of("ASP_UP")) = Count(toSg', Of("ASP_UP"))
        /\ Count(toSg, Of("ASP_ACT")) = Count(toSg', Of("ASP_ACT")) + 1
    BY <1>4, TakenUncounted DEF SgRecvAct
  <2>2. CASE sgAsp = "down"
    BY <1>1, <1>4, <2>1, <2>2 DEF SgRecvAct
  <2>3. CASE sgAsp # "down"
    <3>1. /\ Count(toAsp', Of("ASP_UPACK")) = Count(toAsp, Of("ASP_UPACK"))
          /\ Count(toAsp', Of("ASP_ACT_ACK")) = Count(toAsp, Of("ASP_ACT_ACK")) + 1
      BY <1>4, <2>3, AnswerCounted DEF SgRecvAct, MessageTypes, AsptmTypes
    <3>2. QED
      BY <1>1, <2>1, <3>1
  <2>4. QED
    BY <2>2, <2>3
<1>5. CASE SgRecvOther
  <2>1. /\ Count(toSg, Of("ASP_UP")) = Count(toSg', Of("ASP_UP"))
        /\ Count(toSg, Of("ASP_ACT")) = Count(toSg', Of("ASP_ACT"))
    BY <1>5, TakenUncounted DEF SgRecvOther
  <2>2. QED
    BY <1>1, <1>5, <2>1 DEF SgRecvOther
<1>6. CASE SgNotify \/ SgHeartbeat
  <2>1. PICK m \in Messages : m.type \in {"NTFY", "ASP_HTBT"} /\ toAsp' = Append(toAsp, m)
    BY <1>6, SpokenMessage
  <2>2. UNCHANGED toSg
    BY <1>6 DEF SgNotify, SgHeartbeat
  <2>3. /\ Count(Append(toAsp, m), Of("ASP_UPACK")) = Count(toAsp, Of("ASP_UPACK"))
        /\ Count(Append(toAsp, m), Of("ASP_ACT_ACK")) = Count(toAsp, Of("ASP_ACT_ACK"))
    BY <2>1, OfFacts DEF GatewayTypeOK
  <2>4. QED
    BY <1>1, <2>1, <2>2, <2>3
<1>7. QED
  BY <1>3, <1>4, <1>5, <1>6 DEF SgRespond
===============================================================================
