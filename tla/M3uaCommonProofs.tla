--------------------------- MODULE M3uaCommonProofs ---------------------------
(***************************************************************************)
(* What sending and receiving does to the messages on a stream: which are  *)
(* on it, and how many of a kind.                                          *)
(***************************************************************************)
EXTENDS M3uaCommon, FiniteSets, FiniteSetTheorems, TLAPS

\* A message put on a stream adds its own type and nothing else.
LEMMA AppendHas ==
  ASSUME NEW s \in Seq(Messages), NEW m \in Messages, NEW type
  PROVE  /\ Append(s, m) \in Seq(Messages)
         /\ Has(Append(s, m), type) <=> Has(s, type) \/ m.type = type
<1>1. /\ Append(s, m) \in Seq(Messages)
      /\ Len(Append(s, m)) = Len(s) + 1
      /\ \A i \in 1 .. Len(s) : Append(s, m)[i] = s[i]
      /\ Append(s, m)[Len(s) + 1] = m
  OBVIOUS
<1>2. /\ DOMAIN s = 1 .. Len(s)
      /\ DOMAIN Append(s, m) = 1 .. (Len(s) + 1)
      /\ Len(s) \in Nat
  BY <1>1
<1>3. Has(s, type) => Has(Append(s, m), type)
  BY <1>1, <1>2 DEF Has
<1>4. m.type = type => Has(Append(s, m), type)
  BY <1>1, <1>2 DEF Has
<1>5. Has(Append(s, m), type) => Has(s, type) \/ m.type = type
  BY <1>1, <1>2 DEF Has
<1>6. QED
  BY <1>1, <1>3, <1>4, <1>5

\* Two messages put on a stream together are put on one after the other.
LEMMA ConcatTwo ==
  ASSUME NEW s \in Seq(Messages), NEW a \in Messages, NEW b \in Messages
  PROVE  s \o <<a, b>> = Append(Append(s, a), b)
  OBVIOUS

\* A message taken off a stream was on it, and what is left was on it.
LEMMA TailHas ==
  ASSUME NEW s \in Seq(Messages), s # <<>>, NEW type
  PROVE  /\ Tail(s) \in Seq(Messages)
         /\ Head(s) \in Messages
         /\ Has(s, Head(s).type)
         /\ Has(Tail(s), type) => Has(s, type)
<1>1. /\ Tail(s) \in Seq(Messages)
      /\ Head(s) \in Messages
      /\ Head(s) = s[1]
      /\ Len(s) \in Nat \ {0}
      /\ Len(Tail(s)) = Len(s) - 1
      /\ \A i \in 1 .. (Len(s) - 1) : Tail(s)[i] = s[i + 1]
  OBVIOUS
<1>2. /\ DOMAIN s = 1 .. Len(s)
      /\ DOMAIN Tail(s) = 1 .. (Len(s) - 1)
  BY <1>1
<1>3. Has(s, Head(s).type)
  BY <1>1, <1>2 DEF Has
<1>4. Has(Tail(s), type) => Has(s, type)
  BY <1>1, <1>2 DEF Has
<1>5. QED
  BY <1>1, <1>3, <1>4

\* Nothing is on an empty stream.
LEMMA EmptyHas == ASSUME NEW type PROVE ~Has(<<>>, type)
  BY DEF Has

\* The messages the modules build are messages.
LEMMA MessagesBuilt ==
  /\ \A type \in MessageTypes :
       Msg(type) \in Messages /\ Msg(type).type = type
  /\ \A type \in MessageTypes, rc \in Contexts :
       WithContext(type, rc) \in Messages /\ WithContext(type, rc).type = type
  /\ \A status \in Statuses, rc \in Contexts :
       /\ Notify(status, rc) \in Messages
       /\ Notify(status, rc).type = "NTFY"
       /\ Notify(status, rc).status = status
  /\ NoMessage \in Messages /\ NoMessage.type = "MGMT_ERR"
  BY DEF Messages, Msg, WithContext, Notify, NoMessage, MessageTypes, Statuses,
         Contexts, AspsmTypes, AsptmTypes

-------------------------------------------------------------------------------
(* How many messages of a kind are on a stream. *)

Places(s, kind) == {i \in DOMAIN s : s[i] \in kind}

Count(s, kind) == Cardinality(Places(s, kind))

\* A count is a number, and 0 where nothing of the kind is on the channel.
LEMMA CountFacts ==
  ASSUME NEW T, NEW s \in Seq(T), NEW kind
  PROVE  /\ IsFiniteSet(Places(s, kind))
         /\ Count(s, kind) \in Nat
         /\ Count(s, kind) = 0 <=> \A i \in DOMAIN s : s[i] \notin kind
<1>1. IsFiniteSet(DOMAIN s)
  <2>1. DOMAIN s = 1 .. Len(s) /\ Len(s) \in Nat
    OBVIOUS
  <2>2. QED
    BY <2>1, FS_Interval
<1>2. IsFiniteSet(Places(s, kind))
  <2>1. Places(s, kind) \subseteq DOMAIN s
    BY DEF Places
  <2>2. QED
    BY <1>1, <2>1, FS_Subset
<1>3. Count(s, kind) \in Nat
  BY <1>2, FS_CardinalityType DEF Count
<1>4. Count(s, kind) = 0 <=> Places(s, kind) = {}
  BY <1>2, FS_EmptySet DEF Count
<1>5. QED
  BY <1>2, <1>3, <1>4 DEF Places

\* An empty channel holds none.
LEMMA CountEmpty ==
  ASSUME NEW kind
  PROVE  Count(<<>>, kind) = 0
<1>1. Places(<<>>, kind) = {}
  BY DEF Places
<1>2. QED
  BY <1>1, FS_EmptySet DEF Count

\* Sending a message counts it.
LEMMA CountAppend ==
  ASSUME NEW T, NEW s \in Seq(T), NEW m \in T, NEW kind
  PROVE  /\ Append(s, m) \in Seq(T)
         /\ Count(Append(s, m), kind) = IF m \in kind THEN Count(s, kind) + 1 ELSE Count(s, kind)
<1> DEFINE t == Append(s, m)
           n == Len(s) + 1
<1>1. /\ t \in Seq(T)
      /\ DOMAIN s = 1 .. Len(s) /\ Len(s) \in Nat
      /\ DOMAIN t = 1 .. n
      /\ \A i \in 1 .. Len(s) : t[i] = s[i]
      /\ t[n] = m
  OBVIOUS
<1> HIDE DEF t
<1>2. n \notin Places(s, kind)
  BY <1>1 DEF Places
<1>3. Places(t, kind) = IF m \in kind THEN Places(s, kind) \cup {n} ELSE Places(s, kind)
  BY <1>1 DEF Places
<1>4. IsFiniteSet(Places(s, kind))
  BY CountFacts
<1>5. Cardinality(Places(s, kind) \cup {n}) = Cardinality(Places(s, kind)) + 1
  BY <1>2, <1>4, FS_AddElement
<1>6. QED
  BY <1>1, <1>3, <1>5 DEF Count, t

\* Receiving a message uncounts it.
LEMMA CountTail ==
  ASSUME NEW T, NEW s \in Seq(T), s # <<>>, NEW kind
  PROVE  /\ Tail(s) \in Seq(T) /\ Head(s) \in T
         /\ Count(s, kind) =
              IF Head(s) \in kind THEN Count(Tail(s), kind) + 1 ELSE Count(Tail(s), kind)
<1> DEFINE t == Tail(s)
<1>1. /\ t \in Seq(T) /\ Head(s) \in T /\ Head(s) = s[1]
      /\ DOMAIN s = 1 .. Len(s) /\ Len(s) \in Nat \ {0}
      /\ DOMAIN t = 1 .. Len(s) - 1
      /\ \A i \in 1 .. Len(s) - 1 : t[i] = s[i + 1]
  OBVIOUS
<1> HIDE DEF t
<1> DEFINE rest == Places(s, kind) \ {1}
           shift == [i \in Places(t, kind) |-> i + 1]
<1>2. shift \in Bijection(Places(t, kind), rest)
  <2>1. \A i \in Places(t, kind) : i \in 1 .. Len(s) - 1 /\ i + 1 \in rest
    BY <1>1 DEF Places
  <2>2. shift \in [Places(t, kind) -> rest]
    BY <2>1
  <2>3. \A i, j \in Places(t, kind) : shift[i] = shift[j] => i = j
    BY <2>1
  <2>4. ASSUME NEW j \in rest
        PROVE  \E i \in Places(t, kind) : shift[i] = j
    <3>1. j \in 2 .. Len(s) /\ s[j] \in kind
      BY <1>1 DEF Places
    <3>2. j - 1 \in Places(t, kind)
      BY <1>1, <3>1 DEF Places
    <3>3. shift[j - 1] = j
      BY <3>1, <3>2
    <3>4. QED
      BY <3>2, <3>3
  <2>5. QED
    BY <2>2, <2>3, <2>4 DEF Bijection, Injection, Surjection, IsInjective
<1>3. IsFiniteSet(Places(s, kind)) /\ IsFiniteSet(Places(t, kind))
  BY <1>1, CountFacts
<1>4. Cardinality(rest) = Count(t, kind)
  BY <1>2, <1>3, FS_Bijection DEF ExistsBijection, Count
<1>5. Cardinality(rest) = IF 1 \in Places(s, kind) THEN Count(s, kind) - 1 ELSE Count(s, kind)
  BY <1>3, FS_RemoveElement DEF Count
<1>6. 1 \in Places(s, kind) <=> Head(s) \in kind
  BY <1>1 DEF Places
<1>7. Count(s, kind) \in Nat /\ Count(t, kind) \in Nat
  BY <1>1, CountFacts
<1>8. QED
  BY <1>1, <1>4, <1>5, <1>6, <1>7 DEF t
===============================================================================
