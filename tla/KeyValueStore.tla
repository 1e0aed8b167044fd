----------------------------- MODULE KeyValueStore -----------------------------
(***************************************************************************)
(* What a message store promises to its one client.  A value is the        *)
(* sequence of its parts and <<>> stands for no value.  A write that       *)
(* reports success is there entire; one that reports failure leaves the    *)
(* old value or the first parts of the new one, never a mixture.  A value  *)
(* may be lost at any time, and is then missing as a whole.                *)
(***************************************************************************)
EXTENDS Naturals, Sequences

CONSTANTS Tables, Keys, Writes   \* Writes: the values a client may write

VARIABLES
  content,   \* content[t][k]: the parts stored in table t under key k
  reply      \* the last operation and what it answered

store == <<content, reply>>

Init == /\ content = [t \in Tables |-> [k \in Keys |-> <<>>]]
        /\ reply = [op |-> "none", ret |-> 0, value |-> <<>>]

Answer(op, ret, value) == reply' = [op |-> op, ret |-> ret, value |-> value]

Put(t, k, v) == content' = [content EXCEPT ![t][k] = v]

Written(t, k, v) == /\ Put(t, k, v)
                    /\ Answer("insert", 1, <<>>)

WriteFailed(t, k, v) == /\ \/ \E n \in 0 .. Len(v) : Put(t, k, SubSeq(v, 1, n))
                           \/ UNCHANGED content
                        /\ Answer("insert", 0, <<>>)

\* A table the store does not have: success, and nothing is stored.
WrittenNowhere == /\ UNCHANGED content
                  /\ Answer("insert", 1, <<>>)

\* A read finds the value as it is, or fails.
Read(t, k) == /\ UNCHANGED content
              /\ \E v \in {content[t][k], <<>>} : Answer("get", 0, v)

\* An append claims success and a removal failure; neither touches the store.
Untouched == /\ UNCHANGED content
             /\ Answer("append", 1, <<>>) \/ Answer("delete", 0, <<>>)

Lost(t, k) == /\ Put(t, k, <<>>)
              /\ UNCHANGED reply

Next == \/ WrittenNowhere
        \/ Untouched
        \/ \E t \in Tables, k \in Keys :
             \/ Read(t, k)
             \/ Lost(t, k)
             \/ \E v \in Writes : Written(t, k, v) \/ WriteFailed(t, k, v)

Spec == Init /\ [][Next]_store
===============================================================================
