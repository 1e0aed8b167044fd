------------------------------ MODULE M3uaPeering ------------------------------
(***************************************************************************)
(* What an M3UA handshake promises, whoever plays it.  Every end that      *)
(* introduces itself is seen by its peer as down, then inactive (its       *)
(* ASP_UP was acknowledged), then active (its ASP_ACT was), one step at a  *)
(* time.  An end finishes its handshake only while its peer sees it        *)
(* active, and is finished once.                                           *)
(***************************************************************************)
CONSTANT Ends

VARIABLES
  seen,       \* seen[e]: how the peer of e sees e
  finished    \* finished[e]: e takes its handshake to be complete

peering == <<seen, finished>>

Init == /\ seen = [e \in Ends |-> "down"]
        /\ finished = [e \in Ends |-> FALSE]

AckUp(e) == /\ seen[e] = "down"
            /\ seen' = [seen EXCEPT ![e] = "inactive"]
            /\ UNCHANGED finished

AckActive(e) == /\ seen[e] = "inactive"
                /\ seen' = [seen EXCEPT ![e] = "active"]
                /\ UNCHANGED finished

Finish(e) == /\ seen[e] = "active"
             /\ ~finished[e]
             /\ finished' = [finished EXCEPT ![e] = TRUE]
             /\ UNCHANGED seen

Next == \E e \in Ends : AckUp(e) \/ AckActive(e) \/ Finish(e)

Spec == Init /\ [][Next]_peering
===============================================================================
