------------------------------- MODULE SmsServer -------------------------------
(***************************************************************************)
(* The simulator as server, its handshake over: the loop of main around    *)
(* parse_message, with one database.  Each pass reads one message.  A NULL *)
(* result or connection that is followed ends the process.                 *)
(***************************************************************************)
EXTENDS SmsCommon

CONSTANT India   \* the receivers whose number begins with 91

ASSUME ServerAssumption == India \subseteq Receivers

VARIABLES
  serving,      \* it is in its loop
  serverDb,     \* msqlHandle
  sent_sms,     \* the rows of smsc_sent_sms
  process,      \* the process column of one row of smsc_send_sms
  toServer,     \* messages for the server
  fromServer    \* its answers

server == <<serving, serverDb, sent_sms, process>>

ServerInit == /\ serving = TRUE /\ serverDb \in {"ready", "null"}
              /\ sent_sms = {} /\ process = 2
              /\ toServer = <<>> /\ fromServer = <<>>

Row(opcode, packet) == [opcode |-> opcode, trx |-> packet.trx, receiver |-> packet.receiver]

Takes(type) == /\ serving /\ toServer # <<>>
               /\ Head(toServer).type = type
               /\ toServer' = Tail(toServer)

Crashes == /\ serving' = FALSE
           /\ UNCHANGED <<sent_sms, fromServer>>

Answers(type) == /\ serving' = TRUE
                 /\ fromServer' = Append(fromServer, [Head(toServer) EXCEPT !.type = type])

\* An INSERT that failed is not noticed as long as there is a connection again.
Keeps(row, insert, answer) ==
  IF insert.handle = "null" THEN Crashes
  ELSE /\ sent_sms' = IF insert.ok THEN sent_sms \cup {row} ELSE sent_sms
       /\ Answers(answer)

\* One statement, its result stored without a look at the outcome.
Statement(row, answer) == \E insert \in gsmsc_tcap_query(serverDb, dbFailures) :
                            /\ serverDb' = insert.handle
                            /\ dbFailures' = insert.failures
                            /\ Keeps(row, insert, answer)

(***************************************************************************)
(* SRI: the IMSI is selected and its row followed, whether the SELECT      *)
(* failed or found none; then the request is inserted.  get_IMSI looks the *)
(* receiver up once more, with every test, and changes the connection at   *)
(* most: the answer carries the same IMSI whatever it finds.               *)
(***************************************************************************)
ServeSri == /\ Takes("SRI")
            /\ \/ /\ UNCHANGED <<serverDb, dbFailures>>          \* no such row
                  /\ Crashes
               \/ \E select \in gsmsc_tcap_query(serverDb, dbFailures) :
                    /\ ~select.ok
                    /\ serverDb' = select.handle /\ dbFailures' = select.failures
                    /\ Crashes
               \/ /\ serverDb = "ready"
                  /\ \E insert \in gsmsc_tcap_query(serverDb, dbFailures) :
                       \E lookup \in gsmsc_tcap_query(insert.handle, insert.failures) :
                         /\ serverDb' = lookup.handle
                         /\ dbFailures' = lookup.failures
                         /\ Keeps(Row(1, Head(toServer)), insert, "SRI_ACK")
            /\ UNCHANGED process

\* A mutant: a message not meant for India is not stored.
ServeMoSkips == /\ Takes("MO")
                /\ IF Head(toServer).receiver \in India
                     THEN Statement(Row(2, Head(toServer)), "MO_ACK")
                     ELSE /\ Answers("MO_ACK")
                          /\ UNCHANGED <<serverDb, dbFailures, sent_sms>>
                /\ UNCHANGED process

\* The number of an Indian receiver goes to the cache, whose callbacks are NULL.
ServeMo == /\ Takes("MO")
           /\ IF Head(toServer).receiver \in India
                THEN Crashes /\ UNCHANGED <<serverDb, dbFailures>>
                ELSE Statement(Row(2, Head(toServer)), "MO_ACK")
           /\ UNCHANGED process

\* The INSERT of an MT names no global_msg_id.
ServeMt == /\ Takes("MT")
           /\ Statement(Row(0, Packet("MT", 0, Head(toServer).receiver)), "MO_ACK")
           /\ UNCHANGED process

\* A mutant: the gate lets a CONTINUE through.
GatedToo == {"SRI", "MO", "MT", "CONTINUE", "END"}

\* The first test of parse_message knows the tags of BEGIN and END only, and
\* looks for them where a message without a network appearance has them.
Gated == {"SRI", "MO", "MT", "END"}

\* An update of the one row of smsc_send_sms; no answer either way.
Report(guard, value) == \E update \in gsmsc_tcap_query(serverDb, dbFailures) :
                          /\ serverDb' = update.handle
                          /\ dbFailures' = update.failures
                          /\ process' = IF update.ok /\ guard THEN value ELSE process
                          /\ serving' = (update.handle # "null")
                          /\ UNCHANGED <<sent_sms, fromServer>>

ServeContinue == /\ Takes("CONTINUE")
                 /\ IF "CONTINUE" \in Gated
                      THEN Report(TRUE, 3)
                      ELSE UNCHANGED <<server, fromServer, dbFailures>>

\* With a network appearance another byte is at [62]: logged and forgotten.
ServeShifted == /\ Takes("SRI_NA")
                /\ UNCHANGED <<server, fromServer, dbFailures>>

ServeEnd == /\ Takes("END")
            /\ Report(process = 3, 4)

ServerStep == ServeSri \/ ServeShifted \/ ServeMo \/ ServeMt \/ ServeContinue \/ ServeEnd
===============================================================================
