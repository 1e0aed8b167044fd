--------------------------- MODULE MCSmsTransactions ---------------------------
(***************************************************************************)
(* A gateway whose NTFY may come late, behind heartbeats, for an AS that   *)
(* may already be active.                                                  *)
(***************************************************************************)
EXTENDS SmsTransactions

UpMay == {"inactive", "active"}
SoleActive == {"active"}
WithRoutingContext == {"assigned"}
===============================================================================
