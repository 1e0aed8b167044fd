--------------------------- MODULE MCM3uaSgHandshake ---------------------------
(***************************************************************************)
(* The gateways the handshake is checked against.                          *)
(***************************************************************************)
EXTENDS M3uaSgHandshake

\* A gateway that serves this ASP alone: AS_INACTIVE, then AS_ACTIVE.
SoleInactive == {"inactive"}
SoleActive == {"active"}
WithRoutingContext == {"assigned"}

\* A gateway that may say anything a NTFY can say, with a context or without.
AnyStatus == Statuses
AnyContext == {"assigned", "none"}

\* A gateway whose AS another ASP may serve already.
SharedAs == {"inactive", "active"}
===============================================================================
