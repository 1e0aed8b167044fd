------------------------------- MODULE MCM3uaNode -------------------------------
(***************************************************************************)
(* The node with a gateway that lets the handshake complete.               *)
(***************************************************************************)
EXTENDS M3uaNode

SoleInactive == {"inactive"}
SoleActive == {"active"}
WithRoutingContext == {"assigned"}
===============================================================================
