------------------------------ MODULE RouteLogic ------------------------------
(***************************************************************************)
(* route_logic.c: the table of the application servers a program has       *)
(* connected, and the resolution of a called party address to one of them. *)
(* One thread registers, another resolves.                                 *)
(***************************************************************************)
EXTENDS Integers, Sequences, FiniteSetsExt

CONSTANTS
  Nodes,        \* the application servers, m3ua_as
  Ssn,          \* the subsystem number of the destination of each
  PointCode,    \* and its point code
  MaxRoutes     \* how many are connected; route_nodes has room for one more

NULL == "NULL"
Fault == "fault"
NotAsked == "not asked"

ASSUME RouteAssumption ==
  /\ MaxRoutes \in 1 .. 9
  /\ PointCode \in [Nodes -> Nat]
  /\ \A n \in Nodes : PointCode[n] < 16777216   \* an SS7 point code has 24 bits at most
  /\ {NULL, Fault} \cap Nodes = {}

VARIABLES
  route_nodes,   \* the entries of route_nodes that are not NULL
  num_routes,    \* how many of them are counted
  result,        \* what the last resolve_route returned
  found,         \* the node it found, or NULL
  route_as       \* the caller's variable that is to name the node

routes == <<route_nodes, num_routes, result, found, route_as>>

\* No resolution since the last registration or analysis.
Forget == result' = NotAsked /\ found' = NULL

RoutesInit ==
  /\ route_nodes = <<>>
  /\ num_routes = 0
  /\ result = NotAsked
  /\ found = NULL
  /\ route_as = NULL

\* register_route in its two statements, as seen by the other thread.
RegisterStore(n) ==
  /\ num_routes = Len(route_nodes)
  /\ num_routes < MaxRoutes
  /\ route_nodes' = Append(route_nodes, n)
  /\ Forget
  /\ UNCHANGED <<num_routes, route_as>>

RegisterCount ==
  /\ num_routes < Len(route_nodes)
  /\ num_routes' = num_routes + 1
  /\ Forget
  /\ UNCHANGED <<route_nodes, route_as>>

\* The first byte of the four convert_int_to_hex makes of a point code.
FirstByte(pc) == (pc \div 16777216) % 256

Search(indices, matching) ==
  LET hits == {i \in indices : i > Len(route_nodes) \/ route_nodes[i] \in matching}
  IN  IF hits = {} THEN NULL
      ELSE IF Min(hits) > Len(route_nodes) THEN Fault ELSE route_nodes[Min(hits)]

\* A mutant: the loop ends at the last route.
SearchInside(matching) == Search(1 .. num_routes, matching)

\* The loops of resolve_ssn and resolve_pc run one entry too far, and an
\* empty entry is followed.
SearchRoutes(matching) == Search(1 .. num_routes + 1, matching)

resolve_ssn(ssn) == SearchRoutes({n \in Nodes : Ssn[n] = ssn})

\* Point codes are compared with strcmp, which ends at the first zero byte:
\* that of a registered node is the first one.
resolve_pc(pc) == SearchRoutes({n \in Nodes : pc = FirstByte(PointCode[n])})

Outcome(res, node) == [result |-> res, found |-> node]

\* The part of the switch for an address routed on the subsystem number; the
\* part for one routed on the global title is behind the test for 0, which is
\* its code.
Unresolved(address) ==
  LET node == resolve_pc(address.pc)
      other == resolve_ssn(address.ssn)
  IN  IF node # NULL THEN Outcome(IF node = Fault THEN Fault ELSE "ROUTE_RESOLVED", node)
      ELSE IF ~address.ssn_present THEN Outcome("ROUTE_RESOLVED", NULL)
      ELSE IF other = NULL THEN Outcome("GT_UNRESOLVED", NULL)
      ELSE Outcome(IF other = Fault THEN Fault ELSE "ROUTE_RESOLVED", other)

Resolution(address) ==
  IF address.routing_indicator = "GT"
    THEN Outcome("ROUTE_TYPE_ABSENT", NULL) ELSE Unresolved(address)

\* resolve_route: the caller's own pointer is passed by value and stays.
resolve_route(address) ==
  /\ result' = Resolution(address).result
  /\ found' = Resolution(address).found
  /\ UNCHANGED <<route_nodes, num_routes, route_as>>

resolve_nothing ==
  /\ result' = "INVALID_PTR"
  /\ found' = NULL
  /\ UNCHANGED <<route_nodes, num_routes, route_as>>
===============================================================================
