---------------------------- MODULE LBRefinement ----------------------------
(***************************************************************************)
(* LBController seen as an IPBalancer: the assignment is what the API      *)
(* server stores. Annotations of another IP list do not count.             *)
(***************************************************************************)
EXTENDS LBController

Assigned == [n \in Nodes |-> IF api[n] \in IPs THEN api[n] ELSE NoIP]

Balancer == INSTANCE IPBalancer WITH assigned <- Assigned

\* The controller, with its cached nodes, its map of counts and its restarts,
\* implements the balancer: at the moment the API server accepts an
\* assignment, the assigned IP is one with the fewest annotated nodes.
ImplementsBalancer == Balancer!Spec

\* No assignment skews the distribution of the annotations.
AssignNeverSkews == Balancer!NeverSkews

=============================================================================
