----------------------------- MODULE IPBalancer -----------------------------
(***************************************************************************)
(* What the load balancing controller promises (README.md:10): a node that *)
(* needs an NFS server gets one with the fewest nodes. Here the assignment *)
(* is one variable that everybody sees; the map of counts, the cached      *)
(* nodes, the locks and the restarts of LBController have no place.        *)
(***************************************************************************)
EXTENDS Integers, FiniteSets

CONSTANTS Nodes, IPs, NoIP

VARIABLE assigned  \* assigned[n]: the IP of node n, or NoIP

\* What the constants are taken to be.
BalancerConstants ==
    IsFiniteSet(Nodes) /\ IsFiniteSet(IPs) /\ IPs # {} /\ NoIP \notin IPs

TypeOK == assigned \in [Nodes -> IPs \cup {NoIP}]

Holders(a) == {n \in Nodes : assigned[n] = a}
Load(a) == Cardinality(Holders(a))

LeastLoaded == {a \in IPs : \A b \in IPs : Load(a) <= Load(b)}

Assign(n) ==
    /\ assigned[n] = NoIP
    /\ \E a \in LeastLoaded : assigned' = [assigned EXCEPT ![n] = a]

Release(n) ==
    /\ assigned[n] # NoIP
    /\ assigned' = [assigned EXCEPT ![n] = NoIP]

Init == assigned \in [Nodes -> IPs \cup {NoIP}]
Next == \E n \in Nodes : Assign(n) \/ Release(n)
Spec == Init /\ [][Next]_assigned

\* "ensuring even client distribution" (README.md:10): a step that gives a
\* node an IP leaves no IP more than one node ahead of another, unless it was
\* that far ahead before.
NeverSkews ==
    [][\A n \in Nodes : assigned[n] = NoIP /\ assigned'[n] # NoIP =>
           \A a, b \in IPs :
               \/ Load(a)' - Load(b)' <= 1
               \/ Load(a)' - Load(b)' <= Load(a) - Load(b)]_assigned

=============================================================================
