-------------------------- MODULE IPBalancerProofs --------------------------
(***************************************************************************)
(* The balancer never skews the distribution, for any number of nodes and  *)
(* IPs.                                                                    *)
(***************************************************************************)
EXTENDS IPBalancer, FiniteSetTheorems, TLAPS

\* The loads are natural numbers, before and after a step.
LEMMA LoadType ==
    ASSUME BalancerConstants
    PROVE  \A a \in IPs : Load(a) \in Nat /\ Load(a)' \in Nat
<1> SUFFICES ASSUME NEW a \in IPs PROVE Load(a) \in Nat /\ Load(a)' \in Nat
  OBVIOUS
<1>1. Holders(a) \subseteq Nodes /\ Holders(a)' \subseteq Nodes
  BY DEF Holders
<1>2. IsFiniteSet(Holders(a)) /\ IsFiniteSet(Holders(a)')
  BY <1>1, FS_Subset DEF BalancerConstants
<1> QED
  BY <1>2, FS_CardinalityType DEF Load

\* A node without an IP that gets one adds one to the load of that IP and
\* leaves the other loads alone.
LEMMA LoadAssign ==
    ASSUME BalancerConstants, TypeOK, NEW n \in Nodes, NEW a \in IPs,
           assigned[n] = NoIP,
           assigned' = [assigned EXCEPT ![n] = a]
    PROVE  \A b \in IPs : Load(b)' = IF b = a THEN Load(b) + 1 ELSE Load(b)
<1> SUFFICES ASSUME NEW b \in IPs
             PROVE  Load(b)' = IF b = a THEN Load(b) + 1 ELSE Load(b)
  OBVIOUS
<1>1. IsFiniteSet(Holders(b))
  <2>1. Holders(b) \subseteq Nodes
    BY DEF Holders
  <2> QED
    BY <2>1, FS_Subset DEF BalancerConstants
<1>2. CASE b = a
  <2>1. Holders(b)' = Holders(b) \cup {n} /\ n \notin Holders(b)
    BY <1>2 DEF BalancerConstants, Holders, TypeOK
  <2> QED
    BY ZenonT(60), <1>1, <1>2, <2>1, FS_AddElement DEF Load
<1>3. CASE b # a
  <2>1. Holders(b)' = Holders(b)
    BY <1>3 DEF BalancerConstants, Holders, TypeOK
  <2> QED
    BY <1>3, <2>1 DEF Load
<1> QED
  BY <1>2, <1>3

\* No step of the balancer skews the loads: the IP that gets a node had the
\* least load, so it is at most one ahead of any other.
LEMMA AssignSkews ==
    ASSUME BalancerConstants, TypeOK, Next, NEW n \in Nodes,
           assigned[n] = NoIP, assigned'[n] # NoIP, NEW a \in IPs, NEW b \in IPs
    PROVE  \/ Load(a)' - Load(b)' <= 1
           \/ Load(a)' - Load(b)' <= Load(a) - Load(b)
<1>1. PICK m \in Nodes : Assign(m) \/ Release(m)
  BY DEF Next
<1>2. Assign(m) /\ m = n
  BY <1>1 DEF Assign, Release, TypeOK
<1>3. PICK c \in LeastLoaded : assigned' = [assigned EXCEPT ![n] = c]
  BY ZenonT(60), <1>2 DEF Assign
<1>4. c \in IPs /\ \A d \in IPs : Load(c) <= Load(d)
  BY DEF LeastLoaded
<1>5. \A d \in IPs : Load(d)' = IF d = c THEN Load(d) + 1 ELSE Load(d)
  BY ZenonT(60), <1>3, <1>4, LoadAssign
<1> QED
  BY <1>4, <1>5, LoadType

\* "ensuring even client distribution" (README.md:10): an assignment leaves no
\* IP more than one node ahead of another, unless it was that far ahead before.
THEOREM BalancerNeverSkews ==
    ASSUME BalancerConstants PROVE Spec => NeverSkews
<1>1. Init => TypeOK
  BY DEF Init, TypeOK
<1>2. TypeOK /\ [Next]_assigned => TypeOK'
  BY DEF TypeOK, Next, Assign, Release, LeastLoaded
<1> DEFINE Skews ==
      \A n \in Nodes : assigned[n] = NoIP /\ assigned'[n] # NoIP =>
          \A a, b \in IPs :
              \/ Load(a)' - Load(b)' <= 1
              \/ Load(a)' - Load(b)' <= Load(a) - Load(b)
<1>3. TypeOK /\ [Next]_assigned => [Skews]_assigned
  BY AssignSkews
<1>4. NeverSkews <=> [][Skews]_assigned
  BY PTL DEF NeverSkews
<1> HIDE DEF Skews
<1> QED
  BY <1>1, <1>2, <1>3, <1>4, PTL DEF Spec

=============================================================================
