------------------------- MODULE LBRefinementProofs -------------------------
(***************************************************************************)
(* The map of counts, in an environment that loses no reply and lets the   *)
(* controller start with all nodes. The counts are kept by the mutex, by   *)
(* the API server's check of the resourceVersion (CopiesTrue), and by the  *)
(* resync after a crash. From the counts: the controller implements the    *)
(* balancer.                                                               *)
(***************************************************************************)
EXTENDS LBRefinement, LBControllerProofs

ReliableStart == "lost" \notin Faults /\ "unsynced" \notin Faults

DownIdle == ~up => \A w \in Workers : pc[w] = "idle"

CountInv ==
    /\ TypeInv /\ LocksMatchCalls /\ CopiesTrue
    /\ DownIdle
    /\ orphans = {}
    /\ MapFollowsNodes

\* The nodes g are the nodes f with the value of n replaced.
Replaces(f, g, n, value) ==
    \A m \in Nodes : g[m] = IF m = n THEN value ELSE f[m]

\* A change of one node changes the counts of its old and its new value.
LEMMA CountUpdate ==
    ASSUME NEW f, NEW g, NEW n \in Nodes, NEW value, NEW a,
           Replaces(f, g, n, value)
    PROVE  CountNodes(g, a) =
               CountNodes(f, a) + (IF value = a THEN 1 ELSE 0)
                                - (IF f[n] = a THEN 1 ELSE 0)
<1> DEFINE S == {m \in Nodes : f[m] = a}
           T == {m \in Nodes : g[m] = a}
<1>1. IsFiniteSet(S) /\ IsFiniteSet(T)
  BY ConstantsAssumption, FS_Subset, S \subseteq Nodes, T \subseteq Nodes
<1>2. Cardinality(S) \in Nat /\ Cardinality(T) \in Nat
  BY <1>1, FS_CardinalityType
<1>3. g[n] = value /\ \A m \in Nodes : m # n => g[m] = f[m]
  BY DEF Replaces
<1>4. CASE (value = a) <=> (f[n] = a)
  <2>1. S = T
    BY <1>3, <1>4
  <2>2. CountNodes(g, a) = CountNodes(f, a) /\ CountNodes(f, a) \in Nat
    BY <1>2, <2>1 DEF CountNodes
  <2> QED
    BY <1>4, <2>2
<1>5. CASE value = a /\ f[n] # a
  <2>1. T = S \cup {n} /\ n \notin S
    BY <1>3, <1>5
  <2>2. Cardinality(T) = Cardinality(S) + 1
    BY <1>1, <2>1, FS_AddElement
  <2> QED
    BY <1>2, <1>5, <2>2 DEF CountNodes
<1>6. CASE value # a /\ f[n] = a
  <2>1. T = S \ {n} /\ n \in S
    BY <1>3, <1>6
  <2>2. Cardinality(T) = Cardinality(S) - 1
    BY ZenonT(60), <1>1, <2>1, FS_RemoveElement
  <2> QED
    BY <1>2, <1>6, <2>2 DEF CountNodes
<1> QED
  BY <1>4, <1>5, <1>6

\* Steps that leave alone the map, the nodes, and what the holder of the
\* mutex has to enter.
LEMMA MapQuiet ==
    ASSUME MapFollowsNodes, UNCHANGED <<up, ipMap, api>>,
           \A a \in IPs : Pending(a)' = Pending(a)
    PROVE  MapFollowsNodes'
BY DEF MapFollowsNodes, CountNodes

\* Nobody has anything to enter unless an update was applied.
LEMMA NothingPending ==
    ASSUME NEW a, mutex # None => pc[mutex] # "applied"
    PROVE  Pending(a) = 0
BY DEF Pending

\* Every step keeps the map with the nodes. Only an accepted update, its entry
\* into the map, a start and a deleted node change either side.
LEMMA CountStep ==
    ASSUME ReliableStart, CountInv, [Next]_vars
    PROVE  CountInv'
<1> USE ConstantsAssumption
<1> USE DEF kubeVars, procVars, callVars
<1>0. TypeInv /\ TypeOK /\ LocksMatchCalls /\ CopiesTrue /\ DownIdle
      /\ orphans = {} /\ MapFollowsNodes
  BY DEF CountInv, TypeInv
<1>1. TypeInv' /\ LocksMatchCalls' /\ CopiesTrue'
  BY <1>0, TypeStep, LocksStep, CopiesStep
<1>2. \A w \in Workers : mutex = w <=> pc[w] \in Busy
  BY <1>0 DEF LocksMatchCalls, Busy
<1>3. mutex # None => mutex \in Workers
  BY <1>0 DEF TypeOK
<1> DEFINE Goal == DownIdle' /\ orphans' = {} /\ MapFollowsNodes'
\* Steps of a call that does not hold the mutex, before and after.
<1>a. ASSUME NEW w \in Workers, pc[w] \notin Busy, mutex' = mutex, up,
             UNCHANGED <<api, orphans, up, ipMap>>,
             \A x \in Workers : x # w => /\ pc'[x] = pc[x] /\ ip'[x] = ip[x]
                                         /\ req'[x] = req[x]
      PROVE  Goal
  <2>1. mutex # w
    BY <1>a, <1>2
  <2>2. \A a \in IPs : Pending(a)' = Pending(a)
    BY <1>a, <1>3, <2>1 DEF Pending
  <2> QED
    BY <1>a, <1>0, <2>2, MapQuiet DEF DownIdle
\* Steps that begin and end with nothing to enter.
<1>b. ASSUME mutex # None => pc[mutex] # "applied",
             mutex' # None => pc'[mutex'] # "applied",
             up, UNCHANGED <<api, orphans, up, ipMap>>
      PROVE  Goal
  <2>1. \A a \in IPs : Pending(a) = 0
    BY <1>b, NothingPending
  <2>2. \A a \in IPs : Pending(a)' = 0
    BY <1>b DEF Pending
  <2> QED
    BY <1>b, <1>0, <2>1, <2>2, MapQuiet DEF DownIdle
\* A call runs only while the process does.
<1>c. ASSUME NEW w \in Workers, pc[w] # "idle" PROVE up
  BY <1>0, <1>c DEF DownIdle
<1>d. ASSUME NEW w \in Workers, NEW result, Return(w, result)
      PROVE  \A x \in Workers : x # w => /\ pc'[x] = pc[x] /\ ip'[x] = ip[x]
                                         /\ req'[x] = req[x]
  BY <1>0, <1>d DEF Return, TypeOK
<1>4. ASSUME NEW w \in Workers, NEW op \in Ops, NEW n \in Nodes,
             NEW v \in Volumes, Call(w, op, n, v)
      PROVE  Goal
  <2>1. /\ up /\ pc[w] \notin Busy /\ mutex' = mutex
        /\ UNCHANGED <<api, orphans, up, ipMap>>
        /\ \A x \in Workers : x # w => /\ pc'[x] = pc[x] /\ ip'[x] = ip[x]
                                       /\ req'[x] = req[x]
    BY <1>0, <1>4 DEF Call, Busy, TypeOK
  <2> QED
    BY <1>a, <2>1
<1>5. ASSUME NEW w \in Workers, GetNode(w) PROVE Goal
  <2>1. /\ pc[w] \notin Busy /\ mutex' = mutex /\ pc[w] # "idle"
        /\ UNCHANGED <<api, orphans, up, ipMap>>
        /\ \A x \in Workers : x # w => /\ pc'[x] = pc[x] /\ ip'[x] = ip[x]
                                       /\ req'[x] = req[x]
    BY <1>0, <1>5 DEF GetNode, Busy, TypeOK
  <2> QED
    BY ZenonT(60), <1>a, <1>c, <2>1
<1>6. ASSUME NEW w \in Workers,
             \/ AssignNotFound(w) \/ RemoveSkipped(w)
             \/ AssignExisting(w) \/ RemoveForeign(w)
      PROVE  Goal
  <2>1. /\ pc[w] \notin Busy /\ mutex' = mutex /\ pc[w] # "idle"
        /\ UNCHANGED <<api, orphans, up, ipMap>>
        /\ \E result : Return(w, result)
    BY <1>6
    DEF AssignNotFound, RemoveSkipped, AssignExisting, RemoveForeign,
                Succeed, Fail, Busy
  <2> QED
    BY <1>a, <1>c, <1>d, <2>1
<1>7. ASSUME NEW w \in Workers, AssignSend(w) \/ RemoveSend(w) PROVE Goal
  <2>1. /\ mutex = None /\ mutex' = w /\ pc'[w] = "put" /\ pc[w] # "idle"
        /\ UNCHANGED <<api, orphans, up, ipMap>>
    BY <1>0, <1>7 DEF AssignSend, RemoveSend, TypeOK
  <2> QED
    BY ZenonT(60), <1>b, <1>c, <2>1
<1>8. ASSUME NEW w \in Workers, PutRefused(w) PROVE Goal
  <2>1. /\ pc[w] = "put" /\ mutex' = mutex /\ pc'[w] = "refused"
        /\ UNCHANGED <<api, orphans, up, ipMap>>
    BY <1>0, <1>8 DEF PutRefused, TypeOK
  <2>2. mutex = w
    BY <1>2, <2>1 DEF Busy
  <2> QED
    BY <1>b, <1>c, <2>1, <2>2
<1>9. ASSUME NEW w \in Workers, PutFailed(w) PROVE Goal
  <2>1. /\ pc[w] = "refused" /\ mutex' = None
        /\ UNCHANGED <<api, orphans, up, ipMap>>
    BY <1>9 DEF PutFailed
  <2>2. mutex = w
    BY <1>2, <2>1 DEF Busy
  <2> QED
    BY <1>b, <1>c, <2>1, <2>2
<1>10. ASSUME NEW w \in Workers, PutApplied(w) PROVE Goal
  <2> DEFINE n == req[w].node
  <2>1. /\ pc[w] = "put" /\ current[w] /\ pc' = [pc EXCEPT ![w] = "applied"]
        /\ api' = [api EXCEPT ![n] = Update(w)]
        /\ orphans' = {o \in orphans : o[1] # n}
        /\ UNCHANGED <<mutex, up, ipMap, req, ip>>
    BY <1>10 DEF PutApplied, Store
  <2>2. mutex = w /\ up /\ pc'[w] = "applied"
    BY ZenonT(60), <1>0, <1>2, <1>c, <2>1 DEF Busy, TypeOK
  <2>3. /\ n \in Nodes /\ ip[w] \in IPs
        /\ req[w].op \in {"publish", "unpublish"}
    BY ZenonT(60), <1>0, <2>1 DEF TypeInv, TypeOK, BusyIP, Busy, Requests
  <2>4. IF req[w].op = "publish" THEN api[n] \notin IPs /\ Update(w) = ip[w]
                                 ELSE api[n] = ip[w] /\ Update(w) = NoIP
    BY <1>0, <2>1, <2>3 DEF CopiesTrue, Update
  <2>5. ASSUME NEW a \in IPs
        PROVE  /\ CountNodes(api', a) - Pending(a)' = CountNodes(api, a)
               /\ Pending(a) = 0 /\ Pending(a)' \in Int
    <3>1. CountNodes(api', a) = CountNodes(api, a)
              + (IF Update(w) = a THEN 1 ELSE 0) - (IF api[n] = a THEN 1 ELSE 0)
      <4>1. Replaces(api, api', n, Update(w))
        BY ZenonT(60), <1>0, <2>1 DEF TypeOK, Replaces
      <4>2. n \in Nodes
        BY <2>3
      <4> HIDE DEF n
      <4> QED
        BY <4>1, <4>2, CountUpdate
    <3>2. Pending(a)' = IF ip[w] # a THEN 0
                        ELSE IF req[w].op = "publish" THEN 1 ELSE -1
      BY <2>1, <2>2 DEF Pending
    <3>3. Pending(a) = 0
      BY <2>1, <2>2 DEF Pending
    <3>4. NoIP # a
      BY DEF Annotations
    <3>5. CountNodes(api, a) \in Nat
      BY CountType
    <3>6. CASE req[w].op = "publish"
      <4>1. api[n] # a /\ Update(w) = ip[w]
        BY <2>4, <3>6
      <4> QED
        BY <3>1, <3>2, <3>3, <3>5, <3>6, <4>1
    <3>7. CASE req[w].op # "publish"
      <4>1. api[n] = ip[w] /\ Update(w) # a
        BY <2>4, <3>4, <3>7
      <4> QED
        BY <3>1, <3>2, <3>3, <3>5, <3>7, <4>1
    <3> QED
      BY <3>6, <3>7
  <2>6. MapFollowsNodes'
    <3> SUFFICES ASSUME NEW a \in IPs
                 PROVE /\ ipMap[a] + Pending(a)' >= CountNodes(api', a)
                       /\ "churn" \notin Faults =>
                              ipMap[a] + Pending(a)' = CountNodes(api', a)
      BY ZenonT(60), <2>1 DEF MapFollowsNodes, CountNodes
    <3>1. /\ ipMap[a] >= CountNodes(api, a)
          /\ "churn" \notin Faults => ipMap[a] = CountNodes(api, a)
          /\ ipMap[a] \in Int
      BY <1>0, <2>2, <2>5 DEF MapFollowsNodes, TypeOK
    <3>2. CountNodes(api, a) \in Nat /\ CountNodes(api', a) \in Nat
      BY CountType
    <3> QED
      BY <2>5, <3>1, <3>2
  <2> QED
    BY <1>0, <2>1, <2>2, <2>6 DEF DownIdle
<1>11. ASSUME NEW w \in Workers, PutDone(w) PROVE Goal
  <2>1. /\ pc[w] = "applied" /\ mutex' = None
        /\ ipMap' = [ipMap EXCEPT ![ip[w]] =
                         IF req[w].op = "publish" THEN @ + 1 ELSE @ - 1]
        /\ UNCHANGED <<api, orphans, up>>
    BY <1>11 DEF PutDone
  <2>2. mutex = w /\ up /\ w # None
    BY <1>2, <1>c, <2>1 DEF Busy
  <2>3. ASSUME NEW a \in IPs
        PROVE  ipMap'[a] = ipMap[a] + Pending(a) /\ Pending(a)' = 0
    BY <1>0, <2>1, <2>2 DEF Pending, TypeOK
  <2>4. ASSUME NEW a \in IPs PROVE ipMap[a] + Pending(a) \in Int
    BY <1>0 DEF Pending, TypeOK
  <2>5. MapFollowsNodes'
    BY <1>0, <2>1, <2>2, <2>3, <2>4 DEF MapFollowsNodes, CountNodes
  <2> QED
    BY ZenonT(60), <1>0, <2>1, <2>2, <2>5 DEF DownIdle
<1>12. ASSUME NEW n \in Nodes, Deliver(n) PROVE Goal
  <2>1. UNCHANGED <<api, orphans, up, ipMap, mutex, pc, ip, req>>
    BY <1>12 DEF Deliver
  <2> QED
    BY <1>0, <2>1, MapQuiet DEF Pending, DownIdle
<1>13. ASSUME NEW n \in Nodes, Touch(n) \/ DeleteNode(n) \/ AddNode(n)
       PROVE  Goal
  <2>1. PICK value \in NodeValues :
            /\ api' = [api EXCEPT ![n] = value]
            /\ value \in IPs => value = api[n]
            /\ api[n] \in IPs /\ value # api[n] => "churn" \in Faults
    BY <1>0, <1>13
    DEF Touch, DeleteNode, AddNode, Store, TypeOK, NodeValues, Annotations
  <2>2. UNCHANGED <<up, ipMap, mutex, pc, ip, req>> /\ orphans' \subseteq orphans
    BY <1>13 DEF Touch, DeleteNode, AddNode, Store
  <2>3. ASSUME NEW a \in IPs
        PROVE  /\ CountNodes(api', a) <= CountNodes(api, a)
               /\ "churn" \notin Faults =>
                      CountNodes(api', a) = CountNodes(api, a)
    <3>1. CountNodes(api', a) = CountNodes(api, a)
              + (IF value = a THEN 1 ELSE 0) - (IF api[n] = a THEN 1 ELSE 0)
      <4>1. Replaces(api, api', n, value)
        BY <1>0, <2>1 DEF TypeOK, Replaces
      <4> QED
        BY <4>1, CountUpdate
    <3>2. CountNodes(api, a) \in Nat
      BY CountType
    <3> QED
      BY <2>1, <3>1, <3>2
  <2>4. \A a \in IPs : Pending(a)' = Pending(a)
    BY <2>2 DEF Pending
  <2>5. ASSUME up PROVE MapFollowsNodes'
    <3> SUFFICES ASSUME NEW a \in IPs
                 PROVE /\ ipMap[a] + Pending(a) >= CountNodes(api', a)
                       /\ "churn" \notin Faults =>
                              ipMap[a] + Pending(a) = CountNodes(api', a)
      BY <2>2, <2>4 DEF MapFollowsNodes, CountNodes
    <3>1. /\ CountNodes(api, a) \in Nat /\ CountNodes(api', a) \in Nat
          /\ ipMap[a] + Pending(a) \in Int
      BY <1>0, CountType DEF Pending, TypeOK
    <3> QED
      BY <1>0, <2>3, <2>5, <3>1 DEF MapFollowsNodes
  <2>6. MapFollowsNodes'
    BY <2>2, <2>5 DEF MapFollowsNodes
  <2> QED
    BY <1>0, <2>2, <2>6 DEF DownIdle
<1>14. ASSUME Start PROVE Goal
  <2>1. /\ ~up /\ up' /\ lister' = api /\ ipMap' = ResyncIPMap(lister')
        /\ UNCHANGED <<api, orphans, mutex, pc, ip, req>>
    BY <1>14 DEF Start
  <2>2. mutex = None
    BY <1>0, <1>2, <1>3, <2>1 DEF DownIdle, Busy
  <2>3. \A a \in IPs : Pending(a)' = 0
    BY <2>1, <2>2 DEF Pending
  <2>4. \A a \in IPs : ipMap'[a] = CountNodes(api, a) /\ ipMap'[a] \in Nat
    BY <2>1, CountType DEF ResyncIPMap
  <2>5. MapFollowsNodes'
    BY <2>1, <2>3, <2>4 DEF MapFollowsNodes, CountNodes
  <2> QED
    BY <1>0, <2>1, <2>5 DEF DownIdle
<1>15. ASSUME Crash PROVE Goal
  <2>1. up' = FALSE /\ orphans' = orphans /\ pc' = [w \in Workers |-> "idle"]
    BY <1>15 DEF Crash, ReliableStart
  <2> QED
    BY <1>0, <2>1 DEF DownIdle, MapFollowsNodes
<1>16. ASSUME StopSignal \/ UNCHANGED vars PROVE Goal
  <2>1. UNCHANGED <<api, orphans, up, ipMap, mutex, pc, ip, req>>
    BY <1>16 DEF StopSignal, vars
  <2> QED
    BY <1>0, <2>1, MapQuiet DEF Pending, DownIdle
<1>17. \A w \in Workers : ~PutLost(w)
  BY ZenonT(60) DEF PutLost, ReliableStart
<1>18. \A n \in Nodes, value \in IPs \cup {NoIP} : ~OrphanLands(n, value)
  BY <1>0 DEF OrphanLands
<1>19. ~StartUnsynced
  BY DEF StartUnsynced, ReliableStart
<1>20. Goal
  BY <1>4, <1>5, <1>6, <1>7, <1>8, <1>9, <1>10,
     <1>11, <1>12, <1>13, <1>14,
     <1>15, <1>16, <1>17, <1>18, <1>19 DEF Next, CallStep, NodeStep
<1> QED
  BY <1>1, <1>20 DEF CountInv

\* Nothing runs at first, so there is no map to be wrong.
LEMMA InitCount == Init => CountInv
<1>1. Init => LocksMatchCalls
  <2>1. Init => mutex = None /\ locks = {} /\ pc = [w \in Workers |-> "idle"]
    BY DEF Init, NewVolumeLocks
  <2> QED
    BY <2>1, ConstantsAssumption DEF LocksMatchCalls
<1>2. Init => up = FALSE /\ orphans = {} /\ pc = [w \in Workers |-> "idle"]
  BY DEF Init
<1> QED
  BY <1>1, <1>2, InitType, InitCopies
  DEF CountInv, DownIdle, MapFollowsNodes

\* When no reply is lost and every start sees all nodes, the map never counts
\* too few nodes for an IP, even if node objects are deleted and created again.
THEOREM CountsCover ==
    ASSUME ReliableStart
    PROVE  Spec => []CountCovers
<1>1. CountInv /\ [Next]_vars => CountInv'
  BY CountStep
<1>2. CountInv => CountCovers
  <2> SUFFICES ASSUME CountInv, up, mutex = None, NEW a \in IPs
               PROVE  ipMap[a] >= CountNodes(api, a)
    BY DEF CountCovers
  <2>1. Pending(a) = 0 /\ ipMap[a] \in Int
    BY DEF Pending, CountInv, TypeInv, TypeOK
  <2> QED
    BY <2>1 DEF CountInv, MapFollowsNodes
<1> QED
  BY <1>1, <1>2, InitCount, PTL DEF Spec

\* When also no node object is deleted, the map counts exactly the annotated
\* nodes: crashes, stale caches, conflicting updates, annotations of another
\* IP list and any interleaving of calls do not make it drift.
THEOREM CountsMatch ==
    ASSUME ReliableStart, "churn" \notin Faults
    PROVE  Spec => []CountMatches
<1>1. CountInv /\ [Next]_vars => CountInv'
  BY CountStep
<1>2. CountInv => CountMatches
  <2> SUFFICES ASSUME CountInv, up, mutex = None, NEW a \in IPs
               PROVE  ipMap[a] = CountNodes(api, a)
    BY DEF CountMatches
  <2>1. Pending(a) = 0 /\ ipMap[a] \in Int
    BY DEF Pending, CountInv, TypeInv, TypeOK
  <2> QED
    BY <2>1 DEF CountInv, MapFollowsNodes
<1> QED
  BY <1>1, <1>2, InitCount, PTL DEF Spec

-----------------------------------------------------------------------------
(***************************************************************************)
(* The controller implements the balancer, for any number of nodes, IPs,   *)
(* volumes and goroutines, with crashes, stale caches, refused updates and *)
(* annotations of other IP lists, as long as no reply is lost, every start *)
(* sees all nodes, and node objects are not deleted.                       *)
(***************************************************************************)

\* The IP of an assignment on its way to the API server still has the least
\* count: the map does not change while the mutex is held.
ChosenInv ==
    \A w \in Workers :
        pc[w] = "put" /\ req[w].op = "publish" => ip[w] \in LeastUsed

RefInv == CountInv /\ ChosenInv

\* Every step keeps ChosenInv. Only AssignSend chooses; only PutDone, which ends
\* the call that holds the mutex, a start and a crash change the map.
LEMMA ChosenStep ==
    ASSUME RefInv, [Next]_vars PROVE ChosenInv'
<1> USE ConstantsAssumption
<1> USE DEF kubeVars, procVars, callVars
<1>0. TypeOK /\ LocksMatchCalls /\ DownIdle /\ ChosenInv
  BY DEF RefInv, CountInv, TypeInv
<1>1. \A w \in Workers : mutex = w <=> pc[w] \in Busy
  BY <1>0 DEF LocksMatchCalls, Busy
\* Steps that leave the map alone and put nobody but w into "put".
<1>a. ASSUME NEW w \in Workers, UNCHANGED ipMap, pc'[w] # "put",
             \A x \in Workers : x # w => /\ pc'[x] = pc[x] /\ ip'[x] = ip[x]
                                         /\ req'[x] = req[x]
      PROVE  ChosenInv'
  BY <1>0, <1>a DEF ChosenInv, LeastUsed
<1>b. ASSUME UNCHANGED <<ipMap, pc, ip, req>> PROVE ChosenInv'
  BY <1>0, <1>b DEF ChosenInv, LeastUsed
<1>c. ASSUME \A w \in Workers : pc'[w] # "put" PROVE ChosenInv'
  BY <1>c DEF ChosenInv
<1>d. ASSUME NEW w \in Workers, NEW result, Return(w, result)
      PROVE  /\ pc'[w] # "put"
             /\ \A x \in Workers : x # w => /\ pc'[x] = pc[x] /\ ip'[x] = ip[x]
                                            /\ req'[x] = req[x]
  BY <1>0, <1>d DEF Return, TypeOK
<1>2. ASSUME NEW w \in Workers, NEW op \in Ops, NEW n \in Nodes,
             NEW v \in Volumes, Call(w, op, n, v)
      PROVE  ChosenInv'
  <2>1. /\ UNCHANGED ipMap /\ pc'[w] # "put"
        /\ \A x \in Workers : x # w => /\ pc'[x] = pc[x] /\ ip'[x] = ip[x]
                                       /\ req'[x] = req[x]
    BY <1>0, <1>2 DEF Call, TypeOK
  <2> QED
    BY <1>a, <2>1
<1>3. ASSUME NEW w \in Workers, GetNode(w) \/ PutApplied(w) \/ PutRefused(w)
      PROVE  ChosenInv'
  <2>1. /\ UNCHANGED ipMap /\ pc'[w] # "put"
        /\ \A x \in Workers : x # w => /\ pc'[x] = pc[x] /\ ip'[x] = ip[x]
                                       /\ req'[x] = req[x]
    BY <1>0, <1>3 DEF GetNode, PutApplied, PutRefused, TypeOK
  <2> QED
    BY <1>a, <2>1
<1>4. ASSUME NEW w \in Workers,
             \/ AssignNotFound(w) \/ RemoveSkipped(w) \/ AssignExisting(w)
             \/ RemoveForeign(w) \/ PutFailed(w) \/ PutLost(w)
      PROVE  ChosenInv'
  <2>1. UNCHANGED ipMap /\ \E result : Return(w, result)
    BY <1>4 DEF AssignNotFound, RemoveSkipped, AssignExisting, RemoveForeign,
                PutFailed, PutLost, Succeed, Fail
  <2> QED
    BY <1>a, <1>d, <2>1
<1>5. ASSUME NEW w \in Workers, AssignSend(w) PROVE ChosenInv'
  <2>1. /\ UNCHANGED <<ipMap, req>> /\ ip'[w] \in LeastUsed
        /\ \A x \in Workers : x # w => pc'[x] = pc[x] /\ ip'[x] = ip[x]
    BY <1>0, <1>5 DEF AssignSend, TypeOK
  <2> QED
    BY <1>0, <2>1 DEF ChosenInv, LeastUsed
<1>6. ASSUME NEW w \in Workers, RemoveSend(w) PROVE ChosenInv'
  <2>1. /\ UNCHANGED <<ipMap, req, ip>> /\ req[w].op # "publish"
        /\ \A x \in Workers : x # w => pc'[x] = pc[x]
    BY <1>0, <1>6 DEF RemoveSend, TypeOK
  <2> QED
    BY <1>0, <2>1 DEF ChosenInv, LeastUsed
<1>7. ASSUME NEW w \in Workers, PutDone(w) PROVE ChosenInv'
  <2>1. pc[w] = "applied" /\ \E result : Return(w, result)
    BY <1>7 DEF PutDone, Succeed
  <2>2. \A x \in Workers : x # w => pc[x] # "put"
    BY <1>1, <2>1 DEF Busy
  <2> QED
    BY <1>c, <1>d, <2>1, <2>2
<1>8. ASSUME NEW n \in Nodes, NodeStep(n) PROVE ChosenInv'
  BY <1>b, <1>8 DEF NodeStep, Deliver, Touch, DeleteNode, AddNode
<1>9. ASSUME NEW n \in Nodes, NEW value, OrphanLands(n, value) PROVE ChosenInv'
  BY <1>b, <1>9 DEF OrphanLands
<1>10. ASSUME Start \/ StartUnsynced PROVE ChosenInv'
  <2>1. ~up /\ pc' = pc
    BY <1>10 DEF Start, StartUnsynced
  <2> QED
    BY <1>0, <1>c, <2>1 DEF DownIdle
<1>11. ASSUME Crash PROVE ChosenInv'
  BY <1>c, <1>11 DEF Crash
<1>12. ASSUME StopSignal \/ UNCHANGED vars PROVE ChosenInv'
  BY <1>b, <1>12 DEF StopSignal, vars
<1> QED
  BY <1>2, <1>3, <1>4, <1>5, <1>6, <1>7, <1>8,
     <1>9, <1>10, <1>11, <1>12
  DEF Next, CallStep

\* The loads of the balancer are the counts of the annotations.
LEMMA LoadIsCount ==
    \A a \in IPs : Balancer!Load(a) = CountNodes(api, a)
<1> SUFFICES ASSUME NEW a \in IPs
             PROVE  Balancer!Load(a) = CountNodes(api, a)
  OBVIOUS
<1>1. {n \in Nodes : Assigned[n] = a} = {n \in Nodes : api[n] = a}
  BY ConstantsAssumption DEF Assigned, Annotations
\* Both modules take Cardinality from FiniteSets.
<1>2. \A S : Balancer!Cardinality(S) = Cardinality(S)
  BY DEF Balancer!Cardinality, Cardinality
<1> QED
  BY <1>1, <1>2 DEF Balancer!Load, Balancer!Holders, CountNodes

\* A step that keeps or replaces an annotation outside the list by another one,
\* or leaves all alone, is none of the balancer's.
LEMMA AssignedQuiet ==
    ASSUME \A n \in Nodes : api'[n] = api[n]
    PROVE  Assigned' = Assigned
BY DEF Assigned

\* The step in which the API server accepts an update is a step of the
\* balancer: for an assignment the map, which is exact, chose the IP.
LEMMA AppliedRefines ==
    ASSUME RefInv, "churn" \notin Faults, NEW w \in Workers, PutApplied(w)
    PROVE  Balancer!Next
<1> USE ConstantsAssumption
<1> DEFINE n == req[w].node
<1>0. TypeOK /\ LocksMatchCalls /\ CopiesTrue /\ DownIdle /\ MapFollowsNodes
  BY DEF RefInv, CountInv, TypeInv
<1>1. /\ pc[w] = "put" /\ current[w]
      /\ api' = [api EXCEPT ![n] = Update(w)]
  BY DEF PutApplied, Store
<1>2. n \in Nodes /\ ip[w] \in IPs /\ req[w].op \in {"publish", "unpublish"}
  BY <1>0, <1>1 DEF RefInv, CountInv, TypeInv, TypeOK, BusyIP, Busy, Requests
<1>3. up /\ mutex = w
  BY <1>0, <1>1 DEF DownIdle, LocksMatchCalls
<1>4. \A a \in IPs : ipMap[a] = CountNodes(api, a)
  <2> SUFFICES ASSUME NEW a \in IPs PROVE ipMap[a] = CountNodes(api, a)
    OBVIOUS
  <2>1. Pending(a) = 0 /\ ipMap[a] \in Int
    BY <1>0, <1>1, <1>3 DEF Pending, TypeOK
  <2> QED
    BY <1>0, <1>3, <2>1 DEF MapFollowsNodes
<1>5. CASE req[w].op = "publish"
  <2>1. api[n] \notin IPs /\ Update(w) = ip[w]
    BY <1>0, <1>1, <1>5 DEF CopiesTrue, Update
  <2>2. Assigned[n] = NoIP /\ Assigned' = [Assigned EXCEPT ![n] = ip[w]]
    BY ZenonT(60), <1>0, <1>1, <1>2, <2>1 DEF Assigned, TypeOK
  <2>3. ip[w] \in Balancer!LeastLoaded
    BY <1>1, <1>2, <1>4, <1>5, LoadIsCount
    DEF Balancer!LeastLoaded, RefInv, ChosenInv, LeastUsed
  <2> QED
    BY ZenonT(60), <1>2, <2>2, <2>3 DEF Balancer!Next, Balancer!Assign
<1>6. CASE req[w].op = "unpublish"
  <2>1. api[n] = ip[w] /\ Update(w) = NoIP
    BY <1>0, <1>1, <1>6 DEF CopiesTrue, Update
  <2>2. Assigned[n] # NoIP /\ Assigned' = [Assigned EXCEPT ![n] = NoIP]
    BY ZenonT(60), <1>0, <1>1, <1>2, <2>1 DEF Assigned, TypeOK, Annotations
  <2> QED
    BY ZenonT(60), <1>2, <2>2 DEF Balancer!Next, Balancer!Release
<1> QED
  BY <1>2, <1>5, <1>6

\* Every step of the controller is a step of the balancer or none.
LEMMA StepRefines ==
    ASSUME RefInv, ReliableStart, "churn" \notin Faults, [Next]_vars
    PROVE  Balancer!Next \/ Assigned' = Assigned
<1> USE DEF kubeVars, procVars, callVars
<1>1. ASSUME UNCHANGED api PROVE Assigned' = Assigned
  BY <1>1, AssignedQuiet
<1>2. ASSUME NEW n \in Nodes, Touch(n) PROVE Assigned' = Assigned
  <2>1. \A m \in Nodes : api'[m] = api[m]
    BY <1>2 DEF Touch, Store, RefInv, CountInv, TypeInv, TypeOK
  <2> QED
    BY <2>1, AssignedQuiet
<1>3. \A n \in Nodes : ~DeleteNode(n) /\ ~AddNode(n)
  BY DEF DeleteNode, AddNode
<1>4. \A n \in Nodes, value \in IPs \cup {NoIP} : ~OrphanLands(n, value)
  BY DEF OrphanLands, RefInv, CountInv
<1>5. ASSUME NEW w \in Workers, PutApplied(w) PROVE Balancer!Next
  BY <1>5, AppliedRefines
<1>6. ASSUME NEW w \in Workers, NEW op \in Ops, NEW n \in Nodes,
             NEW v \in Volumes, Call(w, op, n, v)
      PROVE  UNCHANGED api
  BY <1>6 DEF Call
<1>7. ASSUME NEW w \in Workers, CallStep(w) \/ PutRefused(w) \/ PutLost(w)
      PROVE  UNCHANGED api
  BY <1>7
  DEF CallStep, GetNode, AssignNotFound, RemoveSkipped, AssignExisting,
      RemoveForeign, AssignSend, RemoveSend, PutDone, PutFailed, PutRefused,
      PutLost
<1>8. ASSUME \/ Start \/ StartUnsynced \/ StopSignal \/ Crash
             \/ \E n \in Nodes : Deliver(n)
             \/ UNCHANGED vars
      PROVE  UNCHANGED api
  BY <1>8 DEF Start, StartUnsynced, StopSignal, Crash, Deliver, vars
<1> QED
  BY <1>1, <1>2, <1>3, <1>4, <1>5, <1>6, <1>7, <1>8 DEF Next, NodeStep

\* The initial states are initial states of the balancer.
LEMMA InitRefines == Init => Balancer!Init
BY DEF Init, Balancer!Init, Assigned

\* At the moment the API server accepts an assignment, the assigned IP is one
\* with the fewest annotated nodes, although it was chosen earlier, from a map
\* in memory, for a copy of the node out of a cache.
THEOREM Refinement ==
    ASSUME ReliableStart, "churn" \notin Faults
    PROVE  Spec => ImplementsBalancer
<1>1. Init => RefInv
  <2>1. Init => \A w \in Workers : pc[w] # "put"
    BY DEF Init
  <2> QED
    BY <2>1, InitCount DEF RefInv, ChosenInv
<1>2. RefInv /\ [Next]_vars => RefInv'
  BY CountStep, ChosenStep DEF RefInv
<1>3. RefInv /\ [Next]_vars => [Balancer!Next]_Assigned
  BY StepRefines
<1> QED
  BY <1>1, <1>2, <1>3, InitRefines, PTL
  DEF Spec, ImplementsBalancer, Balancer!Spec

EvenBalancer == INSTANCE IPBalancerProofs WITH assigned <- Assigned

\* No assignment the API server accepts skews the distribution of the
\* annotations over the IPs: what the balancer keeps, the controller keeps.
THEOREM AssignsEvenly ==
    ASSUME ReliableStart, "churn" \notin Faults
    PROVE  Spec => AssignNeverSkews
<1>1. EvenBalancer!BalancerConstants
  BY ConstantsAssumption
  DEF EvenBalancer!BalancerConstants, EvenBalancer!IsFiniteSet, IsFiniteSet,
      Annotations
<1>2. EvenBalancer!Spec => EvenBalancer!NeverSkews
  BY <1>1, EvenBalancer!BalancerNeverSkews, PTL
<1>3. Balancer!Init <=> EvenBalancer!Init
  BY DEF Balancer!Init, EvenBalancer!Init
<1>4. Balancer!Next <=> EvenBalancer!Next
  BY DEF Balancer!Next, Balancer!Assign, Balancer!Release,
         Balancer!LeastLoaded, Balancer!Load, Balancer!Holders,
         Balancer!Cardinality, EvenBalancer!Next, EvenBalancer!Assign,
         EvenBalancer!Release, EvenBalancer!LeastLoaded, EvenBalancer!Load,
         EvenBalancer!Holders, EvenBalancer!Cardinality
<1> DEFINE Even ==
          \A n \in Nodes : Assigned[n] = NoIP /\ Assigned'[n] # NoIP =>
              \A a, b \in IPs :
                  \/ EvenBalancer!Load(a)' - EvenBalancer!Load(b)' <= 1
                  \/ EvenBalancer!Load(a)' - EvenBalancer!Load(b)'
                         <= EvenBalancer!Load(a) - EvenBalancer!Load(b)
       Skews ==
          \A n \in Nodes : Assigned[n] = NoIP /\ Assigned'[n] # NoIP =>
              \A a, b \in IPs :
                  \/ Balancer!Load(a)' - Balancer!Load(b)' <= 1
                  \/ Balancer!Load(a)' - Balancer!Load(b)'
                         <= Balancer!Load(a) - Balancer!Load(b)
<1>5. Even => Skews
  <2>1. \A S : Balancer!Cardinality(S) = EvenBalancer!Cardinality(S)
    BY DEF Balancer!Cardinality, EvenBalancer!Cardinality
  <2>2. ASSUME NEW a
        PROVE  /\ Balancer!Load(a) = EvenBalancer!Load(a)
               /\ Balancer!Load(a)' = EvenBalancer!Load(a)'
    BY <2>1 DEF Balancer!Load, Balancer!Holders, EvenBalancer!Load,
                EvenBalancer!Holders
  <2> QED
    BY <2>2
<1>6. EvenBalancer!NeverSkews <=> [][Even]_Assigned
  BY PTL DEF EvenBalancer!NeverSkews
<1>7. AssignNeverSkews <=> [][Skews]_Assigned
  BY PTL DEF AssignNeverSkews, Balancer!NeverSkews
<1> HIDE DEF Even, Skews
<1> QED
  BY <1>2, <1>3, <1>4, <1>5, <1>6, <1>7, Refinement, PTL
  DEF ImplementsBalancer, Balancer!Spec, EvenBalancer!Spec

=============================================================================
