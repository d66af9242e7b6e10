------------------------- MODULE LBControllerProofs -------------------------
(***************************************************************************)
(* Safety of LBController for any number of nodes, volumes, IPs and calls. *)
(***************************************************************************)
EXTENDS LBController, FiniteSetTheorems, TLAPS

Busy == {"put", "applied", "refused"}

\* A call that has sent its update works with an IP of the list; only then is
\* TypeOK kept by what it returns and counts.
BusyIP == \A w \in Workers : pc[w] \in Busy => ip[w] \in IPs

TypeInv == TypeOK /\ BusyIP

\* A count of nodes is a natural number.
LEMMA CountType ==
    ASSUME NEW f, NEW a
    PROVE  CountNodes(f, a) \in Nat
BY ConstantsAssumption, FS_Subset, FS_CardinalityType,
   {n \in Nodes : f[n] = a} \subseteq Nodes DEF CountNodes

\* The types are kept by a new version of a node.
LEMMA StoreType ==
    ASSUME TypeOK, NEW n \in Nodes, NEW value \in NodeValues, Store(n, value)
    PROVE  /\ api' \in [Nodes -> NodeValues]
           /\ watch' \in [Nodes -> Seq(NodeValues)]
           /\ current' \in [Workers -> BOOLEAN]
           /\ orphans' \subseteq orphans
<1>1. api' \in [Nodes -> NodeValues]
  BY DEF Store, TypeOK
<1>2. watch' \in [Nodes -> Seq(NodeValues)]
  <2>1. watch[n] \in Seq(NodeValues)
    BY DEF TypeOK
  <2>2. Append(watch[n], value) \in Seq(NodeValues)
    BY <2>1
  <2>3. <<value>> \in Seq(NodeValues)
    OBVIOUS
  <2> QED
    BY <2>2, <2>3 DEF Store, TypeOK
<1>3. current' \in [Workers -> BOOLEAN]
  <2>1. ASSUME NEW w \in Workers
        PROVE  (current[w] /\ req[w].node # n) \in BOOLEAN
    OBVIOUS
  <2> QED
    BY <2>1, Zenon DEF Store
<1>4. orphans' \subseteq orphans
  BY DEF Store
<1> QED
  BY <1>1, <1>2, <1>3, <1>4

\* The types are kept by every step of the controller and its environment.
LEMMA TypeStep ==
    TypeInv /\ [Next]_vars => TypeInv'
<1> SUFFICES ASSUME TypeInv, [Next]_vars PROVE TypeInv'
  OBVIOUS
<1> USE ConstantsAssumption
<1> USE DEF TypeInv, TypeOK, BusyIP, Busy, PCs, Annotations, NodeValues,
            kubeVars, procVars, callVars, Keys, Requests, NoCall
<1>1. ASSUME NEW w \in Workers, NEW op \in Ops, NEW n \in Nodes,
             NEW v \in Volumes, Call(w, op, n, v)
      PROVE  TypeInv'
  <2> DEFINE r == [op |-> op, node |-> n, vol |-> v]
  <2>1. r \in Requests /\ r.node = n /\ r.vol = v
    BY ZenonT(60) DEF Requests
  <2>2. /\ req' = [req EXCEPT ![w] = r]
        /\ locks' = locks \cup {<<r.node, r.vol>>}
        /\ pc' = [pc EXCEPT ![w] = "get"]
        /\ UNCHANGED <<api, lister, watch, orphans, up, informer, ipMap,
                       mutex, ip, current, published>>
    BY <1>1, Zenon DEF Call, Acquired, LockingVolumeID
  <2> HIDE DEF r
  <2> QED
    BY <2>1, <2>2
<1>2. ASSUME NEW w \in Workers, GetNode(w) PROVE TypeInv'
  BY <1>2 DEF GetNode
<1>3. ASSUME NEW w \in Workers, AssignNotFound(w) PROVE TypeInv'
  BY <1>3 DEF AssignNotFound, Fail, Return, Released, LockingVolumeID
<1>4. ASSUME NEW w \in Workers, RemoveSkipped(w) PROVE TypeInv'
  BY <1>4 DEF RemoveSkipped, Succeed, Return, Released, LockingVolumeID
<1>5. ASSUME NEW w \in Workers, AssignExisting(w) PROVE TypeInv'
  BY <1>5 DEF AssignExisting, Succeed, Return, Released, LockingVolumeID
<1>6. ASSUME NEW w \in Workers, RemoveForeign(w) PROVE TypeInv'
  BY <1>6 DEF RemoveForeign, Succeed, Return, Released, LockingVolumeID
<1>7. ASSUME NEW w \in Workers, AssignSend(w) PROVE TypeInv'
  BY <1>7 DEF AssignSend, LeastUsed
<1>8. ASSUME NEW w \in Workers, RemoveSend(w) PROVE TypeInv'
  BY <1>8 DEF RemoveSend
<1>9. ASSUME NEW w \in Workers, PutApplied(w) PROVE TypeInv'
  BY <1>9, StoreType DEF PutApplied, Update
<1>10. ASSUME NEW w \in Workers, PutRefused(w) PROVE TypeInv'
  BY <1>10 DEF PutRefused
<1>11. ASSUME NEW w \in Workers, PutDone(w) PROVE TypeInv'
  BY <1>11 DEF PutDone, Succeed, Return, Released, LockingVolumeID
<1>12. ASSUME NEW w \in Workers, PutFailed(w) PROVE TypeInv'
  BY ZenonT(60), <1>12 DEF PutFailed, Fail, Return, Released, LockingVolumeID
<1>13. ASSUME NEW w \in Workers, PutLost(w) PROVE TypeInv'
  BY <1>13 DEF PutLost, Fail, Return, Released, LockingVolumeID, InFlight,
               Update
<1>14. ASSUME NEW n \in Nodes, Deliver(n) PROVE TypeInv'
  BY <1>14 DEF Deliver
<1>15. ASSUME NEW n \in Nodes, Touch(n) PROVE TypeInv'
  BY <1>15, StoreType DEF Touch
<1>16. ASSUME NEW n \in Nodes, DeleteNode(n) PROVE TypeInv'
  BY <1>16, StoreType DEF DeleteNode
<1>17. ASSUME NEW n \in Nodes, AddNode(n) PROVE TypeInv'
  BY <1>17, StoreType DEF AddNode
<1>18. ASSUME NEW n \in Nodes, NEW value \in IPs \cup {NoIP},
              OrphanLands(n, value)
       PROVE  TypeInv'
  BY <1>18, StoreType DEF OrphanLands
<1>19. CASE Start
  BY <1>19, CountType DEF Start, ResyncIPMap
<1>20. CASE StartUnsynced
  BY <1>20, CountType DEF StartUnsynced, ResyncIPMap
<1>21. CASE StopSignal
  BY ZenonT(60), <1>21 DEF StopSignal
<1>22. CASE Crash
  <2>1. ASSUME NEW w \in Workers
        PROVE  InFlight(w) \subseteq Nodes \X (IPs \cup {NoIP})
    BY DEF InFlight, Update
  <2>2. orphans \cup UNION {InFlight(w) : w \in Workers}
            \subseteq Nodes \X (IPs \cup {NoIP})
    <3> HIDE DEF TypeInv
    <3>1. orphans \subseteq Nodes \X (IPs \cup {NoIP})
      BY DEF TypeInv
    <3> QED
      BY <2>1, <3>1, ZenonT(60)
  <2>3. /\ orphans' \subseteq orphans \cup UNION {InFlight(w) : w \in Workers}
        /\ UNCHANGED <<api, lister, watch, published>>
        /\ up' = FALSE /\ informer' = FALSE /\ mutex' = None /\ locks' = {}
        /\ ipMap' = [a \in IPs |-> 0]
        /\ pc' = [w \in Workers |-> "idle"]
        /\ req' = [w \in Workers |-> NoCall]
        /\ ip' = [w \in Workers |-> NoIP]
    BY <1>22, Zenon DEF Crash, NewVolumeLocks
  <2>4. orphans' \subseteq Nodes \X (IPs \cup {NoIP})
    BY <2>2, <2>3, ZenonT(60)
  <2>5. current' \in [Workers -> BOOLEAN]
    BY <1>22, Zenon DEF Crash
  <2>6. /\ pc' \in [Workers -> PCs]
        /\ \A w \in Workers : pc'[w] = "idle"
    BY <2>3
  <2>7. /\ ipMap' \in [IPs -> Int]
        /\ ip' \in [Workers -> Annotations \cup {NoIP}]
    BY <2>3
  <2> HIDE DEF TypeInv, BusyIP, NoCall, Requests
  <2>8. req' \in [Workers -> Requests \cup {NoCall}]
    BY <2>3, ZenonT(60)
  <2>9. TypeOK'
    BY <2>3, <2>4, <2>5, <2>6, <2>7, <2>8, ZenonT(60) DEF TypeInv
  <2> QED
    BY <2>6, <2>9 DEF TypeInv, BusyIP
<1>23. CASE UNCHANGED vars
  BY <1>23 DEF vars
<1> QED
  BY ZenonT(60), <1>1, <1>2, <1>3, <1>4, <1>5, <1>6, <1>7, <1>8,
     <1>9, <1>10, <1>11,
     <1>12, <1>13, <1>14, <1>15, <1>16, <1>17, <1>18, <1>19, <1>20, <1>21,
     <1>22, <1>23 DEF Next, CallStep, NodeStep

\* The types hold at first.
LEMMA InitType == Init => TypeInv
<1> SUFFICES ASSUME Init PROVE TypeInv
  OBVIOUS
<1>1. current \in [Workers -> BOOLEAN]
  BY Zenon DEF Init
<1>2. /\ watch = [n \in Nodes |-> <<>>]
      /\ api \in [Nodes -> NodeValues] /\ lister = api /\ orphans = {}
      /\ up = FALSE /\ informer = FALSE /\ ipMap = [a \in IPs |-> 0]
      /\ mutex = None /\ locks = {} /\ pc = [w \in Workers |-> "idle"]
      /\ req = [w \in Workers |-> NoCall] /\ ip = [w \in Workers |-> NoIP]
      /\ published = [k \in Keys |-> NoIP]
  BY DEF Init, NewVolumeLocks
<1>3. /\ pc \in [Workers -> PCs]
      /\ \A w \in Workers : pc[w] = "idle"
  BY <1>2 DEF PCs
<1>4. /\ watch \in [Nodes -> Seq(NodeValues)]
      /\ ipMap \in [IPs -> Int]
      /\ published \in [Keys -> IPs \cup {NoIP}]
      /\ ip \in [Workers -> Annotations \cup {NoIP}]
  BY <1>2
<1>5. req \in [Workers -> Requests \cup {NoCall}]
  BY <1>2, ZenonT(60)
<1>6. TypeOK
  BY <1>1, <1>2, <1>3, <1>4, <1>5, Zenon DEF TypeOK
<1> QED
  BY <1>3, <1>6 DEF TypeInv, BusyIP, Busy

\* Every value the program and its environment hold has its type, and a call
\* that has sent its update holds an IP of the list.
THEOREM TypeCorrect == Spec => []TypeOK
<1> QED
  BY InitType, TypeStep, PTL DEF Spec, TypeInv

-----------------------------------------------------------------------------
(***************************************************************************)
(* The mutex and the volume locks.                                         *)
(***************************************************************************)

\* A handler that returns gives back its volume lock, and no other.
LEMMA ReturnLocks ==
    ASSUME TypeOK, LocksMatchCalls, NEW w \in Workers, NEW result,
           pc[w] # "idle", Return(w, result),
           mutex' = IF mutex = w THEN None ELSE mutex
    PROVE  LocksMatchCalls'
<1>1. pc' = [pc EXCEPT ![w] = "idle"] /\ req' = [req EXCEPT ![w] = NoCall]
      /\ locks' = locks \ {LockingVolumeID(req[w])}
  BY DEF Return, Released
<1>2. \A x \in Workers : x # w => pc'[x] = pc[x] /\ req'[x] = req[x]
  BY <1>1 DEF TypeOK
<1>3. pc'[w] = "idle"
  BY <1>1 DEF TypeOK
<1>4. \A x \in Workers : mutex' = x <=> pc'[x] \in {"put", "applied", "refused"}
  BY <1>2, <1>3, ConstantsAssumption DEF LocksMatchCalls, TypeOK
<1>5. \A x \in Workers : pc[x] # "idle" /\ x # w
                         => LockingVolumeID(req[x]) # LockingVolumeID(req[w])
  BY DEF LocksMatchCalls
<1>6. locks' = {LockingVolumeID(req'[x]) :
                    x \in {y \in Workers : pc'[y] # "idle"}}
  BY <1>1, <1>2, <1>3, <1>5 DEF LocksMatchCalls
<1>7. \A x, y \in Workers :
          /\ pc'[x] # "idle" /\ pc'[y] # "idle"
          /\ LockingVolumeID(req'[x]) = LockingVolumeID(req'[y])
          => x = y
  BY <1>2, <1>3 DEF LocksMatchCalls
<1> QED
  BY <1>4, <1>6, <1>7 DEF LocksMatchCalls, LockingVolumeID

\* A step inside a call keeps its volume lock; it may take the mutex.
LEMMA InnerLocks ==
    ASSUME TypeOK, LocksMatchCalls, NEW w \in Workers, NEW q \in PCs,
           pc[w] # "idle", q # "idle", pc' = [pc EXCEPT ![w] = q],
           UNCHANGED <<req, locks>>,
           \/ /\ mutex = None /\ mutex' = w /\ q \in Busy
           \/ mutex' = mutex /\ (q \in Busy <=> pc[w] \in Busy)
    PROVE  LocksMatchCalls'
<1>1. \A x \in Workers : pc'[x] = IF x = w THEN q ELSE pc[x]
  BY DEF TypeOK
<1>2. {y \in Workers : pc'[y] # "idle"} = {y \in Workers : pc[y] # "idle"}
  BY <1>1
<1>3. \A x \in Workers : mutex' = x <=> pc'[x] \in {"put", "applied", "refused"}
  BY <1>1, ConstantsAssumption DEF LocksMatchCalls, TypeOK, Busy
<1> QED
  BY <1>1, <1>2, <1>3 DEF LocksMatchCalls, LockingVolumeID

\* Every step keeps the mutex and the volume locks with the calls they belong
\* to: one step per path through a call.
LEMMA LocksStep ==
    TypeInv /\ LocksMatchCalls /\ [Next]_vars => LocksMatchCalls'
<1> SUFFICES ASSUME TypeInv, LocksMatchCalls, [Next]_vars
             PROVE  LocksMatchCalls'
  OBVIOUS
<1> USE ConstantsAssumption
<1> USE DEF TypeInv, kubeVars, procVars, callVars
<1>b. \A w \in Workers : mutex = w <=> pc[w] \in Busy
  BY DEF LocksMatchCalls, Busy
<1>1. ASSUME NEW w \in Workers, NEW op \in Ops, NEW n \in Nodes,
             NEW v \in Volumes, Call(w, op, n, v)
      PROVE  LocksMatchCalls'
  <2> DEFINE r == [op |-> op, node |-> n, vol |-> v]
  <2>1. /\ req' = [req EXCEPT ![w] = r]
        /\ LockingVolumeID(r) \notin locks
        /\ locks' = locks \cup {LockingVolumeID(r)}
        /\ pc[w] = "idle"
        /\ pc' = [pc EXCEPT ![w] = "get"]
        /\ mutex' = mutex
    BY <1>1, Zenon DEF Call, TryAcquire, Acquired
  <2> HIDE DEF r
  <2>2. \A x \in Workers : /\ pc'[x] = IF x = w THEN "get" ELSE pc[x]
                           /\ req'[x] = IF x = w THEN r ELSE req[x]
    BY <2>1 DEF TypeOK
  <2>3. \A x \in Workers :
            mutex' = x <=> pc'[x] \in {"put", "applied", "refused"}
    BY <2>1, <2>2 DEF LocksMatchCalls
  <2>4. locks' = {LockingVolumeID(req'[x]) :
                      x \in {y \in Workers : pc'[y] # "idle"}}
    BY <2>1, <2>2 DEF LocksMatchCalls
  <2>5. \A x, y \in Workers :
            /\ pc'[x] # "idle" /\ pc'[y] # "idle"
            /\ LockingVolumeID(req'[x]) = LockingVolumeID(req'[y])
            => x = y
    BY <2>1, <2>2 DEF LocksMatchCalls
  <2> QED
    BY <2>3, <2>4, <2>5 DEF LocksMatchCalls, LockingVolumeID
<1>2. ASSUME NEW w \in Workers, GetNode(w) PROVE LocksMatchCalls'
  BY ZenonT(60), <1>2, InnerLocks DEF GetNode, PCs, Busy
<1>3. ASSUME NEW w \in Workers, AssignNotFound(w) PROVE LocksMatchCalls'
  BY <1>3, <1>b, ReturnLocks DEF AssignNotFound, Fail, Busy
<1>4. ASSUME NEW w \in Workers, RemoveSkipped(w) PROVE LocksMatchCalls'
  BY <1>4, <1>b, ReturnLocks DEF RemoveSkipped, Succeed, Busy
<1>5. ASSUME NEW w \in Workers, AssignExisting(w) PROVE LocksMatchCalls'
  BY <1>5, <1>b, ReturnLocks DEF AssignExisting, Succeed, Busy
<1>6. ASSUME NEW w \in Workers, RemoveForeign(w) PROVE LocksMatchCalls'
  BY <1>6, <1>b, ReturnLocks DEF RemoveForeign, Succeed, Busy
<1>7. ASSUME NEW w \in Workers, AssignSend(w) PROVE LocksMatchCalls'
  BY ZenonT(60), <1>7, InnerLocks DEF AssignSend, PCs, Busy
<1>8. ASSUME NEW w \in Workers, RemoveSend(w) PROVE LocksMatchCalls'
  BY ZenonT(60), <1>8, InnerLocks DEF RemoveSend, PCs, Busy
<1>9. ASSUME NEW w \in Workers, PutApplied(w) PROVE LocksMatchCalls'
  BY ZenonT(60), <1>9, InnerLocks DEF PutApplied, PCs, Busy
<1>10. ASSUME NEW w \in Workers, PutRefused(w) PROVE LocksMatchCalls'
  BY ZenonT(60), <1>10, InnerLocks DEF PutRefused, PCs, Busy
<1>11. ASSUME NEW w \in Workers, PutDone(w) PROVE LocksMatchCalls'
  BY <1>11, <1>b, ReturnLocks DEF PutDone, Succeed, Busy
<1>12. ASSUME NEW w \in Workers, PutFailed(w) PROVE LocksMatchCalls'
  BY <1>12, <1>b, ReturnLocks DEF PutFailed, Fail, Busy
<1>13. ASSUME NEW w \in Workers, PutLost(w) PROVE LocksMatchCalls'
  BY <1>13, <1>b, ReturnLocks DEF PutLost, Fail, Busy
<1>14. CASE Crash
  <2>1. mutex' = None /\ locks' = {} /\ pc' = [w \in Workers |-> "idle"]
    BY <1>14 DEF Crash, NewVolumeLocks
  <2> QED
    BY <2>1 DEF LocksMatchCalls
<1>15. ASSUME UNCHANGED <<pc, req, mutex, locks>> PROVE LocksMatchCalls'
  BY <1>15 DEF LocksMatchCalls, LockingVolumeID
<1>16. ASSUME NEW n \in Nodes, NodeStep(n) PROVE LocksMatchCalls'
  BY <1>15, <1>16 DEF NodeStep, Deliver, Touch, DeleteNode, AddNode
<1>17. ASSUME NEW n \in Nodes, NEW value, OrphanLands(n, value)
       PROVE  LocksMatchCalls'
  BY <1>15, <1>17 DEF OrphanLands
<1>18. CASE Start \/ StartUnsynced \/ StopSignal \/ UNCHANGED vars
  BY <1>15, <1>18 DEF Start, StartUnsynced, StopSignal, vars
<1> QED
  BY <1>1, <1>2, <1>3, <1>4, <1>5, <1>6, <1>7, <1>8,
     <1>9, <1>10, <1>11,
     <1>12, <1>13, <1>14, <1>16, <1>17, <1>18 DEF Next, CallStep

\* No path through a call, no lost reply and no crash leaves the mutex or a
\* volume lock behind, and no two calls hold the same lock.
THEOREM LocksCorrect == Spec => []LocksMatchCalls
<1>1. Init => LocksMatchCalls
  <2>1. Init => mutex = None /\ locks = {} /\ pc = [w \in Workers |-> "idle"]
    BY DEF Init, NewVolumeLocks
  <2> QED
    BY <2>1, ConstantsAssumption DEF LocksMatchCalls
<1> QED
  BY <1>1, InitType, TypeStep, LocksStep, PTL DEF Spec

-----------------------------------------------------------------------------
(***************************************************************************)
(* The cache and the copies of the nodes that the handlers hold, for any   *)
(* constants and under all faults.                                         *)
(***************************************************************************)

CacheTrue ==
    \A n \in Nodes : IF watch[n] = <<>> THEN lister[n] \in {api[n], Gone}
                                        ELSE watch[n][Len(watch[n])] = api[n]

CopyTrue(w) ==
    current[w] =>
        /\ pc[w] \in {"wait", "put"}
        /\ pc[w] = "wait" => ip[w] = api[req[w].node]
        /\ pc[w] = "put" /\ req[w].op = "publish" => api[req[w].node] \notin IPs
        /\ pc[w] = "put" /\ req[w].op = "unpublish" => api[req[w].node] = ip[w]

\* CopiesTrue in two parts: the cache, and the copies of the calls.
LEMMA CopiesSplit == CopiesTrue <=> CacheTrue /\ \A w \in Workers : CopyTrue(w)
BY DEF CopiesTrue, CacheTrue, CopyTrue

\* What a queue of undelivered versions ends with.
LEMMA QueueEnd ==
    ASSUME NEW S, NEW q \in Seq(S), NEW e \in S
    PROVE  /\ Append(q, e) # <<>>
           /\ Append(q, e)[Len(Append(q, e))] = e
           /\ q # <<>> =>
                  IF Tail(q) = <<>> THEN Head(q) = q[Len(q)]
                                    ELSE Tail(q)[Len(Tail(q))] = q[Len(q)]
<1>1. Append(q, e) # <<>> /\ Append(q, e)[Len(Append(q, e))] = e
  OBVIOUS
<1>2. ASSUME q # <<>>
      PROVE  IF Tail(q) = <<>> THEN Head(q) = q[Len(q)]
                               ELSE Tail(q)[Len(Tail(q))] = q[Len(q)]
  <2>1. /\ Tail(q) \in Seq(S) /\ Len(Tail(q)) = Len(q) - 1
        /\ \A i \in 1 .. Len(Tail(q)) : Tail(q)[i] = q[i + 1]
        /\ Head(q) = q[1] /\ Len(q) \in Nat
    BY <1>2
  <2>2. CASE Tail(q) = <<>>
    BY <2>1, <2>2
  <2>3. CASE Tail(q) # <<>>
    <3>1. Len(Tail(q)) \in Nat /\ Len(Tail(q)) # 0
      BY <2>1, <2>3
    <3> QED
      BY <2>1, <2>3, <3>1
  <2> QED
    BY <2>2, <2>3
<1> QED
  BY <1>1, <1>2

\* A new version of a node leaves no copy of it current, and the others true.
LEMMA StoreCopies ==
    ASSUME TypeOK, CopiesTrue, NEW n \in Nodes, NEW value \in NodeValues,
           Store(n, value), UNCHANGED <<lister, req, ip>>,
           \A w \in Workers : req[w].node # n => pc'[w] = pc[w]
    PROVE  CopiesTrue'
<1>1. CacheTrue'
  <2> SUFFICES ASSUME NEW m \in Nodes
               PROVE  IF watch'[m] = <<>> THEN lister'[m] \in {api'[m], Gone}
                      ELSE watch'[m][Len(watch'[m])] = api'[m]
    BY DEF CacheTrue
  <2>1. CASE m # n
    <3>1. watch'[m] = watch[m] /\ lister'[m] = lister[m] /\ api'[m] = api[m]
      BY <2>1 DEF Store, TypeOK
    <3> QED
      BY <3>1 DEF CopiesTrue
  <2>2. CASE m = n
    <3>1. api'[n] = value
      BY DEF Store, TypeOK
    <3>2. watch'[n] = IF informer THEN Append(watch[n], value) ELSE <<value>>
      BY DEF Store, TypeOK
    <3>3. watch[n] \in Seq(NodeValues)
      BY DEF TypeOK
    <3>4. watch'[n] # <<>> /\ watch'[n][Len(watch'[n])] = value
      BY <3>2, <3>3, QueueEnd
    <3> QED
      BY <2>2, <3>1, <3>4
  <2> QED
    BY <2>1, <2>2
<1>2. ASSUME NEW w \in Workers PROVE CopyTrue(w)'
  <2> SUFFICES ASSUME current'[w] PROVE CopyTrue(w)'
    BY DEF CopyTrue
  <2>1. current[w] /\ req[w].node # n
    BY ZenonT(60) DEF Store
  <2>2. pc'[w] = pc[w] /\ req'[w] = req[w] /\ ip'[w] = ip[w]
    BY <2>1
  <2>3. api'[req[w].node] = api[req[w].node]
    BY <2>1 DEF Store, TypeOK
  <2>4. CopyTrue(w)
    BY CopiesSplit
  <2> QED
    BY <2>1, <2>2, <2>3, <2>4 DEF CopyTrue
<1> QED
  BY <1>1, <1>2, CopiesSplit, Zenon DEF CopiesTrue, CacheTrue, CopyTrue

\* A step of one call keeps the other copies.
LEMMA CallCopies ==
    ASSUME TypeOK, CopiesTrue, NEW w \in Workers,
           UNCHANGED <<api, lister, watch>>, CopyTrue(w)',
           \A x \in Workers : x # w => /\ pc'[x] = pc[x] /\ req'[x] = req[x]
                                       /\ ip'[x] = ip[x]
                                       /\ current'[x] = current[x]
    PROVE  CopiesTrue'
<1>1. CacheTrue'
  BY DEF CopiesTrue, CacheTrue
<1>2. ASSUME NEW x \in Workers PROVE CopyTrue(x)'
  <2>1. CopyTrue(x)
    BY DEF CopiesTrue, CopyTrue
  <2>2. CASE x # w
    <3>1. /\ pc'[x] = pc[x] /\ req'[x] = req[x] /\ ip'[x] = ip[x]
          /\ current'[x] = current[x] /\ api' = api
      BY <2>2
    <3> QED
      BY <2>1, <3>1 DEF CopyTrue
  <2> QED
    BY <2>2
<1> QED
  BY <1>1, <1>2 DEF CopiesTrue, CacheTrue, CopyTrue

\* A handler that returns has no copy any more.
LEMMA ReturnCopies ==
    ASSUME TypeOK, CopiesTrue, NEW w \in Workers, NEW result,
           Return(w, result), UNCHANGED <<api, lister, watch>>
    PROVE  CopiesTrue'
<1>1. current'[w] = FALSE
  BY DEF Return, TypeOK
<1>2. CopyTrue(w)'
  BY <1>1 DEF CopyTrue
<1>3. \A x \in Workers : x # w => /\ pc'[x] = pc[x] /\ req'[x] = req[x]
                                  /\ ip'[x] = ip[x] /\ current'[x] = current[x]
  BY DEF Return, TypeOK
<1> QED
  BY <1>2, <1>3, CallCopies

\* Every step keeps CopiesTrue: the new versions of a node through StoreCopies,
\* the steps of a call through CallCopies.
LEMMA CopiesStep ==
    TypeInv /\ CopiesTrue /\ [Next]_vars => CopiesTrue'
<1> SUFFICES ASSUME TypeInv, CopiesTrue, [Next]_vars PROVE CopiesTrue'
  OBVIOUS
<1> USE ConstantsAssumption
<1> USE DEF TypeInv, kubeVars, procVars, callVars
<1>1. ASSUME NEW w \in Workers, NEW op \in Ops, NEW n \in Nodes,
             NEW v \in Volumes, Call(w, op, n, v)
      PROVE  CopiesTrue'
  <2>1. /\ pc[w] = "idle" /\ pc' = [pc EXCEPT ![w] = "get"]
        /\ UNCHANGED <<api, lister, watch, ip, current>>
        /\ \A x \in Workers : x # w => req'[x] = req[x]
    BY <1>1 DEF Call, TypeOK
  <2>2. CopyTrue(w)'
    BY ZenonT(60), <2>1 DEF CopiesTrue, CopyTrue
  <2> QED
    BY <2>1, <2>2, CallCopies DEF TypeOK
<1>2. ASSUME NEW w \in Workers, GetNode(w) PROVE CopiesTrue'
  <2>1. req[w].node \in Nodes
    BY <1>2 DEF GetNode, TypeOK, Requests
  <2>2. /\ pc'[w] = "wait" /\ ip'[w] = lister[req[w].node]
        /\ lister[req[w].node] # Gone
        /\ current'[w] = (watch[req[w].node] = <<>>)
        /\ UNCHANGED <<api, lister, watch, req>>
    BY <1>2 DEF GetNode, TypeOK
  <2>3. CopyTrue(w)'
    BY ZenonT(60), <2>1, <2>2 DEF CopiesTrue, CopyTrue
  <2>4. \A x \in Workers : x # w => /\ pc'[x] = pc[x] /\ ip'[x] = ip[x]
                                    /\ current'[x] = current[x]
    BY <1>2 DEF GetNode, TypeOK
  <2> QED
    BY ZenonT(60), <2>2, <2>3, <2>4, CallCopies
<1>3. ASSUME NEW w \in Workers,
             \/ AssignNotFound(w) \/ RemoveSkipped(w) \/ AssignExisting(w)
             \/ RemoveForeign(w) \/ PutDone(w) \/ PutFailed(w) \/ PutLost(w)
      PROVE  CopiesTrue'
  BY ZenonT(60), <1>3, ReturnCopies
  DEF AssignNotFound, RemoveSkipped, AssignExisting, RemoveForeign, PutDone,
      PutFailed, PutLost, Succeed, Fail
<1>4. ASSUME NEW w \in Workers, AssignSend(w) \/ RemoveSend(w)
      PROVE  CopiesTrue'
  <2>1. /\ pc[w] = "wait" /\ pc'[w] = "put"
        /\ req[w].op = "publish" => ip[w] \notin IPs
        /\ req[w].op = "unpublish" => ip'[w] = ip[w]
        /\ \A x \in Workers : x # w => pc'[x] = pc[x] /\ ip'[x] = ip[x]
        /\ UNCHANGED <<api, lister, watch, req, current>>
    BY <1>4 DEF AssignSend, RemoveSend, TypeOK
  <2>2. CopyTrue(w)'
    BY <2>1 DEF CopiesTrue, CopyTrue
  <2> QED
    BY ZenonT(60), <2>1, <2>2, CallCopies
<1>5. ASSUME NEW w \in Workers, PutApplied(w) PROVE CopiesTrue'
  <2>1. req[w].node \in Nodes /\ Update(w) \in NodeValues
    BY <1>5 DEF PutApplied, TypeOK, Requests, BusyIP, Busy, Update, NodeValues,
                Annotations
  <2>2. /\ Store(req[w].node, Update(w)) /\ UNCHANGED <<lister, req, ip>>
        /\ \A x \in Workers : x # w => pc'[x] = pc[x]
    BY <1>5 DEF PutApplied, TypeOK
  <2> QED
    BY <2>1, <2>2, StoreCopies
<1>6. ASSUME NEW w \in Workers, PutRefused(w) PROVE CopiesTrue'
  <2>1. /\ current'[w] = FALSE /\ UNCHANGED <<api, lister, watch, req, ip>>
        /\ \A x \in Workers : x # w => /\ pc'[x] = pc[x]
                                       /\ current'[x] = current[x]
    BY <1>6 DEF PutRefused, TypeOK
  <2>2. CopyTrue(w)'
    BY ZenonT(60), <2>1 DEF CopyTrue
  <2> QED
    BY ZenonT(60), <2>1, <2>2, CallCopies
<1>7. ASSUME NEW n \in Nodes, Deliver(n) PROVE CopiesTrue'
  <2>1. ASSUME NEW m \in Nodes
        PROVE  IF watch'[m] = <<>> THEN lister'[m] \in {api'[m], Gone}
               ELSE watch'[m][Len(watch'[m])] = api'[m]
    <3>1. CASE m # n
      <4>1. watch'[m] = watch[m] /\ lister'[m] = lister[m] /\ api' = api
        BY <1>7, <3>1 DEF Deliver, TypeOK
      <4> QED
        BY <4>1 DEF CopiesTrue
    <3>2. CASE m = n
      <4>1. /\ watch[n] \in Seq(NodeValues) /\ watch[n] # <<>>
            /\ watch'[n] = Tail(watch[n]) /\ lister'[n] = Head(watch[n])
            /\ api'[n] = api[n]
        BY <1>7 DEF Deliver, TypeOK
      <4>2. watch[n][Len(watch[n])] = api[n]
        BY <4>1 DEF CopiesTrue
      <4>3. Gone \in NodeValues
        BY DEF NodeValues
      <4> QED
        BY <3>2, <4>1, <4>2, <4>3, QueueEnd
    <3> QED
      BY <3>1, <3>2
  <2>2. \A w \in Workers : CopyTrue(w)'
    BY <1>7 DEF Deliver, CopiesTrue, CopyTrue
  <2> QED
    BY <2>1, <2>2 DEF CopiesTrue, CopyTrue
<1>8. ASSUME NEW n \in Nodes, Touch(n) \/ DeleteNode(n) \/ AddNode(n)
      PROVE  CopiesTrue'
  BY ZenonT(60), <1>8, StoreCopies
  DEF Touch, DeleteNode, AddNode, TypeOK, NodeValues
<1>9. ASSUME NEW n \in Nodes, NEW value \in IPs \cup {NoIP},
             OrphanLands(n, value)
      PROVE  CopiesTrue'
  BY <1>9, StoreCopies DEF OrphanLands, NodeValues, Annotations
<1>10. CASE Start \/ StartUnsynced
  <2>1. /\ UNCHANGED <<api, pc, req, ip, current>>
        /\ \A n \in Nodes : watch'[n] = <<>> /\ lister'[n] \in {api[n], Gone}
    BY <1>10 DEF Start, StartUnsynced
  <2> QED
    BY <2>1 DEF CopiesTrue
<1>11. CASE Crash
  <2>1. /\ UNCHANGED <<api, lister, watch>>
        /\ \A w \in Workers : ~current'[w]
    BY <1>11 DEF Crash
  <2> QED
    BY <2>1 DEF CopiesTrue
<1>12. CASE StopSignal \/ UNCHANGED vars
  BY ZenonT(60), <1>12 DEF StopSignal, vars, CopiesTrue
<1> QED
  BY <1>1, <1>2, <1>3, <1>4, <1>5, <1>6, <1>7, <1>8, <1>9, <1>10, <1>11,
     <1>12 DEF Next, CallStep, NodeStep

\* The first cache is true, and there is no copy.
LEMMA InitCopies == Init => CopiesTrue
<1>1. Init => /\ lister = api /\ \A n \in Nodes : watch[n] = <<>>
              /\ \A w \in Workers : ~current[w]
  BY DEF Init
<1> QED
  BY <1>1 DEF CopiesTrue

\* An update that the API server will accept was made from the object it
\* replaces, although that object was read from a cache and without the mutex.
THEOREM CopiesCorrect == Spec => []CopiesTrue
<1> QED
  BY InitType, InitCopies, TypeStep, CopiesStep, PTL DEF Spec

-----------------------------------------------------------------------------
(***************************************************************************)
(* PublishedIPStays for any constants and under all faults but churn, as   *)
(* long as nothing is unpublished.                                         *)
(***************************************************************************)

OnlyPublish == Ops \subseteq {"publish"} /\ "churn" \notin Faults

\* The strengthening: wherever an IP of the list is to be seen on a node, in
\* the cache, on the way to it or in the copy of a call, the node has it; and
\* an update that may still be applied is for a node that has none.
TrueIP(n, x) == x \in IPs => api[n] = x

NodeStays(n) ==
    /\ TrueIP(n, lister[n])
    /\ \A i \in 1 .. Len(watch[n]) : TrueIP(n, watch[n][i])

OrphanStays ==
    \A n \in Nodes, a \in IPs \cup {NoIP} : <<n, a>> \in orphans => api[n] \notin IPs

CallStays(w) ==
    pc[w] # "idle" =>
        /\ req[w].op = "publish"
        /\ pc[w] = "wait" => TrueIP(req[w].node, ip[w])
        /\ pc[w] = "applied" => api[req[w].node] = ip[w]

StaysInv ==
    /\ TypeInv /\ CopiesTrue
    /\ \A n \in Nodes : NodeStays(n)
    /\ OrphanStays
    /\ \A w \in Workers : CallStays(w)
    /\ PublishedIPStays

-----------------------------------------------------------------------------
\* A new version of a node: an IP of the list that the node has is kept, so
\* whatever was seen of it stays true.
LEMMA StoreStays ==
    ASSUME StaysInv, NEW n \in Nodes, NEW value \in NodeValues,
           Store(n, value), api[n] \in IPs => value = api[n],
           UNCHANGED <<lister, req, ip, published>>,
           \A w \in Workers :
               \/ pc'[w] = pc[w]
               \/ /\ pc[w] = "put" /\ pc'[w] = "applied"
                  /\ req[w].node = n /\ value = ip[w]
    PROVE  /\ \A m \in Nodes : NodeStays(m)'
           /\ OrphanStays' /\ PublishedIPStays'
           /\ \A w \in Workers : CallStays(w)'
<1>t. TypeOK
  BY DEF StaysInv, TypeInv
<1>1. \A m \in Nodes : api'[m] = IF m = n THEN value ELSE api[m]
  BY <1>t DEF Store, TypeOK
<1>2. ASSUME NEW m \in Nodes, NEW x, TrueIP(m, x) PROVE x \in IPs => api'[m] = x
  BY <1>1, <1>2 DEF TrueIP
<1>3. ASSUME NEW m \in Nodes PROVE NodeStays(m)'
  <2>1. lister'[m] = lister[m] /\ NodeStays(m)
    BY DEF StaysInv
  <2>2. lister'[m] \in IPs => api'[m] = lister'[m]
    BY <1>2, <2>1 DEF NodeStays
  <2>3. ASSUME NEW i \in 1 .. Len(watch'[m])
        PROVE  watch'[m][i] \in IPs => api'[m] = watch'[m][i]
    <3>1. watch[m] \in Seq(NodeValues)
      BY <1>t DEF TypeOK
    <3>2. CASE m # n
      <4>1. watch'[m] = watch[m]
        BY <1>t, <3>2 DEF Store, TypeOK
      <4> QED
        BY <1>2, <2>1, <2>3, <4>1 DEF NodeStays
    <3>3. CASE m = n /\ informer
      <4>1. watch'[m] = Append(watch[m], value)
        BY <1>t, <3>3 DEF Store, TypeOK
      <4>2. /\ Len(watch'[m]) = Len(watch[m]) + 1 /\ Len(watch[m]) \in Nat
            /\ \A j \in 1 .. Len(watch[m]) : watch'[m][j] = watch[m][j]
            /\ watch'[m][Len(watch[m]) + 1] = value
        BY <3>1, <4>1
      <4>3. CASE i = Len(watch[m]) + 1
        BY <1>1, <3>3, <4>2, <4>3
      <4>4. CASE i # Len(watch[m]) + 1
        <5>1. i \in 1 .. Len(watch[m])
          BY <2>3, <4>2, <4>4
        <5> QED
          BY <1>2, <2>1, <4>2, <5>1 DEF NodeStays
      <4> QED
        BY <4>3, <4>4
    <3>4. CASE m = n /\ ~informer
      <4>1. watch'[m] = <<value>>
        BY <1>t, <3>4 DEF Store, TypeOK
      <4>2. watch'[m][i] = value
        BY <2>3, <4>1
      <4> QED
        BY <1>1, <3>4, <4>2
    <3> QED
      BY <3>2, <3>3, <3>4
  <2> QED
    BY <2>2, <2>3 DEF NodeStays, TrueIP
<1>4. OrphanStays'
  <2> SUFFICES ASSUME NEW m \in Nodes, NEW a \in IPs \cup {NoIP},
                      <<m, a>> \in orphans'
               PROVE  api'[m] \notin IPs
    BY DEF OrphanStays
  <2>1. <<m, a>> \in orphans /\ m # n
    BY DEF Store
  <2> QED
    BY <1>1, <2>1 DEF StaysInv, OrphanStays
<1>5. PublishedIPStays'
  <2> SUFFICES ASSUME NEW m \in Nodes, NEW v \in Volumes,
                      published[<<m, v>>] # NoIP
               PROVE  api'[m] = published[<<m, v>>]
    BY DEF PublishedIPStays
  <2>1. published[<<m, v>>] \in IPs
    BY <1>t DEF TypeOK, Keys
  <2>2. api[m] = published[<<m, v>>]
    BY DEF StaysInv, PublishedIPStays
  <2> QED
    BY <1>1, <2>1, <2>2
<1>6. ASSUME NEW w \in Workers PROVE CallStays(w)'
  <2>1. CallStays(w) /\ req'[w] = req[w] /\ ip'[w] = ip[w]
    BY DEF StaysInv
  <2>2. CASE pc'[w] = pc[w]
    <3>1. pc[w] # "idle" => req[w].node \in Nodes
      BY <1>t DEF TypeOK, Requests
    <3>2. pc[w] = "applied" => ip[w] \in IPs
      BY DEF StaysInv, TypeInv, BusyIP, Busy
    <3> QED
      BY <1>2, <2>1, <2>2, <3>1, <3>2 DEF CallStays, TrueIP
  <2>3. CASE pc'[w] # pc[w]
    BY <1>1, <2>1, <2>3 DEF CallStays
  <2> QED
    BY <2>2, <2>3
<1> QED
  BY <1>3, <1>4, <1>5, <1>6

\* A step of one call that changes no node.
LEMMA CallKeeps ==
    ASSUME StaysInv, NEW w \in Workers, UNCHANGED <<api, lister, watch>>,
           CallStays(w)', OrphanStays', PublishedIPStays',
           \A x \in Workers : x # w => /\ pc'[x] = pc[x] /\ req'[x] = req[x]
                                       /\ ip'[x] = ip[x]
    PROVE  /\ \A m \in Nodes : NodeStays(m)'
           /\ OrphanStays' /\ PublishedIPStays'
           /\ \A x \in Workers : CallStays(x)'
<1>1. \A m \in Nodes : NodeStays(m)'
  BY DEF StaysInv, NodeStays, TrueIP
<1>2. ASSUME NEW x \in Workers, x # w PROVE CallStays(x)'
  BY <1>2 DEF StaysInv, CallStays, TrueIP
<1> QED
  BY <1>1, <1>2

\* An update in flight is for a node without an IP of the list.
LEMMA FlightStays ==
    ASSUME StaysInv, NEW w \in Workers, NEW m \in Nodes, NEW a,
           <<m, a>> \in InFlight(w)
    PROVE  api[m] \notin IPs
<1>1. pc[w] = "put" /\ current[w] /\ m = req[w].node
  BY DEF InFlight
<1>2. CopyTrue(w) /\ req[w].op = "publish"
  BY <1>1, CopiesSplit DEF StaysInv, CallStays
<1> QED
  BY <1>1, <1>2 DEF CopyTrue

\* The handlers that return: only one that found or stored the IP changes
\* what is published.
LEMMA ReturnStays ==
    ASSUME StaysInv, NEW w \in Workers, NEW result, pc[w] # "idle",
           Return(w, result), UNCHANGED <<api, lister, watch>>, OrphanStays',
           \/ result = published[LockingVolumeID(req[w])]
           \/ result = api[req[w].node]
    PROVE  /\ \A m \in Nodes : NodeStays(m)'
           /\ OrphanStays' /\ PublishedIPStays'
           /\ \A x \in Workers : CallStays(x)'
<1>t. TypeOK
  BY DEF StaysInv, TypeInv
<1>1. pc'[w] = "idle"
  BY <1>t DEF Return, TypeOK
<1>2. CallStays(w)'
  BY <1>1 DEF CallStays
<1>3. \A x \in Workers : x # w => /\ pc'[x] = pc[x] /\ req'[x] = req[x]
                                  /\ ip'[x] = ip[x]
  BY <1>t DEF Return, TypeOK
<1>4. PublishedIPStays'
  <2> SUFFICES ASSUME NEW m \in Nodes, NEW v \in Volumes,
                      published'[<<m, v>>] # NoIP
               PROVE  api[m] = published'[<<m, v>>]
    BY DEF PublishedIPStays
  <2>1. req[w].node \in Nodes /\ <<m, v>> \in Keys
    BY <1>t DEF TypeOK, Requests, Keys
  <2>2. published'[<<m, v>>] = IF <<m, v>> = LockingVolumeID(req[w])
                           THEN result ELSE published[<<m, v>>]
    BY <1>t, <2>1 DEF Return, TypeOK
  <2> QED
    BY <2>1, <2>2 DEF StaysInv, PublishedIPStays, LockingVolumeID
<1> QED
  BY <1>2, <1>3, <1>4, CallKeeps

-----------------------------------------------------------------------------

\* No step takes an IP of the list from a node: an accepted update was made
\* from the object it replaces (CopiesTrue), and so is for a node without one.
LEMMA StaysStep ==
    ASSUME OnlyPublish, StaysInv, [Next]_vars
    PROVE  StaysInv'
<1> DEFINE Rest == /\ \A m \in Nodes : NodeStays(m)'
                   /\ OrphanStays' /\ PublishedIPStays'
                   /\ \A x \in Workers : CallStays(x)'
<1> SUFFICES Rest
  BY TypeStep, CopiesStep DEF StaysInv
<1> USE DEF kubeVars, procVars, callVars
<1>o. orphans' \subseteq orphans /\ api' = api => OrphanStays'
  BY DEF StaysInv, OrphanStays
<1>p. published' = published /\ api' = api => PublishedIPStays'
  BY DEF StaysInv, PublishedIPStays
<1>t. TypeOK /\ \A w \in Workers : pc[w] # "idle" => req[w].node \in Nodes
  BY DEF StaysInv, TypeInv, TypeOK, Requests
<1>q. \A w \in Workers : pc[w] # "idle" => req[w].op = "publish"
  BY DEF StaysInv, CallStays
<1>1. ASSUME NEW w \in Workers, NEW op \in Ops, NEW n \in Nodes,
             NEW v \in Volumes, Call(w, op, n, v)
      PROVE  Rest
  <2>1. /\ pc'[w] = "get" /\ req'[w].op = "publish"
        /\ UNCHANGED <<api, lister, watch, orphans, ip, published>>
        /\ \A x \in Workers : x # w => pc'[x] = pc[x] /\ req'[x] = req[x]
    BY <1>1, <1>t DEF Call, TypeOK, OnlyPublish
  <2>2. CallStays(w)'
    BY <2>1 DEF CallStays
  <2> QED
    BY <1>o, <1>p, <2>1, <2>2, CallKeeps
<1>2. ASSUME NEW w \in Workers, GetNode(w) PROVE Rest
  <2>1. /\ pc'[w] = "wait" /\ ip'[w] = lister[req[w].node] /\ pc[w] # "idle"
        /\ UNCHANGED <<api, lister, watch, orphans, req, published>>
        /\ \A x \in Workers : x # w => pc'[x] = pc[x] /\ ip'[x] = ip[x]
    BY <1>2, <1>t DEF GetNode, TypeOK
  <2>2. TrueIP(req[w].node, lister[req[w].node]) /\ req[w].op = "publish"
    BY <1>q, <1>t, <2>1 DEF StaysInv, NodeStays
  <2>3. CallStays(w)'
    BY <2>1, <2>2 DEF CallStays, TrueIP
  <2> QED
    BY <1>o, <1>p, <2>1, <2>3, CallKeeps
<1>3. ASSUME NEW w \in Workers,
             AssignNotFound(w) \/ PutFailed(w) \/ PutLost(w)
      PROVE  Rest
  <2>1. /\ pc[w] # "idle" /\ Return(w, published[LockingVolumeID(req[w])])
        /\ UNCHANGED <<api, lister, watch>>
        /\ orphans' \subseteq orphans \cup InFlight(w)
    BY <1>3 DEF AssignNotFound, PutFailed, PutLost, Fail
  <2>2. OrphanStays'
    BY <2>1, FlightStays DEF StaysInv, OrphanStays
  <2> QED
    BY <2>1, <2>2, ReturnStays
<1>4. ASSUME NEW w \in Workers, AssignExisting(w) \/ PutDone(w) PROVE Rest
  <2>1. /\ pc[w] \in {"wait", "applied"} /\ req[w].op = "publish"
        /\ pc[w] = "wait" => ip[w] \in IPs
        /\ UNCHANGED <<api, lister, watch, orphans>>
        /\ Succeed(w)
    BY <1>4, <1>q DEF AssignExisting, PutDone
  <2>2. ip[w] = api[req[w].node]
    BY <2>1 DEF StaysInv, CallStays, TrueIP
  <2>3. Return(w, ip[w])
    BY <2>1 DEF Succeed
  <2> QED
    BY ZenonT(30), <1>o, <2>1, <2>2, <2>3, ReturnStays
<1>5. ASSUME NEW w \in Workers, AssignSend(w) \/ PutRefused(w) PROVE Rest
  <2>1. /\ pc'[w] \in {"put", "refused"} /\ pc[w] # "idle"
        /\ UNCHANGED <<api, lister, watch, orphans, req, published>>
        /\ \A x \in Workers : x # w => pc'[x] = pc[x] /\ ip'[x] = ip[x]
    BY <1>5, <1>t DEF AssignSend, PutRefused, TypeOK
  <2>2. CallStays(w)'
    BY <1>q, <2>1 DEF CallStays
  <2> QED
    BY <1>o, <1>p, <2>1, <2>2, CallKeeps
<1>6. ASSUME NEW w \in Workers, PutApplied(w) PROVE Rest
  <2>1. /\ pc[w] = "put" /\ current[w] /\ req[w].op = "publish"
        /\ req[w].node \in Nodes /\ Update(w) = ip[w]
    BY <1>6, <1>q, <1>t DEF PutApplied, Update
  <2>2. api[req[w].node] \notin IPs
    BY <2>1, CopiesSplit DEF StaysInv, CopyTrue
  <2>3. ip[w] \in NodeValues
    BY <1>t DEF TypeOK, NodeValues
  <2>4. /\ Store(req[w].node, ip[w]) /\ UNCHANGED <<lister, req, ip, published>>
        /\ \A x \in Workers : pc'[x] = IF x = w THEN "applied" ELSE pc[x]
    BY <1>6, <1>t, <2>1 DEF PutApplied, TypeOK
  <2>5. \A x \in Workers :
            \/ pc'[x] = pc[x]
            \/ /\ pc[x] = "put" /\ pc'[x] = "applied"
               /\ req[x].node = req[w].node /\ ip[w] = ip[x]
    BY <2>1, <2>4
  <2> QED
    BY ZenonT(30), <2>1, <2>2, <2>3, <2>4, <2>5, StoreStays
<1>7. ASSUME NEW w \in Workers,
             RemoveSkipped(w) \/ RemoveForeign(w) \/ RemoveSend(w)
      PROVE  Rest
  BY <1>7, <1>q DEF RemoveSkipped, RemoveForeign, RemoveSend
<1>8. ASSUME NEW n \in Nodes, Deliver(n) PROVE Rest
  <2>1. ASSUME NEW m \in Nodes PROVE NodeStays(m)'
    <3>1. NodeStays(m) /\ api' = api
      BY <1>8 DEF StaysInv, Deliver
    <3>2. CASE m # n
      <4>1. watch'[m] = watch[m] /\ lister'[m] = lister[m]
        BY <1>8, <1>t, <3>2 DEF Deliver, TypeOK
      <4> QED
        BY <3>1, <4>1 DEF NodeStays, TrueIP
    <3>3. CASE m = n
      <4>1. /\ watch[n] \in Seq(NodeValues) /\ watch[n] # <<>>
            /\ watch'[n] = Tail(watch[n]) /\ lister'[n] = Head(watch[n])
        BY <1>8, <1>t DEF Deliver, TypeOK
      <4>2. /\ Len(Tail(watch[n])) = Len(watch[n]) - 1 /\ Len(watch[n]) \in Nat
            /\ \A i \in 1 .. Len(Tail(watch[n])) : Tail(watch[n])[i] = watch[n][i + 1]
            /\ Head(watch[n]) = watch[n][1] /\ Len(watch[n]) # 0
        BY <4>1
      <4>3. /\ 1 \in 1 .. Len(watch[n])
            /\ \A i \in 1 .. Len(watch'[n]) : i + 1 \in 1 .. Len(watch[n])
        BY <4>1, <4>2
      <4> QED
        BY <3>1, <3>3, <4>1, <4>2, <4>3 DEF NodeStays, TrueIP
    <3> QED
      BY <3>2, <3>3
  <2>2. UNCHANGED <<api, orphans, pc, req, ip, published>>
    BY <1>8 DEF Deliver
  <2>3. \A w \in Workers : CallStays(w)'
    BY <2>2 DEF StaysInv, CallStays, TrueIP
  <2> QED
    BY <1>o, <1>p, <2>1, <2>2, <2>3
<1>9. ASSUME NEW n \in Nodes, Touch(n) PROVE Rest
  BY <1>9, <1>t, StoreStays DEF Touch, TypeOK
<1>10. ASSUME NEW n \in Nodes, NEW value \in IPs \cup {NoIP},
              OrphanLands(n, value)
       PROVE  Rest
  <2>1. api[n] \notin IPs /\ value \in NodeValues
    BY <1>10 DEF OrphanLands, StaysInv, OrphanStays, NodeValues, Annotations
  <2> QED
    BY <1>10, <2>1, StoreStays DEF OrphanLands
<1>11. ASSUME NEW n \in Nodes, DeleteNode(n) \/ AddNode(n) PROVE Rest
  BY <1>11 DEF DeleteNode, AddNode, OnlyPublish
<1>12. CASE Start \/ StartUnsynced
  <2>1. /\ UNCHANGED <<api, orphans, pc, req, ip, published>>
        /\ \A n \in Nodes : watch'[n] = <<>> /\ lister'[n] \in {api[n], Gone}
    BY <1>12 DEF Start, StartUnsynced
  <2>2. \A n \in Nodes : NodeStays(n)'
    BY <2>1, ConstantsAssumption DEF NodeStays, TrueIP, Annotations
  <2>3. \A w \in Workers : CallStays(w)'
    BY <2>1 DEF StaysInv, CallStays, TrueIP
  <2> QED
    BY <1>o, <1>p, <2>1, <2>2, <2>3
<1>13. CASE Crash
  <2>1. /\ UNCHANGED <<api, lister, watch, published>>
        /\ \A w \in Workers : pc'[w] = "idle"
        /\ orphans' \subseteq orphans \cup UNION {InFlight(w) : w \in Workers}
    BY <1>13 DEF Crash
  <2>2. OrphanStays'
    BY <2>1, FlightStays DEF StaysInv, OrphanStays
  <2>3. \A w \in Workers : CallStays(w)'
    BY <2>1 DEF CallStays
  <2>4. \A n \in Nodes : NodeStays(n)'
    BY <2>1 DEF StaysInv, NodeStays, TrueIP
  <2> QED
    BY <1>p, <2>1, <2>2, <2>3, <2>4
<1>14. CASE StopSignal \/ UNCHANGED vars
  <2>1. UNCHANGED <<api, lister, watch, orphans, pc, req, ip, published>>
    BY <1>14 DEF StopSignal, vars
  <2>2. \A w \in Workers : CallStays(w)'
    BY <2>1 DEF StaysInv, CallStays, TrueIP
  <2>3. \A n \in Nodes : NodeStays(n)'
    BY <2>1 DEF StaysInv, NodeStays, TrueIP
  <2> QED
    BY <1>o, <1>p, <2>1, <2>2, <2>3
<1> QED
  BY <1>1, <1>2, <1>3, <1>4, <1>5, <1>6, <1>7, <1>8, <1>9, <1>10, <1>11,
     <1>12, <1>13, <1>14 DEF Next, CallStep, NodeStep

\* The first cache shows what the nodes have, and nothing is published.
LEMMA InitStays == Init => StaysInv
<1> SUFFICES ASSUME Init PROVE StaysInv
  OBVIOUS
<1>1. /\ lister = api /\ orphans = {} /\ \A n \in Nodes : watch[n] = <<>>
      /\ \A w \in Workers : pc[w] = "idle"
      /\ \A n \in Nodes, v \in Volumes : published[<<n, v>>] = NoIP
  BY DEF Init, Keys
<1>2. \A n \in Nodes : NodeStays(n)
  BY <1>1 DEF NodeStays, TrueIP
<1>3. OrphanStays /\ PublishedIPStays /\ \A w \in Workers : CallStays(w)
  BY <1>1 DEF OrphanStays, PublishedIPStays, CallStays
<1> QED
  BY <1>2, <1>3, InitType, InitCopies DEF StaysInv

\* While nodes are only published to, and are not replaced, the IP that
\* ControllerPublishVolume returned for a node stays in its annotation, through
\* stale caches, crashes, lost answers and late updates.
THEOREM PublishedStays == OnlyPublish /\ Spec => []PublishedIPStays
<1>1. OnlyPublish /\ StaysInv /\ [Next]_vars => StaysInv'
  BY StaysStep
<1>2. StaysInv => PublishedIPStays
  BY DEF StaysInv
<1>3. CASE OnlyPublish
  <2>1. StaysInv /\ [Next]_vars => StaysInv'
    BY <1>1, <1>3
  <2> QED
    BY InitStays, <1>2, <2>1, PTL DEF Spec
<1>4. CASE ~OnlyPublish
  BY <1>4
<1> QED
  BY <1>3, <1>4

=============================================================================
