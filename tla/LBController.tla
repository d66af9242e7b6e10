---------------------------- MODULE LBController ----------------------------
(***************************************************************************)
(* The load balancing controller of the driver                             *)
(* (pkg/lbcontroller/lbcontroller.go) behind the two RPCs that drive it,   *)
(* ControllerPublishVolume and ControllerUnpublishVolume                   *)
(* (pkg/nfs/controllerserver.go), with the parts of Kubernetes it relies   *)
(* on: the API server that stores the node objects, and the informer       *)
(* whose cache the node lister reads.                                      *)
(*                                                                         *)
(* A node object is reduced to the value of its assigned-ip annotation.    *)
(* A gRPC call runs in a goroutine (a worker) and is cut into the steps    *)
(* between which another goroutine, the API server, the informer or a      *)
(* crash can interfere: taking the volume lock, reading the lister         *)
(* (without the mutex), taking the mutex, the update request to the API    *)
(* server, and its reply.                                                  *)
(***************************************************************************)
EXTENDS Integers, Sequences, FiniteSets, VolumeLocks

CONSTANTS
    Nodes,      \* names of the cluster nodes
    Volumes,    \* CSI volume ids
    IPs,        \* the addresses of --ip-addresses, the keys of ipMap
    ForeignIPs, \* annotation values that are not in --ip-addresses
    Workers,    \* gRPC goroutines of the controller process
    NoIP,       \* a node without the annotation; no IP
    Gone,       \* no node object of that name
    None,       \* nobody, nothing
    Ops,        \* the RPCs the attacher sends
    Faults,     \* what the environment may do, see below
    MaxLag,     \* bound: undelivered watch events per node
    MaxCount    \* bound: counts beyond which the faults that make the map
                \* drift no longer happen

\* "crash": the controller process dies and is restarted;
\* "churn": node objects are deleted and created again under the same name;
\* "touch": other clients (kubelet, ...) update a node object;
\* "signal": SIGINT or SIGTERM; signals.SetupSignalHandler stops the informer
\*          while calls are served until the process dies, which main only
\*          sees to after SIGTERM;
\* "unsynced": the same before WaitForCacheSync returns, whose result is
\*          ignored, so that the controller starts with part of the nodes;
\* "lost":  the reply to an update does not reach the controller, whether the
\*          update was applied, will be applied later, or never is.
FaultKinds == {"crash", "churn", "touch", "signal", "unsynced", "lost"}

Annotations == IPs \cup ForeignIPs
NodeValues == Annotations \cup {NoIP, Gone}

ASSUME ConstantsAssumption ==
    /\ IsFiniteSet(Nodes) /\ IsFiniteSet(IPs) /\ IPs # {}
    /\ IPs \cap ForeignIPs = {}
    /\ NoIP # Gone /\ NoIP \notin Annotations /\ Gone \notin Annotations
    /\ None \notin Workers
    /\ Ops \subseteq {"publish", "unpublish"}
    /\ Faults \subseteq FaultKinds
    /\ MaxLag \in Nat \ {0} /\ MaxCount \in Nat

VARIABLES
    \* Kubernetes
    api,       \* api[n]: the node object stored by the API server
    lister,    \* lister[n]: the copy in the informer's cache
    watch,     \* watch[n]: versions of n the informer has not yet received
    orphans,   \* <<n, value>>: updates still on the wire that nobody waits for
    \* the controller process
    up,        \* it is running and serves calls
    informer,  \* its informer is running
    ipMap,     \* LBController.ipMap
    mutex,     \* LBController.mutex: the worker that holds it, or None
    locks,     \* Driver.volumeLocks
    \* its calls
    pc,        \* where worker w is in its call
    req,       \* the call: operation, node and volume
    ip,        \* the annotation it read, then the IP it assigns or removes
    current,   \* its copy of the node has the stored resourceVersion
    \* the caller
    published  \* published[<<n, v>>]: the IP of the last successful publish

kubeVars == <<api, lister, watch, orphans>>
procVars == <<up, informer, ipMap, mutex, locks>>
callVars == <<pc, req, ip, current>>
vars == <<api, lister, watch, orphans, up, informer, ipMap, mutex, locks,
          pc, req, ip, current, published>>

Keys == Nodes \X Volumes
Requests == [op : {"publish", "unpublish"}, node : Nodes, vol : Volumes]
NoCall == [op |-> "none", node |-> None, vol |-> None]
PCs == {"idle", "get", "wait", "put", "applied", "refused"}

\* The volumeLocks key of a call: fmt.Sprintf("%s/%s", nodeID, volumeID). A
\* node name holds no "/", so the pair stands for the string.
LockingVolumeID(r) == <<r.node, r.vol>>

TypeOK ==
    /\ api \in [Nodes -> NodeValues]
    /\ lister \in [Nodes -> NodeValues]
    /\ watch \in [Nodes -> Seq(NodeValues)]
    /\ orphans \subseteq Nodes \X (IPs \cup {NoIP})
    /\ up \in BOOLEAN /\ informer \in BOOLEAN
    /\ ipMap \in [IPs -> Int]
    /\ mutex \in Workers \cup {None}
    /\ locks \subseteq Keys
    /\ pc \in [Workers -> PCs]
    /\ req \in [Workers -> Requests \cup {NoCall}]
    /\ \A w \in Workers : pc[w] # "idle" => req[w] \in Requests
    /\ ip \in [Workers -> Annotations \cup {NoIP}]
    /\ current \in [Workers -> BOOLEAN]
    /\ published \in [Keys -> IPs \cup {NoIP}]

-----------------------------------------------------------------------------
(***************************************************************************)
(* The node objects.                                                       *)
(***************************************************************************)

\* A new version of node n is stored. Copies of older versions no longer
\* carry the stored resourceVersion, so an update made from one is refused.
\* When no informer runs, all that counts is that the cache is behind.
Store(n, value) ==
    /\ informer => Len(watch[n]) < MaxLag
    /\ api' = [api EXCEPT ![n] = value]
    /\ watch' = [watch EXCEPT ![n] = IF informer THEN Append(@, value)
                                                ELSE <<value>>]
    /\ current' = [w \in Workers |-> current[w] /\ req[w].node # n]
    /\ orphans' = {o \in orphans : o[1] # n}

\* The informer receives the next version of n.
Deliver(n) ==
    /\ informer
    /\ watch[n] # <<>>
    /\ lister' = [lister EXCEPT ![n] = Head(watch[n])]
    /\ watch' = [watch EXCEPT ![n] = Tail(@)]
    /\ UNCHANGED <<api, orphans, procVars, callVars, published>>

\* Another client updates the node and leaves the annotation alone.
Touch(n) ==
    /\ "touch" \in Faults
    /\ api[n] # Gone
    /\ Store(n, api[n])
    /\ UNCHANGED <<lister, procVars, pc, req, ip, published>>

DeleteNode(n) ==
    /\ "churn" \in Faults
    /\ api[n] # Gone
    /\ api[n] \in IPs => ipMap[api[n]] < MaxCount
    /\ Store(n, Gone)
    /\ UNCHANGED <<lister, procVars, pc, req, ip, published>>

AddNode(n) ==
    /\ "churn" \in Faults
    /\ api[n] = Gone
    /\ Store(n, NoIP)
    /\ UNCHANGED <<lister, procVars, pc, req, ip, published>>

\* An update whose sender gave up on it, or died, is applied after all.
OrphanLands(n, value) ==
    /\ <<n, value>> \in orphans
    /\ Store(n, value)
    /\ UNCHANGED <<lister, procVars, pc, req, ip, published>>

-----------------------------------------------------------------------------
(***************************************************************************)
(* Start and end of the process.                                           *)
(***************************************************************************)

\* Mutant: the annotations of the listed nodes are not counted.
ResyncNothing(nodes) == [a \in IPs |-> 0]

\* resyncIPMap: every IP of the list at 0, plus one for each listed node that
\* carries it; other annotations are not counted.
CountNodes(nodes, a) == Cardinality({n \in Nodes : nodes[n] = a})
ResyncIPMap(nodes) == [a \in IPs |-> CountNodes(nodes, a)]

\* NewLBController: the informer lists the nodes, WaitForCacheSync waits for
\* the list, and the map is rebuilt from it before the server starts. (A list out of
\* the API server's watch cache, older than the stored nodes, is not modelled.)
Start ==
    /\ ~up
    /\ up' = TRUE
    /\ informer' = TRUE
    /\ lister' = api
    /\ watch' = [n \in Nodes |-> <<>>]
    /\ ipMap' = ResyncIPMap(lister')
    /\ UNCHANGED <<api, orphans, mutex, locks, callVars, published>>

\* The signal ends WaitForCacheSync early: the nodes received so far are all
\* the controller will ever see, and it starts to serve nonetheless.
StartUnsynced ==
    /\ "unsynced" \in Faults
    /\ ~up
    /\ up' = TRUE
    /\ lister' \in {f \in [Nodes -> NodeValues] :
                      \A n \in Nodes : f[n] \in {api[n], Gone}}
    /\ watch' = [n \in Nodes |-> <<>>]
    /\ ipMap' = ResyncIPMap(lister')
    /\ UNCHANGED <<api, orphans, informer, mutex, locks, callVars, published>>

\* The signal reaches a running controller.
StopSignal ==
    /\ "signal" \in Faults
    /\ up
    /\ informer
    /\ informer' = FALSE
    /\ UNCHANGED <<kubeVars, up, ipMap, mutex, locks, callVars, published>>

\* What the node of worker w will hold if its update is applied.
Update(w) == IF req[w].op = "publish" THEN ip[w] ELSE NoIP

\* The update of w, if it is on the wire and may still be accepted.
InFlight(w) ==
    IF pc[w] = "put" /\ current[w] THEN {<<req[w].node, Update(w)>>} ELSE {}

\* The process dies: its memory and its goroutines are gone. Without "lost"
\* an unanswered update does not outlive the process.
Crash ==
    /\ "crash" \in Faults
    /\ up
    /\ up' = FALSE
    /\ informer' = FALSE
    /\ mutex' = None
    /\ locks' = NewVolumeLocks
    /\ ipMap' = [a \in IPs |-> 0]
    /\ pc' = [w \in Workers |-> "idle"]
    /\ req' = [w \in Workers |-> NoCall]
    /\ ip' = [w \in Workers |-> NoIP]
    /\ current' = [w \in Workers |-> FALSE]
    /\ orphans' = IF "lost" \in Faults
                  THEN orphans \cup UNION {InFlight(w) : w \in Workers}
                  ELSE orphans
    /\ UNCHANGED <<api, lister, watch, published>>

-----------------------------------------------------------------------------
(***************************************************************************)
(* The calls. A call that cannot take its volume lock is answered Aborted  *)
(* and changes nothing; so is one with a missing argument.                 *)
(***************************************************************************)

\* ControllerPublishVolume or ControllerUnpublishVolume, to TryAcquire.
Call(w, op, n, v) ==
    LET r == [op |-> op, node |-> n, vol |-> v] IN
    /\ up
    /\ pc[w] = "idle"
    /\ TryAcquire(locks, LockingVolumeID(r))
    /\ locks' = Acquired(locks, LockingVolumeID(r))
    /\ req' = [req EXCEPT ![w] = r]
    /\ pc' = [pc EXCEPT ![w] = "get"]
    /\ UNCHANGED <<kubeVars, up, informer, ipMap, mutex, ip, current, published>>

\* Mutant: the volume lock is not released.
ReturnLocked(w, result) ==
    /\ pc' = [pc EXCEPT ![w] = "idle"]
    /\ req' = [req EXCEPT ![w] = NoCall]
    /\ ip' = [ip EXCEPT ![w] = NoIP]
    /\ current' = [current EXCEPT ![w] = FALSE]
    /\ published' = [published EXCEPT ![LockingVolumeID(req[w])] = result]
    /\ UNCHANGED locks

\* The handler of w returns: the deferred Release, and what the caller learns.
Return(w, result) ==
    /\ pc' = [pc EXCEPT ![w] = "idle"]
    /\ req' = [req EXCEPT ![w] = NoCall]
    /\ ip' = [ip EXCEPT ![w] = NoIP]
    /\ current' = [current EXCEPT ![w] = FALSE]
    /\ locks' = Released(locks, LockingVolumeID(req[w]))
    /\ published' = [published EXCEPT ![LockingVolumeID(req[w])] = result]

Succeed(w) ==
    Return(w, IF req[w].op = "publish" THEN ip[w] ELSE NoIP)

Fail(w) == Return(w, published[LockingVolumeID(req[w])])

\* Mutant: the error of nodeLister.Get is not looked at.
GetNodeUnchecked(w) ==
    LET n == req[w].node IN
    /\ pc[w] = "get"
    /\ req[w].op = "unpublish" => lister[n] # NoIP
    /\ pc' = [pc EXCEPT ![w] = "wait"]
    /\ ip' = [ip EXCEPT ![w] = lister[n]]
    /\ current' = [current EXCEPT ![w] = (watch[n] = <<>>)]
    /\ UNCHANGED <<kubeVars, procVars, req, published>>

\* Mutant: the update does not carry the resourceVersion of the copy, so the
\* API server takes any copy for current.
GetNodeUnversioned(w) ==
    LET n == req[w].node IN
    /\ pc[w] = "get"
    /\ lister[n] # Gone
    /\ req[w].op = "unpublish" => lister[n] # NoIP
    /\ pc' = [pc EXCEPT ![w] = "wait"]
    /\ ip' = [ip EXCEPT ![w] = lister[n]]
    /\ current' = [current EXCEPT ![w] = TRUE]
    /\ UNCHANGED <<kubeVars, procVars, req, published>>

\* nodeLister.Get, which does not take the mutex; in RemoveIPFromNode the
\* look at the annotation belongs to it.
GetNode(w) ==
    LET n == req[w].node IN
    /\ pc[w] = "get"
    /\ lister[n] # Gone
    /\ req[w].op = "unpublish" => lister[n] # NoIP
    /\ pc' = [pc EXCEPT ![w] = "wait"]
    /\ ip' = [ip EXCEPT ![w] = lister[n]]
    /\ current' = [current EXCEPT ![w] = (watch[n] = <<>>)]
    /\ UNCHANGED <<kubeVars, procVars, req, published>>

\* AssignIPToNode of a node the lister does not know is an error.
AssignNotFound(w) ==
    /\ pc[w] = "get"
    /\ req[w].op = "publish"
    /\ lister[req[w].node] = Gone
    /\ Fail(w)
    /\ UNCHANGED <<kubeVars, up, informer, ipMap, mutex>>

\* RemoveIPFromNode has nothing to do: no such node, or no annotation on it.
RemoveSkipped(w) ==
    /\ pc[w] = "get"
    /\ req[w].op = "unpublish"
    /\ lister[req[w].node] \in {Gone, NoIP}
    /\ Succeed(w)
    /\ UNCHANGED <<kubeVars, up, informer, ipMap, mutex>>

\* AssignIPToNode finds an IP of the list on its copy of the node, and
\* returns it.
AssignExisting(w) ==
    /\ pc[w] = "wait"
    /\ mutex = None
    /\ req[w].op = "publish"
    /\ ip[w] \in IPs
    /\ Succeed(w)
    /\ UNCHANGED <<kubeVars, up, informer, ipMap, mutex>>

\* RemoveIPFromNode leaves an annotation alone that is not in the map.
RemoveForeign(w) ==
    /\ pc[w] = "wait"
    /\ mutex = None
    /\ req[w].op = "unpublish"
    /\ ip[w] \notin IPs
    /\ Succeed(w)
    /\ UNCHANGED <<kubeVars, up, informer, ipMap, mutex>>

\* Mutant: the comparison of sort.Slice the wrong way round.
MostUsed == {a \in IPs : \A b \in IPs : ipMap[a] >= ipMap[b]}

\* ips[0] after the sort by count. Go iterates over a map in any order and
\* sort.Slice is not stable, so any IP with the least count can come first.
LeastUsed == {a \in IPs : \A b \in IPs : ipMap[a] <= ipMap[b]}

\* Mutant: a node that already has an IP of the list is assigned another one.
AssignAgain(w) ==
    /\ pc[w] = "wait"
    /\ mutex = None
    /\ req[w].op = "publish"
    /\ mutex' = w
    /\ pc' = [pc EXCEPT ![w] = "put"]
    /\ \E selectedIP \in LeastUsed : ip' = [ip EXCEPT ![w] = selectedIP]
    /\ UNCHANGED <<kubeVars, up, informer, ipMap, locks, req, current, published>>

\* AssignIPToNode sends the node with the selected IP to the API server.
AssignSend(w) ==
    /\ pc[w] = "wait"
    /\ mutex = None
    /\ req[w].op = "publish"
    /\ ip[w] \notin IPs
    /\ mutex' = w
    /\ pc' = [pc EXCEPT ![w] = "put"]
    /\ \E selectedIP \in LeastUsed : ip' = [ip EXCEPT ![w] = selectedIP]
    /\ UNCHANGED <<kubeVars, up, informer, ipMap, locks, req, current, published>>

\* RemoveIPFromNode sends the node without the annotation.
RemoveSend(w) ==
    /\ pc[w] = "wait"
    /\ mutex = None
    /\ req[w].op = "unpublish"
    /\ ip[w] \in IPs
    /\ mutex' = w
    /\ pc' = [pc EXCEPT ![w] = "put"]
    /\ UNCHANGED <<kubeVars, up, informer, ipMap, locks, req, ip, current, published>>

\* The API server accepts the update: its resourceVersion is the stored one.
PutApplied(w) ==
    /\ pc[w] = "put"
    /\ current[w]
    /\ Store(req[w].node, Update(w))
    /\ pc' = [pc EXCEPT ![w] = "applied"]
    /\ UNCHANGED <<lister, procVars, req, ip, published>>

\* The API server answers with an error: a conflict, a missing node, or a
\* failure of its own.
PutRefused(w) ==
    /\ pc[w] = "put"
    /\ pc' = [pc EXCEPT ![w] = "refused"]
    /\ current' = [current EXCEPT ![w] = FALSE]
    /\ UNCHANGED <<kubeVars, procVars, req, ip, published>>

\* Mutant: RemoveIPFromNode does not count down.
PutDoneUp(w) ==
    /\ pc[w] = "applied"
    /\ ipMap' = [ipMap EXCEPT ![ip[w]] = IF req[w].op = "publish" THEN @ + 1 ELSE @]
    /\ mutex' = None
    /\ Succeed(w)
    /\ UNCHANGED <<kubeVars, up, informer>>

\* The reply is a success: c.ipMap[selectedIP]++ or c.ipMap[ip]--.
PutDone(w) ==
    /\ pc[w] = "applied"
    /\ ipMap' = [ipMap EXCEPT ![ip[w]] =
                     IF req[w].op = "publish" THEN @ + 1 ELSE @ - 1]
    /\ mutex' = None
    /\ Succeed(w)
    /\ UNCHANGED <<kubeVars, up, informer>>

\* Mutant: RemoveIPFromNode counts down before it looks at the error.
PutFailedCounted(w) ==
    /\ pc[w] = "refused"
    /\ mutex' = None
    /\ ipMap' = IF req[w].op = "publish" THEN ipMap
                ELSE [ipMap EXCEPT ![ip[w]] = @ - 1]
    /\ Fail(w)
    /\ UNCHANGED <<kubeVars, up, informer>>

\* Mutant: the mutex is not unlocked when the update fails.
PutFailedLocked(w) ==
    /\ pc[w] = "refused"
    /\ Fail(w)
    /\ UNCHANGED <<kubeVars, up, informer, ipMap, mutex>>

\* The reply is an error: the call fails, the map stays.
PutFailed(w) ==
    /\ pc[w] = "refused"
    /\ mutex' = None
    /\ Fail(w)
    /\ UNCHANGED <<kubeVars, up, informer, ipMap>>

\* The controller gets an error of the transport or of its context instead of
\* the reply: the call fails, the map stays, the update takes its own course.
PutLost(w) ==
    /\ "lost" \in Faults
    /\ pc[w] \in {"put", "applied"}
    /\ -MaxCount < ipMap[ip[w]] /\ ipMap[ip[w]] < MaxCount
    /\ mutex' = None
    /\ orphans' = orphans \cup InFlight(w)
    /\ Fail(w)
    /\ UNCHANGED <<api, lister, watch, up, informer, ipMap>>

-----------------------------------------------------------------------------
(***************************************************************************)
(* The specification.                                                      *)
(***************************************************************************)

\* Before the first start the nodes may carry the annotations of an earlier
\* installation.
Init ==
    /\ api \in [Nodes -> NodeValues]
    /\ lister = api
    /\ watch = [n \in Nodes |-> <<>>]
    /\ orphans = {}
    /\ up = FALSE
    /\ informer = FALSE
    /\ ipMap = [a \in IPs |-> 0]
    /\ mutex = None
    /\ locks = NewVolumeLocks
    /\ pc = [w \in Workers |-> "idle"]
    /\ req = [w \in Workers |-> NoCall]
    /\ ip = [w \in Workers |-> NoIP]
    /\ current = [w \in Workers |-> FALSE]
    /\ published = [k \in Keys |-> NoIP]

CallStep(w) ==
    \/ GetNode(w) \/ AssignNotFound(w) \/ RemoveSkipped(w)
    \/ AssignExisting(w) \/ RemoveForeign(w)
    \/ AssignSend(w) \/ RemoveSend(w)
    \/ PutDone(w) \/ PutFailed(w)

NodeStep(n) == Deliver(n) \/ Touch(n) \/ DeleteNode(n) \/ AddNode(n)

Next ==
    \/ \E w \in Workers, op \in Ops, n \in Nodes, v \in Volumes :
           Call(w, op, n, v)
    \/ \E w \in Workers :
           CallStep(w) \/ PutApplied(w) \/ PutRefused(w) \/ PutLost(w)
    \/ \E n \in Nodes : NodeStep(n)
    \/ \E n \in Nodes, value \in IPs \cup {NoIP} : OrphanLands(n, value)
    \/ Start \/ StartUnsynced
    \/ StopSignal \/ Crash

Spec == Init /\ [][Next]_vars

-----------------------------------------------------------------------------
(***************************************************************************)
(* What the map counts.                                                    *)
(***************************************************************************)

\* "the number of nodes assigned to each IP" (README.md:19): whenever the
\* controller runs and no call is between the API server's acceptance of an
\* update and the map, ipMap counts the nodes that carry each annotation.
CountMatches ==
    up /\ mutex = None =>
        \A a \in IPs : ipMap[a] = CountNodes(api, a)

\* With node objects coming and going the map may count too many nodes, since
\* RemoveIPFromNode skips a missing node, but it never counts too few: no IP
\* looks less loaded than it is, and no count becomes negative.
CountCovers ==
    up /\ mutex = None =>
        \A a \in IPs : ipMap[a] >= CountNodes(api, a)

\* The change the API server has accepted for the call that holds the mutex
\* and that the map does not have yet.
Pending(a) ==
    IF mutex # None /\ pc[mutex] = "applied" /\ ip[mutex] = a
    THEN IF req[mutex].op = "publish" THEN 1 ELSE -1
    ELSE 0

\* CountMatches and CountCovers at every moment, also while the mutex is held
\* (for environments that neither lose replies nor cut a start short).
MapFollowsNodes ==
    up => \A a \in IPs :
              /\ ipMap[a] + Pending(a) >= CountNodes(api, a)
              /\ "churn" \notin Faults =>
                     ipMap[a] + Pending(a) = CountNodes(api, a)

\* A copy of a node that still has the stored resourceVersion has the stored
\* annotation, although it was read from the cache before the mutex was
\* taken: an update that will be accepted adds an IP to a node that has none
\* of the list, or removes the IP that is there.
CopiesTrue ==
    /\ \A n \in Nodes :
           IF watch[n] = <<>> THEN lister[n] \in {api[n], Gone}
                              ELSE watch[n][Len(watch[n])] = api[n]
    /\ \A w \in Workers : current[w] =>
           LET n == req[w].node IN
           /\ pc[w] \in {"wait", "put"}
           /\ pc[w] = "wait" => ip[w] = api[n]
           /\ pc[w] = "put" /\ req[w].op = "publish" => api[n] \notin IPs
           /\ pc[w] = "put" /\ req[w].op = "unpublish" => api[n] = ip[w]

\* The mutex is held by exactly the call that has an update at the API
\* server, the volume locks are exactly those of the calls in progress, and
\* no two calls work on the same node and volume: no return path, and no
\* crash, leaves a lock behind or releases that of another call.
LocksMatchCalls ==
    /\ \A w \in Workers :
           mutex = w <=> pc[w] \in {"put", "applied", "refused"}
    /\ locks = {LockingVolumeID(req[w]) : w \in {x \in Workers : pc[x] # "idle"}}
    /\ \A w, x \in Workers :
           /\ pc[w] # "idle" /\ pc[x] # "idle"
           /\ LockingVolumeID(req[w]) = LockingVolumeID(req[x])
           => w = x

-----------------------------------------------------------------------------
(***************************************************************************)
(* What the answers of the two RPCs mean for the node.                     *)
(***************************************************************************)

\* As long as nothing is unpublished and no node is replaced, the IP a publish
\* returned stays the annotation of its node, whatever the cache showed, so
\* that all volumes of a node are mounted from one server.
PublishedIPStays ==
    \A n \in Nodes, v \in Volumes :
        published[<<n, v>>] # NoIP => api[n] = published[<<n, v>>]

\* "Upon successful IP assignment and node update, the controller passes the
\* assigned IP" (README.md:27): when a publish succeeds, its node carries the
\* IP that is returned.
PublishAnnotates ==
    [][\A n \in Nodes, v \in Volumes :
           published'[<<n, v>>] \notin {published[<<n, v>>], NoIP}
           => api'[n] = published'[<<n, v>>]]_vars

\* "It also unassigns an NFS server IP once all the Pods have been removed on
\* the same node" (README.md:14): the annotation of a node is not removed
\* while a volume other than the one being unpublished is published there.
RemovedWithLastVolume ==
    [][\A n \in Nodes :
           api[n] \in IPs /\ api'[n] = NoIP
           => Cardinality({v \in Volumes : published[<<n, v>>] # NoIP}) <= 1]_vars

-----------------------------------------------------------------------------
(***************************************************************************)
(* Progress.                                                               *)
(***************************************************************************)

\* A goroutine that can run does, and sync.Mutex does not starve a waiter;
\* the API server answers every request; the informer, while it runs, gets
\* every event; Kubernetes restarts the controller.
Fairness ==
    /\ \A w \in Workers :
           /\ WF_vars(GetNode(w) \/ AssignNotFound(w) \/ RemoveSkipped(w))
           /\ SF_vars(AssignExisting(w) \/ AssignSend(w))
           /\ SF_vars(RemoveForeign(w) \/ RemoveSend(w))
           /\ WF_vars(PutApplied(w) \/ PutRefused(w))
           /\ WF_vars(PutDone(w) \/ PutFailed(w))
    /\ \A n \in Nodes : WF_vars(Deliver(n))
    /\ WF_vars(Start)

FairSpec == Spec /\ Fairness

\* The attacher calls ControllerPublishVolume again until it succeeds, and
\* the API server does not refuse up-to-date updates for ever.
RetrySpec ==
    /\ FairSpec
    /\ \A n \in Nodes, v \in Volumes :
           SF_vars(\E w \in Workers : Call(w, "publish", n, v))
    /\ \A w \in Workers : SF_vars(PutApplied(w))

\* Every call is answered, or ends with the process: no call waits for ever
\* for the mutex, whatever is lost, refused or stale.
CallsTerminate == \A w \in Workers : pc[w] # "idle" ~> pc[w] = "idle"

\* "If the node object update fails, ControllerPublishVolume retries in the
\* next reconcile loop" (README.md:27): once no volume is being unpublished
\* any more, the retries get through although each reads a cache that may be
\* stale and may lose its reply.
PublishSucceeds ==
    <>[](\A w \in Workers : req[w].op # "unpublish") =>
        \A n \in Nodes, v \in Volumes :
            api[n] # Gone ~> published[<<n, v>>] # NoIP

=============================================================================
