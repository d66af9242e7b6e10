# TLA+ models of the NFS load balancing CSI driver

The driver gives every Kubernetes node one of several NFS server IPs and mounts
NFS shares from it. This directory models its stateful parts in TLA+, checks
them with TLC on small instances, and proves the main safety properties with
TLAPS for instances of any size. `PROJECT.json` holds the details: the source
lines of each definition, the runs, the hazards, the findings, the theorems.

## The system

| part | source | state | operations | module |
|---|---|---|---|---|
| load balancing controller | `pkg/lbcontroller/lbcontroller.go` | node annotation `assigned-ip` (in Kubernetes), `ipMap`, `mutex`, informer cache | `NewLBController`, `resyncIPMap`, `AssignIPToNode`, `RemoveIPFromNode` | `LBController`, `IPBalancer`, `LBRefinement` |
| controller RPCs | `pkg/nfs/controllerserver.go` | volume locks | `ControllerPublishVolume`, `ControllerUnpublishVolume` | `LBController` |
| volume locks | `pkg/nfs/utils.go` | a set of names | `TryAcquire`, `Release` | `VolumeLocks` |
| node server | `pkg/nfs/nodeserver.go`, `mount-utils` | mounts, directories, `read_ahead_kb` (on the host), volume locks | `NodePublishVolume`, `NodeUnpublishVolume` | `NodeServer` |
| volume statistics | `pkg/nfs/nodeserver.go`, timed cache | one cache entry per volume | `NodeGetVolumeStats` | `VolStats` |
| process | `cmd/nfsplugin/main.go`, `pkg/nfs/nfs.go`, `pkg/nfs/server.go` | goroutines, socket file, registered services | `main`, `handle`, `NewDriver`, `Run`, `serve` | `DriverProcess` |
| provisioning, snapshots | `pkg/nfs/controllerserver.go` | directories and archives on the share, volume locks | `CreateVolume`, `DeleteVolume`, `CreateSnapshot`, `DeleteSnapshot` | `Provisioner` |
| volume and snapshot ids | `pkg/nfs/controllerserver.go` | none: the ids are the only record of a volume | `getVolumeIDFromNfsVol`, `getNfsVolFromID`, `newNFSVolume` and the snapshot counterparts | `VolumeIDs` |
| identity server, capabilities, version | `pkg/nfs` | none | constant answers | none |

The attacher calls the controller RPCs; the IP a publish returns travels in the
`PublishContext` to `NodePublishVolume` on the node, which mounts from it. The
controller keeps its truth in the node annotations and a count per IP in memory.
The provisioning RPCs ask the node server of the same process to mount a share in
the controller's own container, in order to work on its directories; in this
repository that mount is always refused (see Provisioner).

What makes this hard: the node is read from a cache before the mutex is taken;
annotation and map change in two steps with a network request between them;
replies get lost and requests outlive their sender; the process crashes, or
loses its informer to a signal; nodes disappear; mounting is a sequence of
commands, any of which fails; retries meet what their predecessors left behind.

## The modules

**LBController.** A call runs in a worker and is cut where others can interfere:
`Call` (arguments, volume lock), `GetNode` (lister, without the mutex), then under
the mutex `AssignExisting`, `RemoveForeign`, or `AssignSend`/`RemoveSend`; the API
server's `PutApplied` or `PutRefused`; and `PutDone`, `PutFailed` or `PutLost` when
the reply arrives or does not. A node object is its annotation (`NoIP`: none;
`Gone`: no node). `current[w]` says that the copy of worker `w` still has the
stored resourceVersion, which is what the API server compares; `watch[n]` are the
versions the informer has yet to receive. `orphans` are updates on the wire whose
sender has given up. The constant `Faults` selects what the environment does:
crash, node churn, other writers (touch), signal (informer stopped, calls still
served: for good after SIGINT, which main does not wait for), unsynced (a signal
that ends `WaitForCacheSync` early; its result is ignored) and lost replies.
`LeastUsed` is a set because Go's map order and `sort.Slice` fix no order of ties.
An update changes the annotation first and the map when the reply has come; the
repository's README.md:31 gives the opposite order for the removal. A start lists
the stored nodes; a first list that comes from the API server's watch cache, and is
older, is not modelled.

**IPBalancer** is the promise: a node without an IP gets one of least load, in one
step on a variable everybody sees. **LBRefinement** maps the stored annotations
to it.

**NodeServer.** The two node calls as the system calls and commands they issue;
`told[t]` is what the last answer told the kubelet. All calls for a target carry
the same arguments. The kernel has one backing device, and one `read_ahead_kb`,
per mounted source.

**VolStats.** One volume, several paths, a clock; statistics are the moment of
their sample. The cache entry is replaced by nil on a miss (the getter returns
nil) and stamped when it is set. The cache is keyed by the volume and asked before
the path is looked at, so a path that is gone is answered from it; the test of
`NodeGetVolumeStats` for a missing path expects NotFound (nodeserver_test.go:428)
and starts with an empty cache.

**DriverProcess.** The goroutines main, handle and serve, restarts, the socket
file, which serve removes and then binds: two steps, and the process may die
between any two. A call to a server that was registered but not created
(`NilServer`) ends the process if its method touches a field of the server, and may
also be answered (the methods that only say Unimplemented); a provisioning call in a
process without the node server (`NilNodeServer`) ends the process. `Run(true)` and
`Stop`, used by tests only, are left out.

**VolumeIDs.** The functions that make ids and paths and read them back. A string
is the sequence of its parts, cut at the separators `/` and `#`; that is enough for
`Trim`, `Split`, `Join`, `filepath.Join` and the pattern of the old ids to be what
they are, and not the identity.

**Provisioner.** The four handlers up to the place where this repository ends them.
A handler validates its request, works out the volume from the parameters or from
the id, answers at once if that decides it (`retain`, an id that does not parse), and
otherwise mounts the share: `internalMount` calls `NodePublishVolume`, which takes the
lock of id and target (`MountLock`) and then refuses the request, because
`internalMount` sends no `PublishContext` (`InternalPublishContext`, `HasAddress`);
without a node server the call is a panic (`Panic`). The handlers have no lock of their
own and a sidecar that has waited long enough calls again, so calls overlap without
restriction, also for one volume, and answers may go unheard. What the handlers would
do behind the mount is one operator, `BehindMount`: which paths it makes, moves and
removes, and whether it succeeds. No behaviour gets there; it is in the model so
that the properties have something to be about, and breaking the refusal breaks them.
`objects` are the volumes and snapshots that exist already, with ids of the driver
this one derives from, of older drivers, or of the person who made them.
`DefaultOnDeletePolicy` is empty: `NewDriver` does not copy the option
`--default-ondelete-policy`, so that a volume without a policy of its own is not kept
when the option says retain; its deletion goes on to the mount, and fails there.

Operators marked "Mutant" are broken variants of the definition that follows
them. They are used by no specification; substituting one for the definition
makes TLC report the property `PROJECT.json` pairs it with.

## The runs

| run | question | result |
|---|---|---|
| `balancing` | does the controller implement the balancer; do map, copies and locks stay right | holds |
| `over_count` | what is left of the count when nodes come and go | never too small |
| `publish_only` | does a published IP stay on the node, under every fault but churn | holds |
| `progress` | does every call end; do repeated publishes succeed | holds |
| `node_mounts` | stacked mounts, true answers, unpublish gets through | holds |
| `stats_fresh` | age of an answer | below expiry + one call |
| `process` | clean restart, start-up ends, SIGTERM ends the process | holds |
| `provisioning` | is the share untouched, is what callers are told so, is no lock left behind | holds |
| `lost_reply` | is the count right after a lost reply (README.md:19) | violated |
| `stale_publish` | does a successful publish mean the node carries the IP (README.md:27) | violated |
| `second_volume` | is the IP kept while another volume is published (README.md:14) | violated |
| `node_readahead_lost` | is `read_ahead_kb` applied after a failure (README.md:82) | violated |

The violations are behaviours of the code that disagree with the quoted line
(`README.md` there is the repository's):

- `lost_reply`: the update of a publish was applied and its reply lost. The call
  returns the error before it counts: the node carries the IP, the map does not.
- `stale_publish`: a publish right after an unpublish returns the annotation of
  the cached node, which the API server no longer has.
- `second_volume`: one annotation serves all volumes of a node, and the first
  unpublish removes it.
- `node_readahead_lost`: a step after the mount fails, the mount stays, and the
  retry takes it for a finished publish.

The models reach further behaviours that have no run of their own; `PROJECT.json`
lists them as hazards: an unpublish that a stale cache turns into a no-op, an
invalid `read_ahead_kb` accepted by the retry, the count of a deleted node kept
until the restart (README.md:91 names the consequence), the count after a start
cut short by a signal, services registered although their server is nil,
`os.Exit` overtaking the signal to the NFS services, statistics for a path that is
gone, and the default deletion policy that has no effect.

### Bounds

Two nodes, two IPs and two workers let two calls meet on one node, on two nodes,
and on one IP; two volumes let two calls pass the volume locks for the same node.
`over_count`, `lost_reply` and `stale_publish` need one volume only. `progress` has
one node, one IP and two volumes: what it asks is about locks and retries, not
about which IP is chosen; it has lost replies, but neither crashes, other writers nor
a stopped informer: with a cache that is never refreshed no retry helps. `MaxLag`
bounds undelivered events per node (1 or 2; one
is enough for a stale cache, and a stopped informer is stale without bound).
`MaxCount` bounds how far the faults that make the map drift may drive a count.
In `VolStats`, `MaxCall` bounds the duration of a call and is part of the property;
`MaxTime` is two expiries. Symmetry is used in safety runs only.

`provisioning` has two volumes, one of them yet to be created, one snapshot and two
workers, so that any two calls overlap, for the same volume or for different ones.
The five classes combine own and nested subDir, shares with slashes around them, a
snapshot share of its own, the policies retain, archive, delete and none, and one
policy that does not validate. TLC checks for deadlock in all runs.

### Fairness

`Fairness` (LBController): a goroutine that can run does (WF); a waiter gets the
mutex (SF, `sync.Mutex` has a starvation mode); the API server answers; a running
informer gets its events; the pod is restarted. `RetrySpec` adds that the attacher
repeats a publish and that the API server does not refuse up-to-date updates for
ever. `PublishSucceeds` assumes that unpublishes end: TLC shows that without this
an unpublish of another volume can undo every attempt. NodeServer's `RetrySpec`:
the kubelet repeats an unpublish, calls make progress, and no command fails for
ever for one target. DriverProcess: goroutines run; `Run` includes the wait for the
node list, so `ServesEventually` assumes that the API server answers it.
`TermStops` does not depend on that.

## The proofs

| theorem | states | under |
|---|---|---|
| `TypeCorrect`, `LocksCorrect`, `CopiesCorrect` | `[]TypeOK`, `[]LocksMatchCalls`, `[]CopiesTrue` | all faults |
| `CountsCover` | `[]CountCovers` | `ReliableStart` |
| `CountsMatch` | `[]CountMatches` | `ReliableStart`, no churn |
| `Refinement` | `ImplementsBalancer` | `ReliableStart`, no churn |
| `AssignsEvenly` | `AssignNeverSkews` | `ReliableStart`, no churn |
| `BalancerNeverSkews` | `NeverSkews` of the abstract balancer | finite sets |
| `PublishedStays` | `[]PublishedIPStays` | `OnlyPublish` |
| `NodeTypeCorrect`, `NeverStacked`, `AnswersHold` | `[]TypeOK`, `[]MountsNeverStack`, `[]AnswersTrue` of NodeServer | all faults |
| `StatsTypeCorrect`, `AnswersFresh` | `[]TypeOK`, `[]StatsFresh` of VolStats | none |
| `RefusedCallsChangeNothing` | `RefusedChangesNothing` of Provisioner | none |
| `MountLocksMatch` | `[]LocksMatchMounts` of Provisioner | none |
| `AnswersAreDecided` | `[]OnlyDecidedAnswers`: no creation succeeds; a deletion only if the id does not parse or says retain | none |

`LBControllerProofs` has the types, the locks, the copies and the published IP;
`LBRefinementProofs`, on top of it and of `IPBalancerProofs`, the counts and the
refinement. `NodeServerProofs`, `VolStatsProofs` and `ProvisionerProofs` stand alone.

`ReliableStart` says that no reply is lost and no start cut short; `lost_reply`
shows that the first is needed. `OnlyPublish` says that no call unpublishes and no
node object is deleted or created; every other fault is allowed.

*The count.* `CountMatches` looks only at moments when the mutex is free and is not
inductive. `MapFollowsNodes` adds the one update that is stored and not yet
counted (`Pending`). That an accepted update changes the count of exactly the IP
the call will count needs `CopiesTrue` (a copy with the stored version has the
stored annotation), and that there is only one such update needs
`LocksMatchCalls`. `CountInv` is their conjunction, with no orphans and no calls
while the process is down; `CountUpdate` says how a changed node changes counts.

*The refinement* adds `ChosenInv`: the IP on its way to the API server still has
the least count, since only the holder of the mutex changes the map. With the
exact count, least in the map is least in the annotations. `AssignsEvenly`
instantiates the balancer's theorem through the refinement.

*The published IP.* `PublishedIPStays` speaks of answers only. `StaysInv` adds that
wherever an IP of the list is seen on a node (the cache, the undelivered versions,
the copy of a call before the mutex, a stored update that is not yet answered) the
node has it, and that an update nobody waits for is for a node without one. Then no
step takes an IP from a node: an update that is accepted comes from a call that saw
none, and by `CopiesTrue` it saw the stored object.

*The mounts.* `MountInv` ties each call to the lock of its target and says what the
call knows of the mount at each of its steps.

*The provisioning calls.* `IInv` of ProvisionerProofs adds to the two properties that
a call which is going to answer with success is a deletion that its id alone decides
(`CallInv`), and so not one that has been to its mount. The theorem about the locks is
the interleaving one: two calls for one volume have the same key, and the refusal of
one must release its own lock and no other.

*The statistics.* `FreshInv` bounds the age of the cached sample by the age of the
entry plus `MaxCall`, and that of a sample in hand by the time since its call began.

The constants' assumptions are `ConstantsAssumption`, `NodeAssumption` and
`StatsAssumption` (finiteness, distinctness, ranges); TLC evaluates them for the
instances it checks. Provisioner needs none.

Only model-checked: all liveness (fairness is out of the prover's reach);
`RestartsCleanly` of DriverProcess, which has no parameter but the flags, so that
the run is exhaustive; and `ReportsHold`: that the policy in an id is the one the
volume was created with is a matter of what `Split` and `Join` compute, which needs
induction over data.

VolumeIDs and Provisioner define the few sequence operators they need themselves
(`IsPrefix`, `Parent`, the recursive functions in `Join` and `Split`): the library
module with such operators brings so many definitions and theorems into every
proof obligation that the provers run out of time.

## Not modelled

- Identity server, capabilities, unimplemented RPCs and version: stateless, they
  answer constants. Test fakes, Helm chart, scripts, logging.
- `Stop`, `ForceStop` and the test mode of `Run`: nothing but tests calls them.
- Permission bits of chmod and the text of mount options: no property tells them
  apart. `read_ahead_kb`, the one option with an effect of its own, is modelled.
- Request fields whose only effect is InvalidArgument: an action that changes
  nothing; one such class stands for them in Provisioner.
- Attacher, controller and node server in one module: the node mounts from the
  address in the `PublishContext`, which is the answer of the publish, kept by
  Kubernetes. That all volumes of a node come from one server is therefore
  `PublishedIPStays`, and where it fails is `second_volume` and `stale_publish`; the
  node server adds nothing to either.
- What the provisioning handlers do behind their mount step by step, with the second
  mounts, the unmounts and the copied data: no behaviour of this repository gets there.
- Names of volumes and shares that contain the separator of the ids, `#`.
