----------------------------- MODULE NodeServer -----------------------------
(***************************************************************************)
(* NodePublishVolume and NodeUnpublishVolume of one node                   *)
(* (pkg/nfs/nodeserver.go): the calls the kubelet makes, cut into the      *)
(* system calls and commands they issue, over the mounts and the           *)
(* directories of the host, which survive a restart of the driver.         *)
(*                                                                         *)
(* A target path belongs to one pod and one volume, so every call for it   *)
(* carries the same arguments. The share being the same for all volumes    *)
(* (README.md:85), the source of a mount is its server IP. The kernel      *)
(* keeps one backing device, and so one read_ahead_kb, per mounted source. *)
(***************************************************************************)
EXTENDS Integers, FiniteSets, VolumeLocks

CONSTANTS
    Targets,     \* target paths
    IPs,         \* NFS server IPs
    Workers,     \* gRPC goroutines of the node driver
    ReadAheads,  \* valid values of read_ahead_kb
    Unset,       \* no read_ahead_kb among the mount options
    Invalid,     \* a read_ahead_kb that is not a non-negative integer
    Default,     \* the read_ahead_kb of a new backing device
    None,
    NodeFaults   \* "error": system calls and commands may fail;
                 \* "crash": the driver may be restarted

ASSUME NodeAssumption ==
    /\ IsFiniteSet(Targets)
    /\ Unset # Invalid /\ Unset \notin ReadAheads /\ Invalid \notin ReadAheads
    /\ NodeFaults \subseteq {"error", "crash"}

VARIABLES
    request,    \* request[t]: PublishContext IP and read_ahead_kb of target t
    dir,        \* the target paths that exist
    mounts,     \* mounts[t]: file systems mounted on top of each other at t
    readAhead,  \* readAhead[i]: read_ahead_kb of the device of source i
    locks,      \* Driver.volumeLocks
    pc,         \* where worker w is in its call
    target,     \* the target path of its call
    told        \* told[t]: what the last answer for t told the kubelet

hostVars == <<dir, mounts, readAhead>>
vars == <<request, dir, mounts, readAhead, locks, pc, target, told>>

PublishPCs == {"check", "mount", "setup", "verify"}
UnpublishPCs == {"cleanup", "remove"}

TypeOK ==
    /\ request \in [Targets -> [ip : IPs,
                                readAhead : ReadAheads \cup {Unset, Invalid}]]
    /\ dir \subseteq Targets
    /\ mounts \in [Targets -> Nat]
    /\ readAhead \in [IPs -> ReadAheads \cup {Default}]
    /\ locks \subseteq Targets
    /\ pc \in [Workers -> PublishPCs \cup UnpublishPCs \cup {"idle"}]
    /\ target \in [Workers -> Targets \cup {None}]
    /\ told \in [Targets -> {"published", "clean", "unknown"}]

-----------------------------------------------------------------------------
(***************************************************************************)
(* Calls and answers. The lock key is volume id and target path; here the  *)
(* target path determines the volume. A call that finds the lock taken is  *)
(* answered Aborted; one without a share, a volume id, a target path or an *)
(* IP in its PublishContext is answered InvalidArgument. Neither changes   *)
(* anything.                                                               *)
(***************************************************************************)

Call(w, first, t) ==
    /\ pc[w] = "idle"
    /\ TryAcquire(locks, t)
    /\ locks' = Acquired(locks, t)
    /\ pc' = [pc EXCEPT ![w] = first]
    /\ target' = [target EXCEPT ![w] = t]
    /\ told' = [told EXCEPT ![t] = "unknown"]
    /\ UNCHANGED <<request, hostVars>>

NodePublishVolume(w, t) == Call(w, "check", t)
NodeUnpublishVolume(w, t) == Call(w, "cleanup", t)

\* Mutant: the volume lock is not released.
AnswerLocked(w, news) ==
    /\ pc' = [pc EXCEPT ![w] = "idle"]
    /\ target' = [target EXCEPT ![w] = None]
    /\ told' = [told EXCEPT ![target[w]] = news]
    /\ UNCHANGED <<request, locks>>

\* The handler returns: the deferred Release, and what the kubelet learns.
Answer(w, news) ==
    /\ pc' = [pc EXCEPT ![w] = "idle"]
    /\ target' = [target EXCEPT ![w] = None]
    /\ locks' = Released(locks, target[w])
    /\ told' = [told EXCEPT ![target[w]] = news]
    /\ UNCHANGED request

Continue(w, next) ==
    /\ pc' = [pc EXCEPT ![w] = next]
    /\ UNCHANGED <<request, locks, target, told>>

\* A system call or command of the step fails, and so does the call.
StepFails(w) ==
    /\ "error" \in NodeFaults
    /\ pc[w] # "idle"
    /\ Answer(w, "unknown")
    /\ UNCHANGED hostVars

-----------------------------------------------------------------------------
(***************************************************************************)
(* NodePublishVolume.                                                      *)
(***************************************************************************)

\* IsLikelyNotMountPoint: something is mounted, nothing is left to do.
AlreadyMounted(w) ==
    /\ pc[w] = "check"
    /\ mounts[target[w]] > 0
    /\ Answer(w, "published")
    /\ UNCHANGED hostVars

\* Mutant: mounts without a look at what is mounted.
PrepareMounted(w) ==
    /\ pc[w] = "check"
    /\ dir' = dir \cup {target[w]}
    /\ Continue(w, "mount")
    /\ UNCHANGED <<mounts, readAhead>>

\* Not a mount point; MkdirAll if it does not exist.
PrepareTarget(w) ==
    /\ pc[w] = "check"
    /\ mounts[target[w]] = 0
    /\ dir' = dir \cup {target[w]}
    /\ Continue(w, "mount")
    /\ UNCHANGED <<mounts, readAhead>>

\* The source is in use by a mount.
Mounted(i) == \E t \in Targets : mounts[t] > 0 /\ request[t].ip = i

\* mounter.Mount: the first mount of a source gets a new backing device.
Mount(w) ==
    LET i == request[target[w]].ip IN
    /\ pc[w] = "mount"
    /\ mounts' = [mounts EXCEPT ![target[w]] = @ + 1]
    /\ readAhead' = [readAhead EXCEPT ![i] = IF Mounted(i) THEN @ ELSE Default]
    /\ Continue(w, "setup")
    /\ UNCHANGED dir

\* After the chmod, if any: extractReadAheadKBMountFlag rejects the option, ...
RejectReadAhead(w) ==
    /\ pc[w] = "setup"
    /\ request[target[w]].readAhead = Invalid
    /\ Answer(w, "unknown")
    /\ UNCHANGED hostVars

\* ... does not find it, ...
NoReadAhead(w) ==
    /\ pc[w] = "setup"
    /\ request[target[w]].readAhead = Unset
    /\ Answer(w, "published")
    /\ UNCHANGED hostVars

\* ... or finds a value, which updateReadAhead writes to the device ...
WriteReadAhead(w) ==
    LET r == request[target[w]] IN
    /\ pc[w] = "setup"
    /\ r.readAhead \in ReadAheads
    /\ readAhead' = [readAhead EXCEPT ![r.ip] = r.readAhead]
    /\ Continue(w, "verify")
    /\ UNCHANGED <<dir, mounts>>

\* ... and reads back: a different value is an error.
VerifyReadAhead(w) ==
    LET r == request[target[w]] IN
    /\ pc[w] = "verify"
    /\ Answer(w, IF readAhead[r.ip] = r.readAhead THEN "published"
                                                  ELSE "unknown")
    /\ UNCHANGED hostVars

-----------------------------------------------------------------------------
(***************************************************************************)
(* NodeUnpublishVolume: mount.CleanupMountWithForce.                       *)
(***************************************************************************)

\* Mutant: a path that is no mount point is left there.
CleanupKeeps(w) ==
    /\ pc[w] = "cleanup"
    /\ mounts[target[w]] = 0
    /\ Answer(w, "clean")
    /\ UNCHANGED hostVars

\* The path does not exist, or is no mount point and is removed.
CleanupUnmounted(w) ==
    /\ pc[w] = "cleanup"
    /\ mounts[target[w]] = 0
    /\ dir' = dir \ {target[w]}
    /\ Answer(w, "clean")
    /\ UNCHANGED <<mounts, readAhead>>

\* Mutant: unmounts without a look at what is mounted.
UnmountAlways(w) ==
    /\ pc[w] = "cleanup"
    /\ mounts' = [mounts EXCEPT ![target[w]] = @ - 1]
    /\ Continue(w, "remove")
    /\ UNCHANGED <<dir, readAhead>>

\* UnmountWithForce takes off the topmost mount.
Unmount(w) ==
    /\ pc[w] = "cleanup"
    /\ mounts[target[w]] > 0
    /\ mounts' = [mounts EXCEPT ![target[w]] = @ - 1]
    /\ Continue(w, "remove")
    /\ UNCHANGED <<dir, readAhead>>

\* The path is removed unless it is still a mount point, which is an error.
RemoveTarget(w) ==
    LET t == target[w]
        unmounted == mounts[t] = 0
    IN
    /\ pc[w] = "remove"
    /\ dir' = IF unmounted THEN dir \ {t} ELSE dir
    /\ Answer(w, IF unmounted THEN "clean" ELSE "unknown")
    /\ UNCHANGED <<mounts, readAhead>>

-----------------------------------------------------------------------------
(***************************************************************************)
(* The specification.                                                      *)
(***************************************************************************)

Init ==
    /\ request \in [Targets -> [ip : IPs,
                                readAhead : ReadAheads \cup {Unset, Invalid}]]
    /\ dir = {}
    /\ mounts = [t \in Targets |-> 0]
    /\ readAhead = [i \in IPs |-> Default]
    /\ locks = NewVolumeLocks
    /\ pc = [w \in Workers |-> "idle"]
    /\ target = [w \in Workers |-> None]
    /\ told = [t \in Targets |-> "clean"]

\* The driver is restarted; the host keeps its mounts and directories.
Restart ==
    /\ "crash" \in NodeFaults
    /\ locks' = NewVolumeLocks
    /\ pc' = [w \in Workers |-> "idle"]
    /\ target' = [w \in Workers |-> None]
    /\ UNCHANGED <<request, hostVars, told>>

PublishStep(w) ==
    \/ AlreadyMounted(w) \/ PrepareTarget(w) \/ Mount(w)
    \/ RejectReadAhead(w) \/ NoReadAhead(w)
    \/ WriteReadAhead(w) \/ VerifyReadAhead(w)

UnpublishStep(w) == CleanupUnmounted(w) \/ Unmount(w) \/ RemoveTarget(w)

Next ==
    \/ \E w \in Workers, t \in Targets :
           NodePublishVolume(w, t) \/ NodeUnpublishVolume(w, t)
    \/ \E w \in Workers : PublishStep(w) \/ UnpublishStep(w) \/ StepFails(w)
    \/ Restart

Spec == Init /\ [][Next]_vars

\* The kubelet repeats NodeUnpublishVolume until it succeeds, calls make
\* progress, and no command fails for ever for the same target.
RetrySpec ==
    /\ Spec
    /\ \A w \in Workers : WF_vars(PublishStep(w))
    /\ \A t \in Targets :
           /\ SF_vars(\E w \in Workers : NodeUnpublishVolume(w, t))
           /\ SF_vars(\E w \in Workers : target[w] = t /\ CleanupUnmounted(w))
           /\ SF_vars(\E w \in Workers : target[w] = t /\ Unmount(w))
           /\ SF_vars(\E w \in Workers : target[w] = t /\ RemoveTarget(w))

-----------------------------------------------------------------------------
(***************************************************************************)
(* Properties.                                                             *)
(***************************************************************************)

\* Looking for a mount and mounting are separate steps, but no interleaving
\* of calls, failure or restart mounts a share twice at one target path (of
\* which one NodeUnpublishVolume would unmount only one).
MountsNeverStack == \A t \in Targets : mounts[t] <= 1

\* After a successful NodePublishVolume the target is mounted, after a
\* successful NodeUnpublishVolume it is neither mounted nor there, until the
\* next call for it.
AnswersTrue ==
    \A t \in Targets :
        /\ told[t] = "published" => t \in dir /\ mounts[t] = 1
        /\ told[t] = "clean" => t \notin dir /\ mounts[t] = 0

\* "Users can specify mount.nfs(8) options, along with read_ahead_kb, to
\* fine-tune the kernel page cache" (README.md:82): a published target whose
\* source no other target uses has the read_ahead_kb of its mount options.
ReadAheadApplied ==
    \A t \in Targets :
        /\ told[t] = "published"
        /\ request[t].readAhead \in ReadAheads
        /\ \A u \in Targets : request[u].ip = request[t].ip => u = t
        => readAhead[request[t].ip] = request[t].readAhead

\* A target whose unpublish is repeated is eventually unmounted and removed,
\* whatever the calls before it left behind.
UnpublishSucceeds == \A t \in Targets : []<>(told[t] = "clean")

=============================================================================
