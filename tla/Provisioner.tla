---------------------------- MODULE Provisioner -----------------------------
(***************************************************************************)
(* CreateVolume, DeleteVolume, CreateSnapshot and DeleteSnapshot           *)
(* (pkg/nfs/controllerserver.go). Before it touches a directory, a handler *)
(* mounts the share of its volume (internalMount) with NodePublishVolume   *)
(* of the node server in the same process. internalMount sends no          *)
(* PublishContext, and NodePublishVolume refuses a request without one: a  *)
(* call is answered before its mount, or fails there; in a process without *)
(* a node server it ends the process.                                      *)
(*                                                                         *)
(* What a handler does behind a mount that succeeds (it never does) is one *)
(* step here, with the second mounts, the copies and the deferred unmounts *)
(* of the code: it says which directories the refusal protects. The data   *)
(* in the directories is left out.                                         *)
(*                                                                         *)
(* The handlers take no lock of their own, and a caller that stops waiting *)
(* repeats its call while the first is still running: calls overlap as     *)
(* they please, also for the same volume.                                  *)
(***************************************************************************)
EXTENDS VolumeIDs, VolumeLocks

CONSTANTS
    Volumes,    \* names of volumes
    Snapshots,  \* names of snapshots
    New,        \* the ones of them that do not exist yet
    Workers,    \* gRPC goroutines of the controller
    Classes,    \* parameters: server, share, subDir, onDelete, snapshotShare
    None        \* nothing

Objects == Volumes \cup Snapshots

VARIABLES
    class,    \* the parameters of the storage and snapshot classes
    node,     \* the process runs a node server
    objects,  \* objects[x]: id, path and deletion policy of x, as its creator
              \* (the driver this one derives from, or a person) chose them
    tree,     \* the paths of the directories and archives on the NFS servers
    locks,    \* Driver.volumeLocks
    run,      \* run[w]: the call of worker w
    created,  \* what the callers were told is created,
    deleted   \* and deleted

setting == <<class, node, objects>>
vars == <<class, node, objects, tree, locks, run, created, deleted>>

\* A call is "idle", or at "mount", at "publish" with the lock of its mount, or
\* at "return" with its answer: an error unless ok.
Idle == [op |-> "none", subject |-> None, source |-> None, vol |-> None,
         at |-> "idle", ok |-> FALSE]

-----------------------------------------------------------------------------
(***************************************************************************)
(* Paths on the servers, and the file operations on the set of them.       *)
(***************************************************************************)

IsPrefix(p, q) == Len(p) <= Len(q) /\ SubSeq(q, 1, Len(p)) = p
Prefixes(p) == {SubSeq(p, 1, n) : n \in 1 .. Len(p)}
Parent(p) == SubSeq(p, 1, Len(p) - 1)

MkdirAll(paths, p) == paths \cup Prefixes(p)
RemoveAll(paths, p) == {q \in paths : ~IsPrefix(p, q)}
Rename(paths, from, to) ==
    RemoveAll(paths, from)
    \cup {to \o SubSeq(q, Len(from) + 1, Len(q)) : q \in {r \in paths : IsPrefix(from, r)}}

\* Where a volume, its archived copy and a snapshot's archive are.
Home(vol) == Path(vol.baseDir) \o SubPath(vol)
Archived(vol) == Path(vol.baseDir) \o ArchivedPath(vol)
ArchiveHome(snap) == Append(Home(VolumeFromSnapshot(snap)), ArchiveName(snap))

-----------------------------------------------------------------------------
(***************************************************************************)
(* The calls, to their internal mount.                                     *)
(***************************************************************************)

\* A call that needs a mount, and one that is answered without.
Mounting(op, x, src, vol) ==
    [op |-> op, subject |-> x, source |-> src, vol |-> vol, at |-> "mount", ok |-> FALSE]
Answered(op, x, ok) ==
    [op |-> op, subject |-> x, source |-> None, vol |-> None, at |-> "return", ok |-> ok]

Params(c, v) ==
    [server |-> c.server, share |-> c.share, subDir |-> c.subDir,
     onDelete |-> c.onDelete,
     metadata |-> [k \in {"${pvc.metadata.name}"} |-> <<v>>]]

\* NewDriver does not copy the option --default-ondelete-policy.
DefaultOnDeletePolicy == <<>>

VolumeOf(c, v) == NewNFSVolume(<<v>>, Params(c, v), DefaultOnDeletePolicy)

\* Parameters that do not validate are answered InvalidArgument.
CreateVolume(v, src) ==
    IF class.server # <<>> /\ ValidOnDelete(class.onDelete)
    THEN Mounting("createVolume", v, src, VolumeOf(class, v))
    ELSE Answered("createVolume", v, FALSE)

\* Mutant: only a volume with the policy "delete" is deleted.
DeleteWhenAsked(v) ==
    LET vol == GetNfsVolFromID(objects[v].id) IN
    IF ValidVolumeID(objects[v].id) /\ Folded(vol.onDelete) \in {<<"delete">>, <<"archive">>}
    THEN Mounting("deleteVolume", v, None, vol)
    ELSE Answered("deleteVolume", v, TRUE)

\* An id that does not parse is taken for a volume that does not exist.
DeleteVolume(v) ==
    LET vol == GetNfsVolFromID(objects[v].id)
        onDelete == IF vol.onDelete = <<>> THEN DefaultOnDeletePolicy ELSE vol.onDelete
    IN  IF ~ValidVolumeID(objects[v].id) THEN Answered("deleteVolume", v, TRUE)
        ELSE IF Folded(onDelete) = <<"retain">> THEN Answered("deleteVolume", v, TRUE)
        ELSE Mounting("deleteVolume", v, None, [vol EXCEPT !.onDelete = onDelete])

\* A source whose id does not parse, or has no name, is answered NotFound.
CreateSnapshot(n, src) ==
    LET snap == NewNFSSnapshot(<<n>>, class.snapshotShare, GetNfsVolFromID(objects[src].id))
    IN  IF ValidVolumeID(objects[src].id) /\ ValidSnapshot(snap)
        THEN Mounting("createSnapshot", n, src, VolumeFromSnapshot(snap))
        ELSE Answered("createSnapshot", n, FALSE)

DeleteSnapshot(n) ==
    IF ValidSnapshotID(objects[n].id)
    THEN Mounting("deleteSnapshot", n, None,
                  VolumeFromSnapshot(GetNfsSnapFromID(objects[n].id)))
    ELSE Answered("deleteSnapshot", n, TRUE)

\* What callers ask for, with the ids of objects that exist.
Requests ==
    {CreateVolume(v, src) : v \in Volumes, src \in (Objects \ New) \cup {None}}
    \cup {DeleteVolume(v) : v \in Volumes \ New}
    \cup {CreateSnapshot(n, src) : n \in Snapshots, src \in Volumes \ New}
    \cup {DeleteSnapshot(n) : n \in Snapshots \ New}

Call(w, request) ==
    /\ run[w].at = "idle"
    /\ run' = [run EXCEPT ![w] = request]
    /\ UNCHANGED <<setting, tree, locks, created, deleted>>

-----------------------------------------------------------------------------
(***************************************************************************)
(* Behind the mount: the paths afterwards, and whether the call succeeds.  *)
(***************************************************************************)

Result(paths, ok) == [tree |-> paths, ok |-> ok]

\* A source has to have an id that parses, and to be there for cp or tar.
CopyVolume(src) ==
    \/ src = None
    \/ /\ src \in Volumes
       /\ ValidVolumeID(objects[src].id)
       /\ Home(GetNfsVolFromID(objects[src].id)) \in tree
    \/ /\ src \in Snapshots
       /\ ValidSnapshotID(objects[src].id)
       /\ ArchiveHome(GetNfsSnapFromID(objects[src].id)) \in tree

MakeVolume(call) == Result(MkdirAll(tree, Home(call.vol)), CopyVolume(call.source))

\* Archiving removes a stale archived copy, then renames.
RemoveVolume(vol) ==
    LET made == IF "/" \in Range(vol.subDir) THEN MkdirAll(tree, Parent(Archived(vol)))
                                             ELSE tree
        cleared == RemoveAll(made, Archived(vol))
    IN  IF Folded(vol.onDelete) # <<"archive">>
        THEN Result(RemoveAll(tree, Home(vol)), TRUE)
        ELSE IF {Home(vol), Parent(Archived(vol))} \subseteq cleared
        THEN Result(Rename(cleared, Home(vol), Archived(vol)), TRUE)
        ELSE Result(cleared, FALSE)

\* The directory of a snapshot holds its archive and nothing else; with the
\* archive of another volume it is AlreadyExists.
ValidateSnapshot(paths, dir, archive) ==
    \A p \in paths : IsPrefix(dir, p) => p \in {dir, archive}

MakeSnapshot(call) ==
    LET srcVol == GetNfsVolFromID(objects[call.source].id)
        dir == Home(call.vol)
        archive == ArchiveHome(NewNFSSnapshot(<<call.subject>>, class.snapshotShare, srcVol))
        made == MkdirAll(tree, dir)
    IN  IF ValidateSnapshot(made, dir, archive) /\ Home(srcVol) \in made
        THEN Result(made \cup {archive}, TRUE)
        ELSE Result(made, FALSE)

RemoveSnapshot(vol) == Result(RemoveAll(tree, Home(vol)), TRUE)

BehindMount(call) ==
    CASE call.op = "createVolume"   -> MakeVolume(call)
      [] call.op = "deleteVolume"   -> RemoveVolume(call.vol)
      [] call.op = "createSnapshot" -> MakeSnapshot(call)
      [] call.op = "deleteSnapshot" -> RemoveSnapshot(call.vol)

-----------------------------------------------------------------------------
(***************************************************************************)
(* The steps of a call.                                                    *)
(***************************************************************************)

\* NodePublishVolume locks the volume id and the target.
LockKey(w) == <<run[w].vol.id, GetInternalMountPath(run[w].vol)>>

\* NodePublishVolume takes its lock; Aborted when another call has it.
MountLock(w) ==
    /\ run[w].at = "mount"
    /\ node
    /\ IF TryAcquire(locks, LockKey(w))
       THEN /\ locks' = Acquired(locks, LockKey(w))
            /\ run' = [run EXCEPT ![w].at = "publish"]
       ELSE /\ run' = [run EXCEPT ![w].at = "return"]
            /\ UNCHANGED locks
    /\ UNCHANGED <<setting, tree, created, deleted>>

\* The entries of the PublishContext that internalMount sends.
InternalPublishContext == {}

\* Mutant: NodePublishVolume does not insist on an address.
AddressOptional(publishContext) == TRUE

HasAddress(publishContext) == "assigned-ip" \in publishContext

\* Mutant: the lock is not released when there is no address.
PublishLocked(w) ==
    LET result == IF HasAddress(InternalPublishContext)
                  THEN BehindMount(run[w]) ELSE Result(tree, FALSE)
    IN
    /\ run[w].at = "publish"
    /\ run' = [run EXCEPT ![w].at = "return", ![w].ok = result.ok]
    /\ tree' = result.tree
    /\ UNCHANGED <<setting, locks, created, deleted>>

\* NodePublishVolume without an address is an error; its deferred Release.
Publish(w) ==
    LET result == IF HasAddress(InternalPublishContext)
                  THEN BehindMount(run[w]) ELSE Result(tree, FALSE)
    IN
    /\ run[w].at = "publish"
    /\ locks' = Released(locks, LockKey(w))
    /\ run' = [run EXCEPT ![w].at = "return", ![w].ok = result.ok]
    /\ tree' = result.tree
    /\ UNCHANGED <<setting, created, deleted>>

Gone ==
    /\ run' = [w \in Workers |-> Idle]
    /\ locks' = NewVolumeLocks
    /\ UNCHANGED <<setting, tree, created, deleted>>

\* A nil node server: the panic takes every other call with it.
Panic(w) == run[w].at = "mount" /\ ~node /\ Gone

\* The process dies for another reason.
Crash == Gone

\* The caller hears the answer, ...
Return(w) ==
    LET told == IF run[w].ok THEN {run[w].subject} ELSE {} IN
    /\ run[w].at = "return"
    /\ run' = [run EXCEPT ![w] = Idle]
    /\ created' = IF run[w].op \in {"createVolume", "createSnapshot"}
                  THEN created \cup told ELSE created
    /\ deleted' = IF run[w].op \in {"deleteVolume", "deleteSnapshot"}
                  THEN deleted \cup told ELSE deleted
    /\ UNCHANGED <<setting, tree, locks>>

\* ... or has given up waiting, or the answer is lost.
Unheard(w) ==
    /\ run[w].at = "return"
    /\ run' = [run EXCEPT ![w] = Idle]
    /\ UNCHANGED <<setting, tree, locks, created, deleted>>

-----------------------------------------------------------------------------
(***************************************************************************)
(* The specification.                                                      *)
(***************************************************************************)

\* Volumes and snapshots that are there when the driver comes: made by the
\* driver it derives from, with the same ids, if the class was valid there; in
\* the format of older drivers; or made by a person under an id of their own,
\* which is nobody's to delete.
ExistingVolume(c, v) ==
    LET path == Append(Path(c.share), <<v>>)
        older == [id |-> c.server \o <<"/">> \o Trim(c.share) \o <<"/", v>>,
                  home |-> path, policy |-> <<>>]
        own == [id |-> <<v>>, home |-> path, policy |-> <<"retain">>]
        same == [id |-> VolumeOf(c, v).id, home |-> Home(VolumeOf(c, v)),
                 policy |-> Folded(c.onDelete)]
    IN  IF ValidOnDelete(c.onDelete) THEN {same, older, own} ELSE {older, own}

ExistingSnapshot(c, n) ==
    {[id |-> snap.id, home |-> ArchiveHome(snap), policy |-> <<>>] :
        snap \in {NewNFSSnapshot(<<n>>, c.snapshotShare, VolumeOf(c, v)) : v \in Volumes}}
    \cup {[id |-> <<n>>, home |-> Append(Path(c.share), <<n>>), policy |-> <<"retain">>]}

Existing(c, x) == IF x \in Volumes THEN ExistingVolume(c, x) ELSE ExistingSnapshot(c, x)

Init ==
    /\ class \in Classes
    /\ node \in BOOLEAN
    /\ objects \in [Objects \ New -> UNION {Existing(class, x) : x \in Objects \ New}]
    /\ \A x \in Objects \ New : objects[x] \in Existing(class, x)
    /\ tree = Prefixes(Path(class.share)) \cup Prefixes(Path(class.snapshotShare))
               \cup UNION {Prefixes(objects[x].home) : x \in Objects \ New}
    /\ locks = NewVolumeLocks
    /\ run = [w \in Workers |-> Idle]
    /\ created = {}
    /\ deleted = {}

Next ==
    \/ \E w \in Workers :
        \/ \E request \in Requests : Call(w, request)
        \/ MountLock(w) \/ Publish(w) \/ Panic(w) \/ Return(w) \/ Unheard(w)
    \/ Crash

Spec == Init /\ [][Next]_vars

-----------------------------------------------------------------------------
(***************************************************************************)
(* Properties.                                                             *)
(***************************************************************************)

\* Every internal mount is refused, so no call makes, moves or removes anything
\* on the share, whatever volumes it is asked about and whatever calls overlap.
RefusedChangesNothing == [][UNCHANGED tree]_vars

\* What the callers were told is so: a volume or snapshot reported created is
\* on the share, one reported deleted is gone, archived, or still there, as
\* the class it was created from asked for. The driver has only the id to know
\* that from, which names no policy for a volume to be deleted, and a call that
\* fails at its mount must not be answered with success.
ReportsHold ==
    /\ \A v \in created \cap Volumes : Home(VolumeOf(class, v)) \in tree
    /\ \A n \in created \cap Snapshots :
        \E v \in Volumes \ New :
            ArchiveHome(NewNFSSnapshot(<<n>>, class.snapshotShare,
                                       GetNfsVolFromID(objects[v].id))) \in tree
    /\ \A x \in deleted :
        CASE objects[x].policy = <<"retain">> -> objects[x].home \in tree
          [] objects[x].policy = <<"archive">> ->
                objects[x].home \notin tree /\ Archived(VolumeOf(class, x)) \in tree
          [] OTHER -> objects[x].home \notin tree

Publishing == {w \in Workers : run[w].at = "publish"}

\* The locks of the internal mounts are the ones of the calls at their mount,
\* each of a single call: none is left behind by a refusal or a panic, for a
\* call made again to be aborted for ever, and of two calls that overlap for
\* one volume only one is past the lock.
LocksMatchMounts ==
    /\ locks = {LockKey(w) : w \in Publishing}
    /\ \A w1, w2 \in Publishing : LockKey(w1) = LockKey(w2) => w1 = w2

=============================================================================
