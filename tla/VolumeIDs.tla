----------------------------- MODULE VolumeIDs ------------------------------
(***************************************************************************)
(* Volume and snapshot ids, and the paths derived from them                *)
(* (pkg/nfs/controllerserver.go). The driver keeps no record of what it    *)
(* provisions: everything a later call knows of a volume is read from the  *)
(* id that CreateVolume gave it.                                           *)
(*                                                                         *)
(* A string is the sequence of its parts: "/", "#", and parts that contain *)
(* neither. "" is <<>>. Paths have no "." and no "..".                     *)
(***************************************************************************)
EXTENDS Integers, Sequences, FiniteSetsExt

-----------------------------------------------------------------------------
(***************************************************************************)
(* strings and path/filepath.                                              *)
(***************************************************************************)

Trim(s) ==
    LET kept == {i \in DOMAIN s : s[i] # "/"} IN
    IF kept = {} THEN <<>> ELSE SubSeq(s, Min(kept), Max(kept))

Join(elements) ==
    LET Joined[i \in DOMAIN elements] ==
            IF i = 1 THEN elements[1] ELSE Joined[i - 1] \o <<"#">> \o elements[i]
    IN  Joined[Len(elements)]

Split(s, separator) ==
    LET Segments[i \in 0 .. Len(s)] ==
            LET before == Segments[i - 1] IN
            IF i = 0 THEN << <<>> >>
            ELSE IF s[i] = separator THEN Append(before, <<>>)
            ELSE [before EXCEPT ![Len(before)] = Append(@, s[i])]
    IN  Segments[Len(s)]

\* The elements of the path that filepath.Join makes of s.
Path(s) == SelectSeq(Split(s, "/"), LAMBDA element : element # <<>>)

\* What strings.EqualFold compares.
Folded(s) == IF s = <<"Retain">> THEN <<"retain">> ELSE s

\* replaceWithMap: the keys of the metadata are parts of their own.
ReplaceWithMap(s, metadata) ==
    LET Replaced[i \in 0 .. Len(s)] ==
            IF i = 0 THEN <<>>
            ELSE Replaced[i - 1] \o (IF s[i] \in DOMAIN metadata
                                     THEN metadata[s[i]] ELSE <<s[i]>>)
    IN  Replaced[Len(s)]

-----------------------------------------------------------------------------
(***************************************************************************)
(* Volumes.                                                                *)
(***************************************************************************)

ValidOnDelete(onDelete) ==
    Folded(onDelete) \in {<<>>, <<"delete">>, <<"retain">>, <<"archive">>}

GetVolumeIDFromNfsVol(vol) ==
    Join(<<Trim(vol.server), Trim(vol.baseDir), Trim(vol.subDir), vol.uuid,
           IF Folded(vol.onDelete) \in {<<"retain">>, <<"archive">>}
           THEN vol.onDelete ELSE <<>>>>)

\* The volume of CreateVolume(name, params); the name tells volumes apart
\* that have a subDir of their class.
NewNFSVolume(name, params, defaultOnDeletePolicy) ==
    LET own == params.subDir = <<>>
        vol == [server   |-> params.server,
                baseDir  |-> params.share,
                subDir   |-> IF own THEN name
                             ELSE ReplaceWithMap(params.subDir, params.metadata),
                uuid     |-> IF own THEN <<>> ELSE name,
                onDelete |-> IF params.onDelete # <<>> THEN params.onDelete
                             ELSE defaultOnDeletePolicy,
                id       |-> <<>>]
    IN  [vol EXCEPT !.id = GetVolumeIDFromNfsVol(vol)]

\* Ids of older drivers: ^([^/]+)/(.*)/([^/]+)$.
OldFormat(id) ==
    LET slashes == {i \in DOMAIN id : id[i] = "/"} IN
    /\ slashes # {}
    /\ 1 < Min(slashes) /\ Min(slashes) < Max(slashes) /\ Max(slashes) < Len(id)

ValidVolumeID(id) == Len(Split(id, "#")) >= 3 \/ OldFormat(id)

GetNfsVolFromID(id) ==
    LET segments == Split(id, "#")
        slashes == {i \in DOMAIN id : id[i] = "/"}
        Segment(i) == IF i <= Len(segments) THEN segments[i] ELSE <<>>
    IN  IF Len(segments) >= 3
        THEN [server |-> segments[1], baseDir |-> segments[2],
              subDir |-> segments[3], uuid |-> Segment(4),
              onDelete |-> Segment(5), id |-> id]
        ELSE [server |-> SubSeq(id, 1, Min(slashes) - 1),
              baseDir |-> SubSeq(id, Min(slashes) + 1, Max(slashes) - 1),
              subDir |-> SubSeq(id, Max(slashes) + 1, Len(id)),
              uuid |-> <<>>, onDelete |-> <<>>, id |-> id]

-----------------------------------------------------------------------------
(***************************************************************************)
(* Snapshots.                                                              *)
(***************************************************************************)

GetSnapshotIDFromNfsSnapshot(snap) ==
    Join(<<Trim(snap.server), Trim(snap.baseDir), snap.uuid, snap.uuid, snap.src>>)

\* The snapshot of CreateSnapshot(name); its class may name another share.
NewNFSSnapshot(name, share, vol) ==
    LET snap == [server |-> vol.server, uuid |-> name,
                 baseDir |-> IF share = <<>> THEN vol.baseDir ELSE share,
                 src |-> IF vol.uuid # <<>> THEN vol.uuid ELSE vol.subDir,
                 id |-> <<>>]
    IN  [snap EXCEPT !.id = GetSnapshotIDFromNfsSnapshot(snap)]

ValidSnapshot(snap) == snap.server # <<>> /\ snap.src # <<>>

ValidSnapshotID(id) == Len(Split(id, "#")) = 5

GetNfsSnapFromID(id) ==
    LET segments == Split(id, "#") IN
    [server |-> segments[1], baseDir |-> segments[2], uuid |-> segments[3],
     src |-> segments[5], id |-> id]

ArchiveName(snap) == Append(snap.src, ".tar.gz")

VolumeFromSnapshot(snap) ==
    [server |-> snap.server, baseDir |-> snap.baseDir, subDir |-> snap.uuid,
     uuid |-> snap.uuid, onDelete |-> <<>>, id |-> snap.id]

-----------------------------------------------------------------------------
(***************************************************************************)
(* Paths: a volume is mounted below the working directory of the driver,   *)
(* in a directory of its own.                                              *)
(***************************************************************************)

GetInternalMountPath(vol) ==
    Path(IF vol.uuid = <<>> THEN vol.subDir ELSE vol.uuid)

\* Where a volume and its archived copy are below its share.
SubPath(vol) == Path(vol.subDir)
ArchivedPath(vol) == Path(<<"archived-">> \o vol.subDir)

=============================================================================
