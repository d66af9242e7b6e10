---------------------------- MODULE VolumeLocks -----------------------------
(***************************************************************************)
(* VolumeLocks of pkg/nfs/utils.go: a set of names of volume operations in *)
(* progress. Every method runs under the set's own mutex, so each is one   *)
(* step on the set.                                                        *)
(***************************************************************************)

NewVolumeLocks == {}

\* TryAcquire answers whether the name was free; then it is taken.
TryAcquire(locks, name) == name \notin locks
Acquired(locks, name) == locks \cup {name}

Released(locks, name) == locks \ {name}

=============================================================================
