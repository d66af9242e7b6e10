--------------------------- MODULE MCProvisioner ----------------------------
(***************************************************************************)
(* Provisioner with a few classes: a share with and without slashes around *)
(* it, a subDir of the class or none, every policy, and a class whose      *)
(* policy does not validate.                                               *)
(***************************************************************************)
EXTENDS Provisioner, TLC

Class(share, subDir, onDelete, snapshotShare) ==
    [server |-> <<"server">>, share |-> share, subDir |-> subDir,
     onDelete |-> onDelete, snapshotShare |-> snapshotShare]

Nested == <<"pvc", "/", "${pvc.metadata.name}">>

MCClasses ==
    {Class(<<"/", "share">>, <<>>, <<"Retain">>, <<>>),
     Class(<<"share", "/", "dir", "/">>, Nested, <<"archive">>, <<"snapshots">>),
     Class(<<"/", "share">>, Nested, <<"delete">>, <<>>),
     Class(<<"/", "share">>, <<>>, <<>>, <<"snapshots">>),
     Class(<<"/", "share">>, <<>>, <<"keep">>, <<>>)}

Symmetry == Permutations(Workers)

=============================================================================
