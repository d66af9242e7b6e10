--------------------------- MODULE MCLBController ---------------------------
(***************************************************************************)
(* Instances of LBController for TLC. The cfg files give the constants.    *)
(***************************************************************************)
EXTENDS LBRefinement, TLC

\* Nodes, volumes, IPs and goroutines are interchangeable.
Symmetry == Permutations(Nodes) \cup Permutations(Volumes)
            \cup Permutations(IPs) \cup Permutations(Workers)

=============================================================================
