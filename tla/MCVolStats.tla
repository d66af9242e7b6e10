----------------------------- MODULE MCVolStats -----------------------------
(***************************************************************************)
(* Instances of VolStats for TLC. The cfg files give the constants.        *)
(***************************************************************************)
EXTENDS VolStats, TLC

\* Paths and goroutines are interchangeable.
Symmetry == Permutations(Paths) \cup Permutations(Workers)

=============================================================================
