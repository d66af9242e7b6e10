---------------------------- MODULE MCNodeServer ----------------------------
(***************************************************************************)
(* Instances of NodeServer for TLC. The cfg files give the constants.      *)
(***************************************************************************)
EXTENDS NodeServer, TLC

\* Targets, IPs, goroutines and values of read_ahead_kb are interchangeable.
Symmetry == Permutations(Targets) \cup Permutations(IPs)
            \cup Permutations(Workers) \cup Permutations(ReadAheads)

=============================================================================
