--------------------------- MODULE MCRaftElections ---------------------------
(* Instance of RaftElections for TLC. *)
EXTENDS RaftElections, TLC
Symmetry == Permutations(Nodes)
=============================================================================
