------------------------------ MODULE MCRaftLog ------------------------------
EXTENDS RaftLog
Symmetry == Permutations(Nodes)
=============================================================================
