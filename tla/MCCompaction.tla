---------------------------- MODULE MCCompaction ----------------------------
EXTENDS Compaction, TLC
Symmetry == Permutations(Ids)
=============================================================================
