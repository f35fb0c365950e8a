----------------------------- MODULE MCTeamIdle -----------------------------
\* Instances of TeamIdle for TLC.
EXTENDS TeamIdle, TLC

CONSTANTS w1, w2, m1, m2, p1, p2

Symmetry == Permutations(Workers) \cup Permutations(Msgs) \cup Permutations(Sweeps)
=============================================================================
