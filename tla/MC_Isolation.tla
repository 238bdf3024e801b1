---------------------------- MODULE MC_Isolation ----------------------------
EXTENDS Isolation, TLC

CONSTANTS c1, c2

MCChildren == {c1, c2}

MCSymmetry == Permutations(MCChildren)

=============================================================================
