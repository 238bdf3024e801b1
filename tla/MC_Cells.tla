------------------------------ MODULE MC_Cells ------------------------------
(* Model-checking instance of Cells: three interchangeable cell names.     *)
EXTENDS Cells, TLC

CONSTANTS n1, n2, n3

MCNames == {n1, n2, n3}

\* Cell names are only compared for equality, so permuting them is sound.
MCSymmetry == Permutations(MCNames)
=============================================================================
