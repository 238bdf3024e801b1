--------------------------- MODULE MC_CellService ---------------------------
(* Model-checking instance of CellService: two handlers, two cell names   *)
(* (so paths reach one level of nesting), one executable name.            *)
EXTENDS CellService, TLC

CONSTANTS n1, n2, r1, r2, e1

MCNames == {n1, n2}

MCReqs == {r1, r2}

MCExes == {e1}

\* Handlers and cell names are only compared for equality.
\* One cell name, for the liveness run (which cannot use symmetry).
MCOneName == {n1}

MCSymmetry == Permutations(MCNames) \cup Permutations(MCReqs)
=============================================================================
