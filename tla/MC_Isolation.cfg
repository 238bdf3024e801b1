CONSTANTS
  c1 = c1
  c2 = c2
  Children <- MCChildren
SPECIFICATION IsoSpec
SYMMETRY MCSymmetry
INVARIANT HostMountsUntouched
INVARIANT ServesFullyIsolated
CHECK_DEADLOCK FALSE
