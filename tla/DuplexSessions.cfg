CONSTANTS
  f1 = f1
  f2 = f2
  f3 = f3
  Files = {f1, f2, f3}
  Modes <- MCModes
  InitOutcomes = {"ok", "no_desc", "no_buf"}

SYMMETRY Symmetry
SPECIFICATION Spec
INVARIANT OpenInv
INVARIANT OnlyLiveRings
INVARIANT StartsInRing
CHECK_DEADLOCK FALSE
