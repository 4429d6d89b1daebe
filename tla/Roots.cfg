SPECIFICATION MCSpec
CONSTANTS
  Procs = {k1, k2}
  Roots = {r1, r2, r3}
  Dirs = {d1, d2}
  k1 = k1
  k2 = k2
  r1 = r1
  r2 = r2
  r3 = r3
  d1 = d1
  d2 = d2
  None = None
  MaxFaults = 1
CHECK_DEADLOCK FALSE
INVARIANTS
  Approval
  SearchedOnce
  SoloStoresAgree
  SoloRemovedStaysOut
PROPERTY SoloEnabledIsSearched
