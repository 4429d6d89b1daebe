SPECIFICATION Spec
CONSTANTS
  Procs = {k1, k2}
  Roots = {r1}
  Dirs = {d1}
  None = None
  MaxFaults = 0
CHECK_DEADLOCK FALSE
INVARIANT SearchedIsApproved
