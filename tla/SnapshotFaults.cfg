SPECIFICATION MCSpec
CONSTANTS
  Procs = {k1, k2}
  Snapshots = {s1, s2}
  SnapshotRoots = {x1, x2}
  Roots = {r1, r2}
  k1 = k1
  k2 = k2
  s1 = s1
  s2 = s2
  x1 = x1
  x2 = x2
  r1 = r1
  r2 = r2
  None = None
  MaxFaults = 1
CHECK_DEADLOCK FALSE
SYMMETRY Symmetry
INVARIANT Registration
INVARIANT SearchedIsWhole
INVARIANT RegisteredIsHealthy
INVARIANT OneAtATime
PROPERTY ImplementsSnapshotCatalog
