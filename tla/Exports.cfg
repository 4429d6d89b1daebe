SPECIFICATION Spec
CONSTANTS
  Procs = {k1, k2}
  Destinations = {d1}
  Roots = {r1, r2}
  Names = {a}
  k1 = k1
  k2 = k2
  d1 = d1
  r1 = r1
  r2 = r2
  a = a
  None = None
  MaxChanges = 1
  MaxExports = 2
  MaxFaults = 1
SYMMETRY Symmetry
CHECK_DEADLOCK FALSE
INVARIANTS
  OneMoment
  Recent
  QuietExportImports
