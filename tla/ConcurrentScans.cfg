SPECIFICATION Spec
CONSTANTS
  Procs = {k1, k2}
  Paths = {a, b}
  Contents = {c1, c2}
  Malformed = {}
  SourceIds = {s1, s2, s3}
  Absent = Absent
  None = None
  MaxVersions = 2
  Limits <- Alike
  MaxFaults = 1
SYMMETRY Symmetry
INVARIANTS
  Lineage
  AuthenticEvidence
