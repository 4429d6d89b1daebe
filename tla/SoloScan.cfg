SPECIFICATION FairSpec
CONSTANTS
  Procs = {k1}
  a = a
  b = b
  Paths = {a, b}
  Contents = {c1, c2, c3, bad}
  Malformed = {bad}
  SourceIds = {s1, s2}
  Absent = Absent
  None = None
  MaxVersions = 5
  Limits <- OneOrBoth
  MaxFaults = 1
INVARIANTS
  FtsExact
  OwnSnapshot
  ChangesAreFlagged
PROPERTIES
  ImplementsEvidenceStore
  NewContentReachesSearch
