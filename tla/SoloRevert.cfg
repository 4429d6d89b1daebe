SPECIFICATION FairSpec
CONSTANTS
  Procs = {k1}
  Paths = {a}
  Contents = {c1, c2}
  Malformed = {}
  SourceIds = {s1, s2}
  Absent = Absent
  None = None
  MaxVersions = 4
  Limits <- Alike
  MaxFaults = 0
PROPERTIES
  ModifiedFilesReachSearch
