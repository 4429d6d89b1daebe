SPECIFICATION FairSpec
CONSTANTS
  Paths = {a}
  Contents = {c1, c2, big}
  Malformed = {}
  Oversized = {big}
  Absent = Absent
  Subdirectory = FALSE
  MaxCommits = 3
  MaxEdits = 5
  MaxFaults = 1
INVARIANTS
  IncrementalIsComplete
  Incremental
PROPERTIES
  ChangesReachSearch
