SPECIFICATION FairSpec
CONSTANTS
  Procs = {k1}
  m1 = m1
  m2 = m2
  Segments = {s1, s2}
  Texts = {t1, t2}
  Models <- MCModels
  Native <- MCNative
  Settings = {0, 8}
  Batch = 1
  New = New
  Gone = Gone
  None = None
  MaxChanges = 2
  MaxFaults = 2
INVARIANTS
  Sound
  ComparedAlike
  ReportIsTrue
  FailedIsUnlinked
PROPERTIES
  CoverageReturns
