SPECIFICATION FairSpec
CONSTANTS
  a1 = a1
  a2 = a2
  b = b
  c = c
  y = y
  z = z
  t1 = t1
  t2 = t2
  fa = fa
  fb = fb
  fc = fc
  s1 = s1
  s2 = s2
  Local = {a1, a2, b, c}
  Snapshots = {s1, s2}
  Imported <- MCImported
  Files = {fa, fb, fc}
  File <- MCFile
  Texts = {t1, t2}
  Text <- MCText
  Order <- MCOrder
  Tags <- MCTags
  Tokens <- MCTokens
  Bytes <- MCBytes
  ResultOverhead = 1
  ResponseOverhead = 1
  ByteCap = 10
  Candidates = 2
  SnapshotCandidates = 2
  SemanticCandidates = 2
  FusionCandidates = 5
  SnapshotsPerQuery = 2
  K = 60
  Scale = 7624512
  Limits = {1, 2}
  Budgets = {1, 8, 16}
  Queries = {1}
  None = None
  MaxChanges = 1
  Refs = {fa, fb, fc}
  Discount <- MCDiscount
  Small = 1
  Large = 2
INVARIANTS Sound OnlyPermitted OneRevision FusedByDefinition LostToCopies HeadOfRanking WithinBudget ResponsesAreMeasured
PROPERTIES EveryQueryEnds
CHECK_DEADLOCK FALSE
