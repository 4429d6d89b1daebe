SPECIFICATION Spec
CONSTANTS
  MaxRules = 1
  MaxChanges = 0
CHECK_DEADLOCK FALSE
INVARIANTS
  SameIgnoreRules
