SPECIFICATION Spec
CONSTANTS
  MaxRules = 3
  MaxChanges = 2
CHECK_DEADLOCK FALSE
INVARIANTS
  Decisions
  PoliciesAgree
