SPECIFICATION Spec
CONSTANTS
  One = 100
  Zeta = 0
  Epsilon = 0
  Modifiers <- MCModifiers
  Instances <- MCGap
  BatchNumbers = {0}
INVARIANTS
  FeasibilityStatusKept
CHECK_DEADLOCK FALSE
