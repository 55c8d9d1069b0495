SPECIFICATION Spec
CONSTANTS
  One = 100
  Zeta = 10
  Epsilon = 0
  Modifiers <- MCModifiers
  Instances <- MCTiny
  BatchNumbers = {0}
INVARIANTS
  NoFixedEntries
CHECK_DEADLOCK FALSE
