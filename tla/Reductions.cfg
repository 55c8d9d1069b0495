SPECIFICATION Spec
CONSTANTS
  One = 100
  Zeta = 0
  Epsilon = 0
  Modifiers <- MCModifiers
  Instances <- MCInstances
  BatchNumbers = {0, 1}
INVARIANTS
  ReferenceRemainsTrue
  ProblemsConsistent
  Bystanders
PROPERTIES
  AdoptedIsConfirmed
  EverySuccessShrinks
CHECK_DEADLOCK FALSE
