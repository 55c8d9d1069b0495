SPECIFICATION BRSpec
CONSTANTS
  Modifiers <- MCModifier
  SettingModifier = {3}
  Reduction <- MCReduction
  Layout <- MCLayout
  Opens <- MCOpens
  Bars <- MCBars
  Statuses <- SolutionStatus
  Refuses <- MCRefuses
  BatchNumbers <- MCBatchNumbers
  Efforts <- MCEfforts
  MaxLimit = 2
  LLMax = 7
INVARIANTS
  AdoptedIsConfirmed
  LimitIsTightest
  SolveBound
  RemainingRejected
CHECK_DEADLOCK FALSE
