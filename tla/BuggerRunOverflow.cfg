SPECIFICATION Spec
CONSTANTS
  NModifiers = 3
  MaxSize = 2
  MaxLimit = 1
  IntMax = 9
  LLMax = 7
  Efforts <- LoopEfforts
  BatchNumbers <- LoopBatchNumbers
  Expenditures <- LoopExpenditures
  RoundLimits <- LoopRoundLimits
  StageLimits <- LoopStageLimits
PROPERTIES
  OriginalIsUsed
CHECK_DEADLOCK FALSE
