SPECIFICATION System
CONSTANTS
  NModifiers <- MCNModifiers
  Modifiers <- MCModifier
  SettingModifier = {2}
  Reduction <- MCReduction
  Layout <- MCLayout
  Opens <- MCOpens
  Bars <- MCBars
  Statuses <- MCStatuses
  Refuses <- MCRefuses
  BatchNumbers <- MCBatchNumbers
  Efforts <- MCEfforts
  MaxLimit = 2
  LLMax = 5
  IntMax = 100
  Expenditures <- MCExpenditures
  RoundLimits <- MCRoundLimits
  StageLimits <- MCStageLimits
INVARIANTS
  FinalIsMinimal
  DiskHoldsBug
  ReportIsOfLastBug
PROPERTIES
  ImplementsBuggerRun
  ProgramEnds
CHECK_DEADLOCK FALSE
