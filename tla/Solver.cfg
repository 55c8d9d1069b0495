SPECIFICATION SolverSpec
CONSTANTS
  Builds <- MCBuilds
  Requested <- MCRequested
  Spaces <- MCSpaces
  UserValues <- MCUserValues
  OtherNames = {"p"}
  OtherValues = {1, 2}
  Usage = {0, 1, 3}
  IntMax = 4
  LongLongMax = 6
  Forever = 9
  SoplexFiles <- MCFiles
  SoplexRequested <- MCSoplexRequested
  Problems <- MCProblems
  Objectives <- MCObjectives
  SoplexSpaces <- MCSoplexSpaces
  Errors <- MCErrors
  HasRefinements = TRUE
  Margin = 1
  SoplexInfinity = 40
  Unit = 8
  Fine = 16
  Infinity = 256
  NaN = NaN
  Instances <- MCInstances
  Cutoffs <- MCCutoffs
  PasscodeSets <- MCPasscodeSets
  ScipErrors <- MCScipErrors
  Bounds <- MCBounds
  Points <- MCPoints
  Rays <- MCRays
  ScipCounts <- MCCounts
  SumEpsilon = 2
  Epsilon = 1
INVARIANTS
  OneNamePerLimit
  LimitsWork
  ObjectiveLimitsFollow
  NoFalseAlarm
  PasscodesSilenceTheirOwn
  ErrorsReported
PROPERTIES
  LimitsOnlyTighten
