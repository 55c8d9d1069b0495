SPECIFICATION Spec
CONSTANTS
  MpsProblems <- MCMpsProblems
  MpsFiles <- MCMpsFiles
  Names <- MCNames
  Numbers <- MCNumbers
  Begins <- MCBegins
  Occurs <- MCOccurs
  Models <- MCModels
  SolValues <- MCValues
  SolFiles <- MCSolFiles
  Infinity <- MCInfinity
  ScipProblems <- MCScipProblems
  ScipModels <- MCScipModels
  Exact <- MCExact
  Options <- MCOptions
  Ints <- MCInts
  Vectors <- MCVectors
  Cut <- MCCut
  ParameterFiles <- MCParameterFiles
  Arguments <- MCArguments
  FileOptions <- MCFileOptions
  Disks <- MCDisks
  Interfaces <- MCInterfaces
INVARIANTS
  ProblemRead
  SolutionRead
  ProblemLoaded
  LastLegalCounts
  ReferenceMatchesStatus
  IndicesAgree
PROPERTIES
  FilesEnd
CHECK_DEADLOCK FALSE
