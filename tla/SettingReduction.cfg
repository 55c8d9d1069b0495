SPECIFICATION Spec
CONSTANTS
  Values = {"old", "new"}
  Pairs <- MCPairs
  BatchNumbers <- MCBatchNumbers
  Limits = {1, 2}
INVARIANTS
  KeptShowBug
  EverythingTried
PROPERTIES
  Terminates
