SPECIFICATION LoopSpec
CONSTANTS
  Files = {f1}
  Sizes = {1, 3}
  Offered <- MCOffered
  World <- MCWorld
  ArgShapes = {"good"}
  MaxCalls = 3
  Budget = 3
  Minimized = 2
  MaxBatch = 2
  EvidenceMode = TRUE
  SelfCheckRetry = TRUE
INVARIANT FilesReadAreWhitelisted
