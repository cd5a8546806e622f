CONSTANTS
  None = None
  Ids <- MCIds
  MaxForks = 2
  MaxBlocks = 2
  MaxPend = 1
  MaxOffloads = 1
  ReadyThresh = 2
  NotReadyThresh = 1
  MinOffload = 2
  OffloadDivisor = 2
  MaxKills = 1
  MemoryCap = TRUE
  SearchModes = {"BFS", "COVNEW"}
SPECIFICATION Spec
INVARIANTS TypeOK SearcherConsistent ChainsWellFormed OriginatingIsChainBottom
