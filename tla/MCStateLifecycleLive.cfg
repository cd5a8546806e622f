CONSTANTS
  None = None
  Ids <- MCIds
  MaxForks = 2
  MaxBlocks = 2
  MaxPend = 1
  MaxOffloads = 0
  ReadyThresh = 2
  NotReadyThresh = 1
  MinOffload = 2
  OffloadDivisor = 2
  MaxKills = 0
  MemoryCap = FALSE
  SearchModes = {"DFS", "RAND"}
SPECIFICATION Spec
INVARIANT NoAbort
