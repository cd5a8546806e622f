CONSTANTS
  w1 = w1
  w2 = w2
  None = None
  Workers <- MCWorkers
  Feas <- MCFeas
  Depth = 4
  ReadyThresh = 2
  NotReadyThresh = 1
  MinOffload = 2
  OffloadDivisor = 2
  OffloadCapAt = 4
  OffloadCap = 2
  ChanCap = 3
  SwitchNodes = {}

SPECIFICATION Spec

PROPERTY Termination
