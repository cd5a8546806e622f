CONSTANTS
  f = f
  g = g
  x = x
  y = y
  None = None
  Null = Null
  Funcs <- MCFuncs
  Addrs <- MCAddrs
  Writes <- MCWrites
  Mods <- MCMods
  Reads <- MCReads
  FWidth <- MCFWidth
  Widths = {1}
  MaxWidth = 1
  MaxSnapshots = 3
  MaxStores = 1
  MaxLoads = 2
  MultiResolve = FALSE
  MaxBranches = 1
  ForkInhibit = TRUE

SPECIFICATION Spec

INVARIANTS
  TypeOK
  RecoveredLoadsCurrent
  OriginConstraintsInRecoveries

PROPERTIES
  EagerLoads
  BlockingLoadCompletes
