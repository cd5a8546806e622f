CONSTANTS
  f = f
  g = g
  x = x
  y = y
  None = None
  Null = Null
  Funcs <- MCFuncs
  Addrs <- MCAddrs
  Writes <- MCWrites
  Mods <- MCMods
  Reads <- MCReads
  FWidth <- MCFWidth2
  Widths = {1, 2}
  MaxWidth = 2
  MaxSnapshots = 1
  MaxStores = 1
  MaxLoads = 1
  MultiResolve = FALSE
  MaxBranches = 0
  ForkInhibit = FALSE

SPECIFICATION Spec

PROPERTIES
  EagerLoads
