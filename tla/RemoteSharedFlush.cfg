SPECIFICATION RunSpec
CONSTANTS
  t1 = t1
  t2 = t2
  i1 = i1
  i2 = i2
  Thread = {t1, t2}
  Instance = {i1}
  InstanceOf <- Shared
  NumCores = 1
  HostDram = FALSE
  MaxBlocks = 2
  MaxCallBlocks = 1
  Faults = {}
  Origins = {0}
  Size = 1
  Scripts <- FlushScripts
INVARIANTS
  FlushedAll
