SPECIFICATION RunSpec
CONSTANTS
  t1 = t1
  t2 = t2
  i1 = i1
  i2 = i2
  Thread = {t1, t2}
  Instance = {i1, i2}
  InstanceOf <- Apart
  NumCores = 2
  HostDram = FALSE
  MaxBlocks = 3
  MaxCallBlocks = 3
  Faults = {"timeout", "crash"}
  Origins = {0, 3}
  Size = 2
  Scripts <- RunScripts
INVARIANTS
  TransfersIntactUntilDisturbed
  FlushedSinceStart
PROPERTIES
  RequestsFifo
  CallsEnd
