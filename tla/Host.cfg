SPECIFICATION HostsSpec
CONSTANTS
  None = None
  Procs = {1, 2}
  Env <- MCEnv
  Absent = Absent
  HostProcs = {p1, p2}
  HostEnv <- MCHostEnv
  Page = 2
  Region = 8
  Ch3Limit = 6
  DmaBufSize = 8
  NumTlbs = 1
  MaxLives = 2
  MaxStarts = 2
INVARIANTS
  HostTablesAgree
  NothingLeftOver
  
  ClosedAndHeld
  BroadcastExact
  BarriersHold
CHECK_DEADLOCK FALSE
