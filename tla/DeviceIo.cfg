SPECIFICATION Spec
CONSTANTS
  None = None
  t1 = t1
  t2 = t2
  c1 = c1
  c2 = c2
  Thread = {t1, t2}
  Core = {c1, c2}
  Noc = {0, 1}
  MaxAddr = 7
  TlbSize = 4
  Word = 2
  Widths = {2, 4}
  DmaBufSize = 2
  NumTlbs = 3
  MaxOverruns = 2
  Env <- MCEnv
INVARIANTS
  TransfersExact
PROPERTIES
  CallsEnd
CHECK_DEADLOCK FALSE
