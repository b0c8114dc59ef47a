SPECIFICATION SimulationSpec
CONSTANTS
  h1 = h1
  h2 = h2
  c1 = c1
  c2 = c2
  t1 = t1
  t2 = t2
  k1 = k1
  k2 = k2
  SimHost = {h1, h2}
  SimClient = {c1, c2}
  MaxServerIndex = 2
  SimBacklog = 1
  MaxSessions = 2
  SimBudgets <- MCBudgets
  Nobody = Nobody
  Stale = Stale
  RtlThread = {t1, t2}
  RtlTile = {k1, k2}
  RtlScenarios <- MCRtlScenarios
  RiscTypesDms <- MCRiscTypesDms
  Free = Free
  SimChips = {0, 1, 2}
  Stride = 2
  Channels = 1
  MaxDmaDevices = 2
  BackendScenarios <- MCBackendScenarios
  NoChip = NoChip
INVARIANTS
  SimulationIoSound
  LiveHostReachable
  ResetOrdered
  BackendSound
PROPERTIES
  SimulationSettles
CHECK_DEADLOCK FALSE
