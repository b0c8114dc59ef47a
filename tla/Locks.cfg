SPECIFICATION MCSpec
CONSTANTS
  p1 = p1
  p2 = p2
  o1 = o1
  o2 = o2
  o3 = o3
  t1 = t1
  t2 = t2
  t3 = t3
  Process = {p1, p2}
  Object = {o1, o2, o3}
  Thread = {t1, t2, t3}
  ProcessOf <- MCProcessOf
  ObjectOf <- MCObjectOf
  Nobody = Nobody
  MidCall = TRUE
  KmdProcess = {p1, p2}
  KmdObject = {o1, o2, o3}
  KmdThread = {t1, t2}
  KmdProcessOf <- MCProcessOf
  KmdPlacements <- AllPlacements
  NoHandle = NoHandle
  MaxResets = 2
INVARIANTS
  InitBeforeUse
  OwnerRecorded
  RecoverableUnlessTorn
  KmdLockBacked
PROPERTIES
  ImplementsAbstractLock
  LockersServed
  KmdImplementsLock
