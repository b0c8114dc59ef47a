SPECIFICATION Spec
CONSTANTS
  Client = {c1}
  MaxStarts = 2
  MaxResets = 2
  Patient = TRUE
  Device = {d1}
  Arch = {"blackhole"}
  MaxAttempts = 0
  Wrap = 2
INVARIANTS
  MonitorHearsInOrder
PROPERTIES
  MonitorsServed
