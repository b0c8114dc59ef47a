SPECIFICATION Spec
CONSTANTS
  Client = {}
  MaxStarts = 2
  MaxResets = 2
  Patient = TRUE
  Device = {d1, d2, d3}
  Arch = {"agnostic", "wormhole", "blackhole"}
  MaxAttempts = 2
  Wrap = 2
INVARIANTS
  ResetsWhatItSays
SYMMETRY DeviceSymmetry
CHECK_DEADLOCK FALSE
