SPECIFICATION SealSpec
CONSTANTS
  Caller = "caller"
  Session = "session"
  Readers = {"caller", "session"}
  Limit = 2
  MaxEvents = 4
  MaxFaults = 1
  MaxTears = 1
  MaxCrashes = 1
  Ours = {1, 3, 4}
  MaxSeals = 1
INVARIANTS Inv ReplayComplete AckedReadable SealHolds
CHECK_DEADLOCK FALSE
