SPECIFICATION FairSpec
CONSTANTS
  Streams = {a, b}
  Wedgeable = {a}
  MaxData = 1
  Ingress = 1
  Room = 1
  MaxTroubles = 1
INVARIANTS Inv KernelSurvives
PROPERTIES ReadersReleased DisconnectEnds
CHECK_DEADLOCK FALSE
