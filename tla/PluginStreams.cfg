SPECIFICATION FairSpec
CONSTANTS
  Streams = {a}
  MaxData = 3
  Ingress = 1
  Room = 1
  MaxCalls = 1
  Other = Other
  None = None
INVARIANTS Inv ConsumerSurvives
PROPERTIES ReadersReleased CancelStops
CHECK_DEADLOCK FALSE
