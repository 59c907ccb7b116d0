SPECIFICATION Spec
CONSTANTS
  Streams = {a, b}
  Wedgeable = {a}
  MaxData = 1
  Ingress = 1
  Room = 1
  MaxTroubles = 1
INVARIANT NeverCrashes
CHECK_DEADLOCK FALSE
