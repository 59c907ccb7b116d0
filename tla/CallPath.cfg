SPECIFICATION FairCallSpec
CONSTANTS
  None = None
  composer = composer
  worker = worker
  c1 = c1
  c2 = c2
  Plugins = {composer, worker}
  Calls = {c1, c2}
  Parent <- MCParent
  Providers <- MCProviders
  Regretted = {c1}
  MaxPings <- MCPings
  MaxExits = 1
INVARIANTS Inv
PROPERTIES NoRunawayWork CallsEnd
CHECK_DEADLOCK FALSE
