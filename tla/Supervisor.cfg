SPECIFICATION Spec
CONSTANTS
  None = None
  provider = provider
  consumer = consumer
  need = need
  work = work
  Plugins = {provider, consumer}
  Caps = {need, work}
  Runtimes = {1, 2, 3}
  Provides <- MCProvides
  Requires <- MCRequires
  Wants <- NoWants
  MaxAttempts <- OneRestart
  MemoryLimited = {}
  HeartbeatLimit = 1
  MaxPasses = 1
  MaxHangs = 0
  MaxBeats = 1
  MaxExits = 1
INVARIANTS Inv OneProcess
PROPERTIES DeadStaysDead
CHECK_DEADLOCK FALSE
