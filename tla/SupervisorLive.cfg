SPECIFICATION FairSpec
CONSTANTS
  None = None
  provider = provider
  consumer = consumer
  need = need
  work = work
  Plugins = {provider, consumer}
  Caps = {need, work}
  Runtimes = {1, 2}
  Provides <- MCProvides
  Requires <- MCRequires
  Wants <- MCWants
  MaxAttempts <- NoRestart
  MemoryLimited = {provider}
  HeartbeatLimit = 1
  MaxPasses = 1
  MaxHangs = 1
  MaxBeats = 1
  MaxExits = 0
PROPERTIES DependentsFollow StartsEnd
CHECK_DEADLOCK FALSE
