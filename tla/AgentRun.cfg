SPECIFICATION FairSpec
CONSTANTS
  run = run
  first = first
  second = second
  Runs = {run}
  Cancels = {first, second}
  Target <- MCTarget
  MaxFailures = 2
  MaxRestarts = 2
INVARIANTS IInv
PROPERTIES EndsOnce CancelledRunSettles
CHECK_DEADLOCK FALSE
