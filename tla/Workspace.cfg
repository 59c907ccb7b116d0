SPECIFICATION Spec
CONSTANTS
  Workspaces = {1, 2}
  Callers = {a, b}
  Base = 2
  Digits = 1
  Instants <- MCInstants
  MaxFaults = 2
  MaxCrashes = 1
SYMMETRY Symmetric
INVARIANTS Inv NoSpareTrees CandidatesHaveTrees MostRecentIsChosen
CHECK_DEADLOCK FALSE
