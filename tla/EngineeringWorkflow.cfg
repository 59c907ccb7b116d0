SPECIFICATION Spec
CONSTANTS
    Run = {r1, r2}
    MaxLate = 1
    MaxFaults = 1
SYMMETRY SymmetricRuns
INVARIANTS Inv DoneThroughGate StageNotAhead EvidenceBehindDone
CHECK_DEADLOCK FALSE
