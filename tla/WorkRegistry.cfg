SPECIFICATION Spec
CONSTANTS
    Task = {t1, t2}
    Key = {k}
    Evidence = {e1, e2}
    Client = {c1, c2}
    NoTask = NoTask
    MaxLines = 3
    MaxTears = 2
    MaxDeaths = 2
SYMMETRY Symmetric
INVARIANTS Inv AnswersHold CreationIdempotent LogKept
PROPERTIES NoLostUpdate
CHECK_DEADLOCK FALSE
