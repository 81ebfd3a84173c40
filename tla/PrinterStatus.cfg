SPECIFICATION Spec
CONSTANTS
    Tasks = {t1, t2}
    MaxRuns = 2
    Asked <- MCAsked
    None = None
SYMMETRY Slots
INVARIANTS
    StatusIsPush
CHECK_DEADLOCK FALSE
