CONSTANT MaxEdit = 1
SPECIFICATION FairSpec
INVARIANTS
    PhaseOrder
    PhasesAreKept
    WaitsForRows
PROPERTY CheckedGraphEnds
CHECK_DEADLOCK FALSE
