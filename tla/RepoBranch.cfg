SPECIFICATION Spec
CONSTANTS
    Task = {t1, t2}
    Executor = {e1, e2}
    Main = main
    MaxRounds = 1
    MaxRetries = 0
    MaxOther = 2
INVARIANTS
    OnOwnBranch
    ReportIsTrue
PROPERTIES
    TestsFirst
SYMMETRY Symmetry
CHECK_DEADLOCK FALSE
