SPECIFICATION Spec
CONSTANTS
    r1 = r1
    r2 = r2
    r3 = r3
    p1 = p1
    p2 = p2
    NoThread = NoThread
    TaskRun = {r1, r2, r3}
    Thread = {p1, p2}
    Keyed = TRUE
    MaxVersion = 3
INVARIANTS
    ArtifactIsOnDisk
    SuccessIsPromotedOnce
PROPERTIES
    ImplementsStore
CHECK_DEADLOCK FALSE
