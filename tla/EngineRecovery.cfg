SPECIFICATION FairSpec
CONSTANTS
    a = a
    b = b
    c = c
    e1 = e1
    e2 = e2
    w1 = w1
    w2 = w2
    Task = {a, b}
    Dep <- Chain
    Executor = {e1, e2}
    Worker = {w1, w2}
    Home <- OneEach
    Operator = {"resume", "web-abort", "web-approve"}
    ExecMax = 1
    EnvMax = 1
    MaxAttempt = 3
PROPERTIES
    DeadWorkIsReclaimed
    ImplementsOrder
CHECK_DEADLOCK FALSE
