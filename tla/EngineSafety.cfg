SPECIFICATION Spec
CONSTANTS
    a = a
    b = b
    c = c
    e1 = e1
    e2 = e2
    w1 = w1
    w2 = w2
    Task = {a, b, c}
    Dep <- Join
    Executor = {e1}
    Worker = {w1, w2}
    Home <- OnePool
    Operator = {"retry", "skip", "abort"}
    ExecMax = 1
    EnvMax = 2
    MaxAttempt = 3
SYMMETRY Workers
INVARIANTS
    TypeOK
    DependencyOrder
    FinalIsEscalated
    OneLiveAttempt
    
PROPERTY CompletionIsEarned
CHECK_DEADLOCK FALSE
