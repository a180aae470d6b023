SPECIFICATION TaskSpec
CONSTANTS
    Chat = {c1, c2}
    Task = {t1, t2}
    Job = {j1, j2}
    MaxSay = 5
    MaxWeb = 1
    MaxFault = 1
PROPERTY ImplementsStages
CHECK_DEADLOCK FALSE
SYMMETRY Symmetry
