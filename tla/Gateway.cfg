SPECIFICATION FairSpec
CONSTANTS
    Chat = {c1}
    Task = {t1}
    Job = {j1, j2}
    Run = {r1, r2}
    MaxSay = 3
    MaxWeb = 0
    MaxFault = 1
    MaxMove = 2
INVARIANTS
    AnnouncedOnce
PROPERTIES
    RunIsAnnounced
CHECK_DEADLOCK FALSE
