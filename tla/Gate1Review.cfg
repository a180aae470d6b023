SPECIFICATION FairSpec
CONSTANTS
    Question = {q1, q2}
    Forced = {q1}
    Choice = {x, y}
    Suffixed = {q2}
    Tab = {w1}
    Chat = chat
    Skill = skill
    Cli = cli
    MaxAct = 3
    MaxFault = 1
INVARIANTS
    TypeOK
    AnswersAreChosen
PROPERTIES
    SettledOnce
    ImplementsRecord
    ConfirmedIsApproved
CHECK_DEADLOCK FALSE
