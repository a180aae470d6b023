CONSTANT MaxEdit = 0
SPECIFICATION FairSpec
PROPERTY CompositeIsDone
CHECK_DEADLOCK FALSE
