CONSTANTS
    a = a  b = b  t1 = t1
    None = None
    Callers = {a, b}
    Topics = {t1}
    TopicOf <- OneTopic
    IsNeedDiffGroup <- OwnGroup
    Capacity = 1
    MaxMessages = 3
    MaxRebalances = 2
    MaxCrashes = 1
SPECIFICATION FairSpec
INVARIANTS TypeOK LossBounded RepeatsBounded Fed
PROPERTIES Served
CHECK_DEADLOCK FALSE
