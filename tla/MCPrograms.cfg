CONSTANTS
    a = a  b = b  c3 = c3  t1 = t1  t2 = t2  m1 = m1  m2 = m2
    NoTopic = NoTopic
    Clients = {a, b}
    Topics = {t1, t2}
    MaxMessages = 3
    Streams = {a, b, c3}
    Published = {m1, m2}
    \* Those of base/main.go, in units of ten tokens and of one second.
    Rate = 1
    Capacity = 5
    Requests = {1, 2, 4}
    Age = 10
    MaxTime = 6
SPECIFICATION RunningFair
INVARIANTS NoSendOnClosed V1TypeOK LongRun Smooths
PROPERTIES Implements PublishReturns
CHECK_DEADLOCK FALSE
