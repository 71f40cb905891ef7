SPECIFICATION StrategiesSpec
CONSTANTS
    s1 = s1
    s2 = s2
    Symbols = {s1, s2}
    MaxTime = 2
    MaxItems = 3
    OrderLists <- MCOrderLists
    MaxFailures = 2
    MaxDaily = 1
    c1 = c1
    c2 = c2
    c3 = c3
    Starts = {c1, c2, c3}
    Portfolio = {c3}
    Id <- MCId
    None = None
    Severity = "block"
    MaxOrders = 4
INVARIANTS BarsAreKept CountsAreTrue OverlapsAreBounded
PROPERTIES StopIsFinal BucketFires StopsEnd
CHECK_DEADLOCK FALSE
