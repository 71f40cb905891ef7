SPECIFICATION ServicesSpec
CONSTANTS
    Sides = {"data"}
    Calls = {q1, q2, q3, q4}
    Limit = 2
    LastDay = 1
    N = 3
    MaxDeletes = 1
    Fetches = {g1, g2, d1}
    Downloads = {d1}
    Wants <- MCWants
    None = None
    Missing = Missing
    Default = Default
    Empty = Empty
    MaxFaults = 1
    MaxRestarts = 1
    g1 = g1
    g2 = g2
    d1 = d1
    m1 = m1
    m2 = m2
    w1 = w1
    w2 = w2
    w3 = w3
    Markets = {m1, m2}
    Puts = {w1, w2, w3}
    Market <- MCMarket
    Gets = {h1}
    o1 = o1
    o2 = o2
    o3 = o3
    Ids = {o1, o2, o3}
    Qty <- MCQty
    Sym <- MCSym
    Side <- MCSide
    Checks = {k1}
    MaxOutside = 1
    p1 = p1
    p2 = p2
    Changes = {p1, p2}
    Secret <- MCSecret
    Api = Api
    Worker = Worker
    EventCount = 2
    Capacity = 1
    Marks = {r1}
    MarkAlls = {r2}
    Deletes = {r3}
    Clears = {r4}
    Entries = {a1, a2, a3}
    Threshold = 2
    Cooldown = 1
    MaxTime = 2
INVARIANT ArchiveIsReal
CHECK_DEADLOCK FALSE
