SPECIFICATION AccountSpec
CONSTANTS
    Sides = {"paper", "backtest"}
    DayOf <- MCDayOf
    Universe <- MCSymbolOrder
    BarSets <- MCBarSets
    PricesAt <- MCPricesAt
    DividendOn <- MCDividendOn
    BorrowAt <- MCBorrowAt
    Wishes <- MCWishes
    Modes <- MCModes
    MaxOrders = 3
    Cash0 = 7
    MinFee = 2
    MaxOpen = 1
    MaxCount = 2
    MaxAdjusts = 1
    Timeout = 1
    MaxRecorded = 1
    s1 = s1
    s2 = s2
    m1 = m1
    p1 = p1
    e1 = e1
    e2 = e2
    x1 = x1
    d1 = d1
    d2 = d2
    d3 = d3
    None = None
    Ids <- MCIds
    Symbols = {s1, s2}
    Qtys = {1, 2}
    Prices = {1, 3}
    Fee = 1
    InitialCash = 10
    LongOnly = TRUE
    MaxShares = 3
    Manual = {m1}
    Invalid = {x1}
    Previews = {p1}
    Executions = {e1, e2}
    Moving = {s1}
    Preview <- MCPreview
    Draft <- MCDraft
    SymbolOrder <- MCSymbolOrder
    Weight <- MCWeight
    Whole = 4
    Reference <- MCReference
    MinTrade = 0
    Lot = 1
    MaxRemembered = 2
INVARIANTS BooksMatch ExecutionsAreTrue BooksBalance
PROPERTIES OrdersAreKept
CHECK_DEADLOCK FALSE
