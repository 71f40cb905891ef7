SPECIFICATION FairTradingSpec
CONSTANTS
  Sides = {"orders", "stream"}
  o1 = o1
  o2 = o2
  Ids = {o1, o2}
  None = None
  Symbol <- MCSymbol
  Side <- MCSide
  Qty <- MCQtyMixed
  MAX_ORDER_QTY = 2
  Gateway = "futu"
  LongOnly = FALSE
  MaxCount = 2
  OnError = "log"
  DayEnds = FALSE
  s1 = s1
  s2 = s2
  c1 = c1
  Global = Global
  Running <- MCRunning
  Restarted <- MCRestarted
  Numbers = {1, 2}
  LastVersion <- MCLastVersion
  Count = 2
  Limit = 1
PROPERTIES
  LedgerSpec
  ActiveOrdersSettle
  ClientsCatchUp
