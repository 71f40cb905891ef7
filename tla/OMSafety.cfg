SPECIFICATION TradingSpec
CONSTANTS
  Sides = {"orders", "live", "restart"}
  o1 = o1
  o2 = o2
  Ids = {o1, o2}
  None = None
  Symbol <- MCSymbol
  Side <- MCSide
  Qty <- MCQty
  MAX_ORDER_QTY = 2
  Gateway = "futu"
  LongOnly = FALSE
  MaxCount = 1
  OnError = "log"
  DayEnds = TRUE
  s1 = s1
  s2 = s2
  c1 = c1
  Global = Global
  Running <- MCRunning
  Restarted <- MCRestarted
  Numbers = {1, 2}
  LastVersion <- MCLastVersion
  Count = 2
  Limit = 1
INVARIANTS
  TypeOK
  ReportedFillsAreReal
  NoLiveOrderForgotten
  ClosedReportIsFinal
  LocksHold
