SPECIFICATION ResearchSpec
CONSTANTS
  Sides = {"exits"}
  LastHistoryDay = 3
  HistoryPrices = {6, 9}
  Actions <- MCActions
  MaxActions = 3
  BarsPerDay = 1
  Candidates <- MCCandidates
  MaxContracts = 3
  BarPrices <- MCSteps
  Orders <- MCOrders
  Bars <- MCBars
  Qty = 2
  MaxBars = 3
  SliceTotals <- MCTotals
  Counts <- MCCounts
  Displays <- MCDisplays
  MinSlices = 1
  MaxSlices = 7
  MaxTotal = 30
  MaxIceberg = 6
  RotationSymbols = {"a", "b", "c", "d"}
  Configs <- MCConfigs
  MaxDays = 2
  Instruments = {"a", "b"}
  LastSampleDay = 5
  Periods = {1, 2}
  Ratios = {2, 3, 5, 9}
  Windows <- MCWindows
  MinWindow = 2
  LedgerSymbols = {"a", "b"}
  LedgerTrades <- MCTrades
  LedgerPrices = {3, 5}
  Flows = {0, 1}
  MaxLedgerPoints = 3
  Assets = {"a", "b", "c"}
  Weights = {0, 1, 3}
  Negligible = 1
  AssetPrices = {0, 1, 2, 5}
  AccountTotals = {1, 4, 7, 12}
  FrameworkSymbols = {"a", "b"}
  Emissions <- MCEmissions
  BarSets <- MCBarSets
  FrameworkModes <- MCFrameworkModes
  Limit = 2
  MaxFrameworkPoints = 4
  ExitPrices = {8, 12}
  Quantities = {1, 2}
  Fee = 0
  ExitModes <- MCExitModes
  Values = {0, 7, 8, 10}
  MaxExitPoints = 4
INVARIANT NoStopWithoutFall
CHECK_DEADLOCK FALSE
