------------------------------ MODULE MCResearch ------------------------------
(***************************************************************************)
(* One run for the research side: what backtests, portfolios and           *)
(* trainings compute, and how parent orders are cut.  Each behaviour is    *)
(* one of the chosen sides; the variables of the others keep an initial    *)
(* value.                                                                  *)
(***************************************************************************)
EXTENDS OrderMatching, SlicePlan, Rotation, SampleSplits, TradeLedgers, Allocation,
        PriceHistory, FrameworkStrategy, RiskExits, TLC

CONSTANT Sides

VARIABLE side

-----------------------------------------------------------------------------
(* Values *)

MCSteps == {4, 6, 9}
Back(buy) == [p \in MCSteps |-> IF buy THEN (3 * p) \div 2 ELSE (2 * p) \div 3]
Ask(type, buy, l, s, g) ==
  [type |-> type, buy |-> buy, limit |-> l, stop |-> s, trigger |-> g, back |-> Back(buy)]
\* Of every type, one that lacks its limit included.
MCOrders ==
  UNION {{Ask("MARKET", b, 0, 0, 0), Ask("MARKET_ON_CLOSE", b, 0, 0, 0),
          Ask("LIMIT", b, 6, 0, 0), Ask("LIMIT", b, 0, 6, 0),
          Ask("STOP_MARKET", b, 0, 6, 0), Ask("TRAILING_STOP", b, 0, 0, 0)}
         \cup {Ask("STOP_LIMIT", b, 6, s, 0) : s \in MCSteps}
         \cup {Ask("LIMIT_IF_TOUCHED", b, 6, 0, g) : g \in MCSteps} : b \in BOOLEAN}
Shape(o, l, h) == [open |-> o, low |-> l, high |-> h, close |-> IF o = l THEN h ELSE l]
MCBars ==
  {Shape(6, 6, 6), Shape(6, 4, 6), Shape(6, 6, 9)} \cup {Shape(o, 4, 9) : o \in MCSteps}

MCTotals == {0, 1, 2, 3, 5, 7, 8, 11, 12, 17, 23, 24, 30, 31}
MCCounts == 0 .. 7 \cup {9}
MCDisplays == 0 .. 5 \cup {8, 30}

MCConfigs ==
  {c \in [topk : {2, 3}, n_drop : {1, 2}, hold_thresh : {0, 2},
          method_sell : {"bottom", "random"}, method_buy : {"top", "random"}] :
     c.method_sell = "random" <=> c.method_buy = "random"}

MCWindows == [n : {4, 10, 12}, train : {2, 5}, test : {2, 3}, mode : {"rolling", "anchored"}]

Deal(way, n, at, g) == [side |-> way, qty |-> n, price |-> at, rate |-> 1, gain |-> g]
MCTrades ==
  {Deal("BUY", 0, 4, 1), Deal("BUY", 2, 3, -1), Deal("SELL", 1, 4, 2), Deal("SELL", 3, 3, -1)}

MCActions ==
  [ex : 1 .. LastHistoryDay + 1, kind : {"split", "dividend"}, amount : {2}]
    \cup {[ex |-> 2, kind |-> "dividend", amount |-> 6]}

FutureBar(o, c) == [open |-> o, close |-> c]
MCCandidates ==
  {<<>>, <<FutureBar(3, 4)>>, <<FutureBar(3, 3), FutureBar(5, 4)>>, <<FutureBar(5, 3)>>,
   <<FutureBar(5, 4), FutureBar(3, 5)>>}

View(d, g, life) == [dir |-> d, group |-> g, life |-> life]
Pair(d, e, life) == ("a" :> View(d, "g", life)) @@ ("b" :> View(e, "g", life))
MCEmissions == {<<>>, Pair(1, -1, 1), Pair(-1, 1, 9), Pair(0, 0, 9), "a" :> View(-1, "", 9)}
MCBarSets == {{"a", "b"}, {"b"}}
Purchase(m, n) == ("a" :> m) @@ ("b" :> n)
Setup(e, r, n, c, m, w) == [exec |-> e, risk |-> r, period |-> n, caps |-> c, cash |-> m, worth |-> w]
\* Half of the equity buys two of each, or none of the dear one.
MCFrameworkModes ==
  {Setup("immediate", FALSE, 0, {9}, {0, 1, 9}, {Purchase(4, 4)}),
   Setup("immediate", TRUE, 0, {9}, {9}, {Purchase(4, 4), Purchase(1, 4)}),
   Setup("vwap", FALSE, 1, {1, 9}, {9}, {Purchase(4, 4)}),
   Setup("vwap", FALSE, 0, {0, 9}, {9}, {Purchase(4, 4), Purchase(4, 1)})}

Rules(by, short, s, n, from, roi) ==
  [by |-> by, short |-> short, rules |-> [stop |-> s, trail |-> n, offset |-> from, roi |-> roi]]
MCExitModes ==
  {Rules("gate", FALSE, 0, 1, 0, <<>>), Rules("gate", TRUE, 3, 2, 1, 2 :> 1),
   Rules("trail", TRUE, 0, 1, 0, <<>>),
   Rules("first", FALSE, 0, 2, 0, <<>>), Rules("top", FALSE, 0, 2, 0, <<>>)}

-----------------------------------------------------------------------------
One(S) == CHOOSE x \in S : TRUE

\* Every side starts as it likes when it is the chosen one, and in one of its
\* initial states otherwise; an order that sees no bar comes to nothing.
Fixed(name, one) == side # name => one
ResearchInit ==
  /\ side \in Sides
  /\ Fixed("matching", order = One({o \in Orders : Valid(o)})) /\ MatchingInit
  /\ Fixed("slices", request = One(Requests)) /\ SliceInit
  /\ Fixed("rotation", cfg = One(Configs)) /\ RotationInit
  /\ Fixed("splits", days = [i \in Instruments |-> {}] /\ period = One(Periods)) /\ SplitInit
  /\ LedgerInit
  /\ Fixed("allocation",
           /\ weight = [a \in Assets |-> One(Weights)]
           /\ assetPrice = [a \in Assets |-> One(AssetPrices)]
           /\ total = One(AccountTotals))
  /\ AllocationInit
  /\ Fixed("prices", close = One(Histories) /\ actions = {}) /\ AdjustInit
  /\ Fixed("futures", contracts = <<>> /\ method = "raw") /\ FuturesInit
  /\ Fixed("framework", setup = One(FrameworkModes)) /\ FrameworkInit
  /\ Fixed("exits", mode = One(ExitModes)) /\ ExitInit

KeepsBut(name, by, v) == IF name = by THEN TRUE ELSE UNCHANGED v
Others(name) ==
  /\ UNCHANGED side
  /\ KeepsBut(name, "matching", matchingVars) /\ KeepsBut(name, "slices", sliceVars)
  /\ KeepsBut(name, "rotation", rotationVars)
  /\ KeepsBut(name, "splits", splitVars) /\ KeepsBut(name, "ledgers", ledgerVars)
  /\ KeepsBut(name, "allocation", allocationVars) /\ KeepsBut(name, "prices", adjustVars)
  /\ KeepsBut(name, "futures", futuresVars) /\ KeepsBut(name, "framework", frameworkVars)
  /\ KeepsBut(name, "exits", exitVars)

ResearchNext ==
  \/ side = "matching" /\ MatchingNext /\ Others("matching")
  \/ side = "slices" /\ SliceNext /\ Others("slices")
  \/ side = "rotation" /\ RotationNext /\ Others("rotation")
  \/ side = "splits" /\ SplitNext /\ Others("splits")
  \/ side = "ledgers" /\ LedgerNext /\ Others("ledgers")
  \/ side = "allocation" /\ AllocationNext /\ Others("allocation")
  \/ side = "prices" /\ AdjustNext /\ Others("prices")
  \/ side = "futures" /\ Stitch /\ Others("futures")
  \/ side = "framework" /\ FrameworkNext /\ Others("framework")
  \/ side = "exits" /\ ExitNext /\ Others("exits")

ResearchSpec ==
  ResearchInit
    /\ [][ResearchNext]_<<side, matchingVars, sliceVars, rotationVars, splitVars, ledgerVars,
                          allocationVars, adjustVars, futuresVars, frameworkVars, exitVars>>
==============================================================================
