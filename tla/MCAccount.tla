----------------------------- MODULE MCAccount -----------------------------
(***************************************************************************)
(* The two simulated accounts, one of which a behaviour is of.  "paper":   *)
(* the paper gateway with its rebalancing; one preview, executed as a      *)
(* draft and as the same draft again, an order of a user that is a draft,  *)
(* and a draft that fails.  "backtest": the broker of the backtests.       *)
(***************************************************************************)
EXTENDS PaperRebalance, BacktestBroker, TLC

CONSTANTS Sides, s1, s2, m1, p1, e1, e2, x1, d1, d2, d3

VARIABLE side

MCIds == {m1} \cup ({e1, e2} \X {1, 2})
MCPreview == (e1 :> p1) @@ (e2 :> p1)
MCDraft == (e1 :> d1) @@ (e2 :> d1) @@ (x1 :> d3) @@ (m1 :> d2)
MCSymbolOrder == <<s1, s2>>
\* A quarter of one symbol, a half of the other, the rest in a third.
MCWeight == (s1 :> 1) @@ (s2 :> 2)
MCReference == (s1 :> 2) @@ (s2 :> 2)

\* Two time points of one day, and one of the next; three of one day.
MCDayOf == <<1, 1, 2>>
MCNoDividend == [d \in 0..1 |-> [s \in {s1, s2} |-> 0]]
MCIntraday == <<1, 1, 1>>
MCBarSets == {{s1, s2}, {s1}}
MCPricesAt == <<{3}, {4}, {3}>>
MCModes ==
  {[ashare |-> TRUE, short |-> FALSE, hooks |-> FALSE, volume |-> FALSE],
   [ashare |-> FALSE, short |-> FALSE, hooks |-> TRUE, volume |-> FALSE],
   [ashare |-> FALSE, short |-> TRUE, hooks |-> FALSE, volume |-> TRUE]}
\* A dividend on the second day; a fee that is due at the second time point.
MCDividendOn == [d \in 0..2 |-> [s \in {s1, s2} |-> IF d = 2 /\ s = s1 THEN 1 ELSE 0]]
MCBorrowAt == <<0, 1, 0>>
Wishing(s, way, type, n, tif) ==
  [sym |-> s, side |-> way, type |-> type, qty |-> n, tif |-> tif, till |-> IF tif = "GTD" THEN 1 ELSE 0]
MCWishes ==
  {Wishing(s1, "BUY", "MARKET", 2, "GTC"), Wishing(s1, "SELL", "MARKET", 2, "GTC"),
   Wishing(s2, "BUY", "LIMIT", 1, "DAY"), Wishing(s1, "SELL", "LIMIT", 1, "GTD"),
   Wishing(s2, "BUY", "BAD", 1, "GTC")}
-----------------------------------------------------------------------------
AccountInit ==
    /\ side \in Sides
    /\ RInit
    /\ BacktestInit
    /\ IF side = "paper" THEN mode = CHOOSE m \in Modes : TRUE
       ELSE \A a \in Symbols : price[a] = 1

AccountNext ==
    \/ side = "paper" /\ RNext /\ UNCHANGED <<side, brokerVars>>
    \/ side = "backtest" /\ BacktestNext /\ UNCHANGED <<side, vars, rebalancing>>

AccountSpec == AccountInit /\ [][AccountNext]_<<side, vars, rebalancing, brokerVars>>
=============================================================================
