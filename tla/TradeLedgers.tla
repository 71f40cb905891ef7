---------------------------- MODULE TradeLedgers ----------------------------
(***************************************************************************)
(* What a backtest's report is computed from its fills: the round trips    *)
(* (engine/backtest/roundtrips.py) and the daily results                   *)
(* (engine/backtest/daily_result.py), as the engine feeds them at each     *)
(* time point.  A fill's commission is a rate per share and its realized   *)
(* profit a gain per share closed, so that all shares come out even; one   *)
(* of no shares stands for a time point at which nothing is filled.        *)
(*                                                                         *)
(* A lot is known by the number of the fill that opened it, a round trip   *)
(* by the numbers of the fill that closes it and of the lot it closes a    *)
(* part of.                                                                *)
(***************************************************************************)
EXTENDS Integers, FiniteSetsExt, SequencesExt

CONSTANTS
  LedgerSymbols,
  LedgerTrades,     \* the fills: side, qty, price, rate (the commission per share)
                    \* and gain (the realized profit per share closed)
  LedgerPrices,     \* the closes
  Flows,            \* cash that is no trade: dividends, borrow fees
  MaxLedgerPoints   \* bound on the time points

ASSUME LedgerAssumption ==
  /\ IsFiniteSet(LedgerSymbols) /\ MaxLedgerPoints \in Nat
  /\ LedgerTrades \subseteq [side : {"BUY", "SELL"}, qty : Nat, price : Nat, rate : Nat, gain : Int]
  /\ LedgerPrices \subseteq Nat /\ Flows \subseteq Int

VARIABLES
  points, ended,
  ledgerCash, position,     \* the account, as the broker keeps it
  closes, preClose,         \* the last prices, those of the day before
  start, fills, flow,       \* the day: _start_pos, _day_fills, _day_cash_flow
  results,                  \* net_pnl of the days that are over
  openLots, trips,          \* what is left of a fill's lot; a fill's trips, by lot
  commission, realized,     \* what the fills say: commission, profit
  dayEnds                   \* the equity at the end of each day that is over

ledgerVars == <<points, ended, ledgerCash, position, closes, preClose, start, fills, flow, results,
          openLots, trips, commission, realized, dayEnds>>

\* The sum of a function; a dict's get and update.
SumOver(g) == SumFunctionOnSet(g, DOMAIN g)
Get(prices, s, default) == IF s \in DOMAIN prices THEN prices[s] ELSE default
With(g, x, v) == [y \in DOMAIN g \cup {x} |-> IF y = x THEN v ELSE g[y]]

Equity == ledgerCash + SumOver([s \in LedgerSymbols |-> position[s] * Get(closes, s, 0)])

LedgerInit ==
  /\ points = 0 /\ ended = FALSE
  /\ ledgerCash = 0 /\ position = [s \in LedgerSymbols |-> 0]
  /\ closes = <<>> /\ preClose = <<>>
  /\ start = position /\ fills = <<>> /\ flow = 0 /\ results = <<>>
  /\ openLots = <<>> /\ trips = <<>>
  /\ commission = 0 /\ realized = 0 /\ dayEnds = <<>>

-----------------------------------------------------------------------------
(* Round trips *)

\* position_change
Change(f) == IF f.side = "BUY" THEN f.qty ELSE -f.qty

\* How many shares of its position the broker closes, and realizes a profit of.
Booked(f) ==
  Min({f.qty, Max({0, IF f.side = "BUY" THEN -position[f.sym] ELSE position[f.sym]})})

Opens(f) == IF f.side = "BUY" THEN "long" ELSE "short"
Closes(f) == IF f.side = "BUY" THEN "short" ELSE "long"

LotsOf(s, dir) == {i \in DOMAIN openLots : openLots[i].sym = s /\ openLots[i].dir = dir}
Against(f) == LotsOf(f.sym, Closes(f))
Open(I) == SumOver([i \in I |-> openLots[i].qty])
Closing(f) == Min({f.qty, Open(Against(f))})

\* Mutant: every lot gives what the fill closes.
TakenOfEach(f, i) == Min({openLots[i].qty, Closing(f)})

\* What closing takes of a lot, the oldest first.
Taken(f, i) ==
  LET wanted == Closing(f) - Open({j \in Against(f) : j < i})
  IN Max({0, Min({openLots[i].qty, wanted})})

Share(amount, part, all) == (amount * part) \div all
Fees(f) == f.rate * f.qty

\* _close_against: a trip for each lot that the fill closes a part of.
Trips(f) ==
  [i \in {j \in Against(f) : Taken(f, j) > 0} |->
    [pnl |-> Share(f.gain * Booked(f), Taken(f, i), Closing(f)),
     fee |-> Share(openLots[i].fee, Taken(f, i), openLots[i].orig)
               + Share(Fees(f), Taken(f, i), f.qty)]]

\* build_round_trips: what the n-th fill leaves open; the part that closes
\* nothing opens a lot on the other side.
Left(f, i) == openLots[i].qty - IF i \in Against(f) THEN Taken(f, i) ELSE 0
Rest(f) == f.qty - Closing(f)
Lots(f, n) ==
  [i \in {j \in DOMAIN openLots : Left(f, j) > 0} \cup (IF Rest(f) > 0 THEN {n} ELSE {}) |->
     IF i = n THEN [sym |-> f.sym, dir |-> Opens(f), qty |-> Rest(f), orig |-> Rest(f),
                    fee |-> Share(Fees(f), Rest(f), f.qty)]
     ELSE [openLots[i] EXCEPT !.qty = Left(f, i)]]

-----------------------------------------------------------------------------
(* Daily results *)

FillsOf(deals, s) == {k \in DOMAIN deals : deals[k].sym = s}

\* build_contract_daily_result
HoldingPnl(s, pos, closeOf, pre) ==
  pos[s] * (Get(closeOf, s, 0) - Get(pre, s, Get(closeOf, s, 0)))
TradingPnl(f, closeOf) == Change(f) * (Get(closeOf, f.sym, 0) - f.price) - Fees(f)
ContractPnl(s, pos, deals, closeOf, pre) ==
  HoldingPnl(s, pos, closeOf, pre)
    + SumOver([k \in FillsOf(deals, s) |-> TradingPnl(deals[k], closeOf)])

\* _flush, over the symbols that were held or traded.
Active(pos, deals) == {s \in LedgerSymbols : pos[s] # 0 \/ FillsOf(deals, s) # {}}
NetPnl(pos, deals, closeOf, pre) ==
  SumOver([s \in Active(pos, deals) |-> ContractPnl(s, pos, deals, closeOf, pre)])
Flush == Append(results, NetPnl(start, fills, closes, preClose) + flow)

\* begin_day: the positions before the matching.
Begins(f) == position

FillOf(s, t) ==
  [sym |-> s, side |-> t.side, qty |-> t.qty, price |-> t.price, rate |-> t.rate, gain |-> t.gain]

\* One time point: `day` says that it is the first of another day, `trade` is
\* what the matching fills of s, c the close of s.
LedgerPoint(day, s, trade, c, cashFlow) ==
  LET f == FillOf(s, trade)
      n == points + 1 IN
  /\ points < MaxLedgerPoints /\ ~ended
  /\ points' = n
  /\ ledgerCash' = ledgerCash - Change(f) * f.price - Fees(f) + cashFlow
  /\ position' = [position EXCEPT ![s] = @ + Change(f)]
  /\ closes' = With(closes, s, c)
  /\ IF day /\ points > 0
     THEN /\ results' = Flush
          /\ preClose' = closes
          /\ dayEnds' = Append(dayEnds, Equity)
     ELSE UNCHANGED <<results, preClose, dayEnds>>
  /\ IF day \/ points = 0
     THEN start' = Begins(f) /\ fills' = With(<<>>, n, f) /\ flow' = cashFlow
     ELSE start' = start /\ fills' = With(fills, n, f) /\ flow' = flow + cashFlow
  /\ trips' = With(trips, n, Trips(f))
  /\ openLots' = Lots(f, n)
  /\ commission' = commission + Fees(f)
  /\ realized' = realized + f.gain * Booked(f)
  /\ UNCHANGED ended

\* finish
Finish ==
  /\ points > 0 /\ ~ended
  /\ ended' = TRUE
  /\ results' = Flush
  /\ preClose' = closes
  /\ dayEnds' = Append(dayEnds, Equity)
  /\ UNCHANGED <<points, ledgerCash, position, closes, start, fills, flow, openLots, trips, commission, realized>>

LedgerNext ==
  \/ \E day \in BOOLEAN, s \in LedgerSymbols, trade \in LedgerTrades, c \in LedgerPrices, cashFlow \in Flows :
       LedgerPoint(day, s, trade, c, cashFlow)
  \/ Finish

LedgerSpec == LedgerInit /\ [][LedgerNext]_ledgerVars

-----------------------------------------------------------------------------
(* Properties *)

LedgerTypeOK ==
  /\ points \in 0 .. MaxLedgerPoints /\ ended \in BOOLEAN
  /\ ledgerCash \in Int /\ flow \in Int /\ commission \in Nat /\ realized \in Int
  /\ position \in [LedgerSymbols -> Int] /\ start \in [LedgerSymbols -> Int]
  /\ DOMAIN closes \subseteq LedgerSymbols /\ DOMAIN preClose \subseteq DOMAIN closes
  /\ DOMAIN fills \subseteq 1 .. points /\ DOMAIN openLots \subseteq 1 .. points
  /\ DOMAIN trips = 1 .. points
  /\ Len(results) = Len(dayEnds)

\* The profit of the round trips is the realized profit of the fills: no part
\* of a fill is matched twice or not at all.
PnlIsWhole ==
  SumOver([n \in DOMAIN trips |-> SumOver([i \in DOMAIN trips[n] |-> trips[n][i].pnl])]) = realized

\* Every commission is borne by a trip or by a lot that is still open.
CommissionIsWhole ==
  SumOver([n \in DOMAIN trips |-> SumOver([i \in DOMAIN trips[n] |-> trips[n][i].fee])])
    + SumOver([i \in DOMAIN openLots |->
               Share(openLots[i].fee, openLots[i].qty, openLots[i].orig)])
    = commission

\* The open lots are the position, all of them on its side.
LotsArePosition ==
  \A s \in LedgerSymbols :
    /\ LotsOf(s, "long") = {} \/ LotsOf(s, "short") = {}
    /\ Open(LotsOf(s, "long")) - Open(LotsOf(s, "short")) = position[s]

\* The days add up to the equity: through reversals, days without a price for
\* a symbol, several time points in a day and cash that is no trade.
DailyPnlIsEquity ==
  \A i \in DOMAIN results :
    results[i] = dayEnds[i] - IF i = 1 THEN 0 ELSE dayEnds[i - 1]

\* The ledgers of a backtest agree: profit of the round trips and realized profit,
\* commissions, open lots and positions, daily profits and equity.
LedgersAgree ==
  /\ LedgerTypeOK
  /\ PnlIsWhole /\ CommissionIsWhole
  /\ LotsArePosition /\ DailyPnlIsEquity
=============================================================================
