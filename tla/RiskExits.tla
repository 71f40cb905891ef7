----------------------------- MODULE RiskExits -----------------------------
(***************************************************************************)
(* What closes a position because of its profit: the risk gate of a        *)
(* strategy (engine/backtest/trade.py, broker_exits.py, with the lots of   *)
(* position.py), and of the risk models of the framework the trailing stop *)
(* and the drawdown of the portfolio (engine/framework/risk/drawdown.py).  *)
(* One symbol, one fill at most at a time point, before the bar's close.   *)
(* Profits are fractions <<n, d>> with d > 0.                              *)
(***************************************************************************)
EXTENDS Integers, SequencesExt

CONSTANTS
  ExitPrices, Quantities,
  Fee,             \* the commission of a share
  ExitModes,       \* [by, short, rules]: by is "gate", "trail", "first" or "top";
                   \* short is allow_short; the rules, in tenths, are
                   \* [stop, trail, offset, roi], 0 for none
  Values,          \* what the portfolio may be worth
  MaxExitPoints    \* bound on the time points

\* Prices are above the commission, so that average costs are positive; no
\* distance is negative (ExitRules.validate).
ASSUME ExitAssumption ==
  /\ Fee \in Nat /\ ExitPrices \subseteq Nat /\ \A p \in ExitPrices : p > Fee
  /\ Quantities \subseteq Nat \ {0} /\ Values \subseteq Int /\ MaxExitPoints \in Nat
  /\ \A m \in ExitModes : /\ m.by \in {"gate", "trail", "first", "top"}
                           /\ m.short \in BOOLEAN
                           /\ {m.rules.stop, m.rules.trail, m.rules.offset} \subseteq Nat

VARIABLES
  mode, now, price,
  lots,            \* the open lots, oldest first: [qty, cost]
  trade,           \* the Trade: [dir, since, cost, qty, top], dir 0 for none
  exit,            \* the shares of the pending risk exit: bought if positive, sold
                   \* if negative, 0 for none
  fired,           \* what the last check came to: a reason or "none"
  seen,            \* history: the prices the present stop has seen
  base,            \* history: average cost when the position was last enlarged
  uneven,          \* history: whether a sale has changed the average since
  peak,            \* _peaks of the trailing stop: [of, top], of <<>> for none
  mark,            \* _high_water_mark, 0 for None
  worth            \* history: [vals, hit]: the values since the last liquidation
                   \* up to the last one asked about, and whether that hit

exitVars == <<mode, now, price, lots, trade, exit, fired, seen, base, uneven, peak, mark, worth>>

NoTrade == [dir |-> 0, since |-> 0, cost |-> 0, qty |-> 0, top |-> <<0, 1>>]
NoPeak == [of |-> <<>>, top |-> <<0, 1>>]

ExitInit ==
  /\ mode \in ExitModes /\ now = 0 /\ price = 0
  /\ lots = <<>> /\ trade = NoTrade /\ exit = 0 /\ fired = "none"
  /\ seen = {} /\ base = <<0, 1>> /\ uneven = FALSE
  /\ peak = NoPeak /\ mark = 0 /\ worth = [vals |-> <<>>, hit |-> FALSE]

-----------------------------------------------------------------------------
(* Lots and the trade *)

\* The shares of the i oldest lots; of all; what they cost.
UpTo(ls, i) == SumFunctionOnSet([k \in DOMAIN ls |-> ls[k].qty], 1 .. i)
Held(ls) == UpTo(ls, Len(ls))
Paid(ls) == SumFunctionOnSet([k \in DOMAIN ls |-> ls[k].qty * ls[k].cost], DOMAIN ls)
MaxOf(a, b) == IF a > b THEN a ELSE b
MinOf(a, b) == IF a < b THEN a ELSE b

\* _consume: n shares less, of the oldest lots.
Consumed(ls, n) ==
  LET gone == Min({i \in DOMAIN ls : UpTo(ls, i) > n} \cup {Len(ls) + 1}) - 1
  IN [i \in 1 .. Len(ls) - gone |->
        [ls[gone + i] EXCEPT !.qty = MinOf(@, UpTo(ls, gone + i) - n)]]

\* The lots after a fill of n shares to side d at price at; what goes beyond the
\* lots opens a position of the other direction.
LotsAfter(d, n, at) ==
  LET new(q) == [qty |-> q, cost |-> at + d * Fee]
  IN IF trade.dir \in {0, d} THEN Append(lots, new(n))
     ELSE IF n <= Held(lots) THEN Consumed(lots, n)
     ELSE <<new(n - Held(lots))>>

Less(a, b) == a[1] * b[2] < b[1] * a[2]
Better(a, b) == IF Less(a, b) THEN b ELSE a

\* Mutant: the highest profit outlives a purchase.
TopAfterKept(t, qty) == t.top

\* next_trade: the profit is forgotten when the position is enlarged.
TopAfter(t, qty) == IF qty > t.qty THEN <<0, 1>> ELSE t.top

NextTrade(t, d, ls) ==
  IF ls = <<>> THEN NoTrade
  ELSE IF t.dir = d
  THEN [t EXCEPT !.qty = Held(ls), !.cost = Paid(ls), !.top = TopAfter(t, Held(ls))]
  ELSE [dir |-> d, since |-> now + 1, cost |-> Paid(ls), qty |-> Held(ls), top |-> <<0, 1>>]

\* The direction after a fill of n shares to side d.
DirAfter(d, n) == IF trade.dir \in {0, d} \/ n > Held(lots) THEN d ELSE trade.dir

\* current_profit at price p; _fingerprint.
Profit(t, p) == <<t.dir * (p * t.qty - t.cost), t.cost>>
Fingerprint(t) == <<t.dir, t.since, t.cost, t.qty>>
SameBase(f, t) ==
  f # <<>> /\ f[1] = t.dir /\ f[2] = t.since /\ f[3] * t.qty = t.cost * f[4]

-----------------------------------------------------------------------------
(* The gate of the strategy *)

AtLeast(a, tenths) == a[1] * 10 >= tenths * a[2]
Down(a, b, tenths) == a[1] * b[2] * 10 <= b[1] * a[2] * 10 - tenths * a[2] * b[2]

\* roi_threshold: the step of the ladder for the time the trade is held.
RoiReached(t, profit) ==
  LET steps == {m \in DOMAIN mode.rules.roi : m <= now + 1 - t.since}
  IN steps # {} /\ AtLeast(profit, mode.rules.roi[CHOOSE m \in steps : \A x \in steps : x <= m])

\* evaluate_exit: the first rule that is met; t has seen this profit.
Reason(t, profit) ==
  IF RoiReached(t, profit) THEN "roi"
  ELSE IF mode.rules.stop # 0 /\ Down(profit, <<0, 1>>, mode.rules.stop) THEN "stop_loss"
  ELSE IF mode.rules.trail # 0 /\ AtLeast(t.top, mode.rules.offset)
            /\ Down(profit, t.top, mode.rules.trail) THEN "trailing"
  ELSE "none"

\* check_exit_conditions of trade t and pending exit e: the trade is marked
\* and may have to go.
Gate(t, e, p) ==
  IF t = NoTrade \/ e # 0
  THEN trade' = t /\ exit' = e /\ fired' = "none"
  ELSE LET marked == [t EXCEPT !.top = Better(@, Profit(t, p))]
       IN /\ trade' = marked
          /\ fired' = Reason(marked, Profit(t, p))
          /\ IF fired' = "none" THEN exit' = 0 ELSE exit' \in {0, - t.dir * t.qty}

-----------------------------------------------------------------------------
(* The risk models of the framework *)

\* _refresh_peaks
PeakOf(t, p) ==
  IF SameBase(peak.of, t) THEN Better(peak.top, Profit(t, p)) ELSE Better(<<0, 1>>, Profit(t, p))

\* TrailingStopRiskManagement.manage_risk
Trail(t, p) ==
  IF t = NoTrade
  THEN peak' = NoPeak /\ fired' = "none"
  ELSE /\ peak' = [of |-> Fingerprint(t), top |-> PeakOf(t, p)]
       /\ fired' = IF Down(Profit(t, p), PeakOf(t, p), mode.rules.trail) THEN "trailing" ELSE "none"

\* The mark after it was fallen short of.
MarkAfter(m) == 0

\* MaximumDrawdownPortfolio.manage_risk; a worthless portfolio is skipped.
Portfolio(v) ==
  LET m == IF mark = 0 THEN v ELSE IF mode.by = "top" THEN MaxOf(mark, v) ELSE mark
      hit == (v - m) * 10 <= - mode.rules.trail * m
  IN IF v <= 0
     THEN UNCHANGED <<mark, worth>> /\ fired' = "skipped"
     ELSE /\ mark' = IF hit THEN MarkAfter(m) ELSE m
          /\ fired' = IF hit THEN "portfolio" ELSE "none"
          /\ worth' = [vals |-> IF worth.hit THEN <<v>> ELSE Append(worth.vals, v), hit |-> hit]

-----------------------------------------------------------------------------
(* What the histories tell after a fill to the lots ls of direction d *)

Recorded(t, asked, p) ==
  LET fresh == t.dir # trade.dir \/ t.since # trade.since
      larger == fresh \/ t.qty > trade.qty
      other == t.cost * trade.qty # trade.cost * t.qty
      forget == IF mode.by = "trail" THEN fresh \/ (asked /\ ~ SameBase(peak.of, t)) ELSE larger
      old == IF forget THEN {} ELSE seen
  IN /\ seen' = IF asked THEN old \cup {p} ELSE old
     /\ base' = IF larger THEN <<t.cost, MaxOf(t.qty, 1)>> ELSE base
     /\ uneven' = (~ larger /\ (uneven \/ other))

\* A time point: perhaps a fill, then the bar's close and the check of it.
ExitPoint(t, ls, e, asked, p) ==
  /\ now' = now + 1 /\ price' = p /\ lots' = ls
  /\ \/ /\ mode.by = "gate"
        /\ Recorded(t, e = 0, p) /\ Gate(t, e, p) /\ UNCHANGED peak
     \/ /\ mode.by = "trail"
        /\ Recorded(t, asked, p) /\ trade' = t /\ exit' = e
        /\ IF asked THEN Trail(t, p) ELSE UNCHANGED peak /\ fired' = "none"
  /\ UNCHANGED <<mode, mark, worth>>

Quietly(asked, p) == ExitPoint(trade, lots, exit, asked, p)

\* _try_fill of n shares to side d at price at, which leaves the exit e pending.
\* Without allow_short no more is sold than is held.
Fills(d, n, at, e, asked, p) ==
  LET ls == LotsAfter(d, n, at)
  IN /\ mode.short \/ d = 1 \/ n <= Held(lots)
     /\ ExitPoint(NextTrade(trade, DirAfter(d, n), ls), ls, e, asked, p)

\* A fill of what the strategy ordered.
Trades(d, n, at, asked, p) == Fills(d, n, at, exit, asked, p)

\* A fill of the exit, of all or of the volume there is, whatever is held by now;
\* of a cover, what the cash does not pay for lapses.
Exits(d, n, at, asked, p) ==
  /\ d * exit >= n
  /\ \E rest \in 0 .. d * exit - n :
       /\ d = -1 => rest = d * exit - n
       /\ Fills(d, n, at, d * rest, asked, p)

\* The exit is refused (no cash, more than is held, a price limit) or expires.
Drops(asked, p) == exit # 0 /\ ExitPoint(trade, lots, 0, asked, p)

Valued(v) ==
  /\ mode.by \in {"first", "top"}
  /\ now' = now + 1
  /\ Portfolio(v)
  /\ UNCHANGED <<mode, price, lots, trade, exit, seen, base, uneven, peak>>

ExitNext ==
  /\ now < MaxExitPoints
  /\ \/ \E v \in Values : Valued(v)
     \/ /\ mode.by \in {"gate", "trail"}
        /\ \E p \in ExitPrices, asked \in IF mode.by = "gate" THEN {TRUE} ELSE BOOLEAN :
             \/ Quietly(asked, p) \/ Drops(asked, p)
             \/ \E d \in {1, -1}, at \in ExitPrices :
                  \/ \E n \in Quantities : Trades(d, n, at, asked, p)
                  \/ \E n \in 1 .. d * exit : Exits(d, n, at, asked, p)

ExitSpec == ExitInit /\ [][ExitNext]_exitVars

-----------------------------------------------------------------------------
(* Properties *)

ExitTypeOK ==
  /\ mode \in ExitModes /\ now \in 0 .. MaxExitPoints /\ price \in ExitPrices \cup {0}
  /\ trade.qty = Held(lots) /\ trade.cost = Paid(lots)
  /\ fired \in {"none", "skipped", "roi", "stop_loss", "trailing", "portfolio"}

\* How far the price is from the best this stop has seen; the average cost
\* counts as seen when the position was enlarged.
Fallen ==
  \/ \E x \in seen : trade.dir * x > trade.dir * price
  \/ trade.dir * base[1] > trade.dir * price * base[2]

\* A trailing stop is a stop on what was given back: it closes no position
\* whose price is the best it has seen.  Purchases, which change the average
\* cost, do not make it forget that; a sale of part of a position built at
\* several prices does (the rest has another average), and is left out.
TrailingNeedsFall == mode.by = "gate" /\ fired = "trailing" /\ ~ uneven => Fallen

\* What trade.py says: "the base has changed; the old peak would close the new
\* position without any drawdown", with sales that change it (it does not hold).
NoStopWithoutFall == mode.by = "gate" /\ fired = "trailing" => Fallen

\* The trailing stop of the framework compares with the profits of this trade
\* on its present cost, and with all it was asked about: nothing of a trade
\* that was closed, turned or enlarged in between comes back, and nothing of
\* this one is lost.
StopIsOfItsTrade ==
  mode.by = "trail" /\ trade # NoTrade /\ SameBase(peak.of, trade) /\ seen # {}
    => LET had == {Profit(trade, x) : x \in seen} \cup {<<0, 1>>}
       IN /\ \A f \in had : ~ Less(peak.top, f)
          /\ \E f \in had : ~ Less(f, peak.top)

\* The drawdown of the portfolio is measured anew after a liquidation: it
\* never comes twice without a fall in between, and comes whenever the value
\* is so much below what it is measured by.
DrawdownIsMeasured ==
  worth.vals # <<>> =>
    LET last == Last(worth.vals)
        ref == IF mode.by = "first" THEN worth.vals[1] ELSE Max(Range(worth.vals))
    IN worth.hit <=> 10 * (last - ref) <= - mode.rules.trail * ref

\* An exit is measured on what it is an exit of: a fall of this trade since its
\* best profit, or of the portfolio since its last liquidation.
ExitsAreMeasured == ExitTypeOK /\ TrailingNeedsFall /\ StopIsOfItsTrade /\ DrawdownIsMeasured
=============================================================================
